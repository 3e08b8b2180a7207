--------------------------- MODULE RequestsProofs ---------------------------
(***************************************************************************)
(* Requests is type-correct; an approved request was done, however many    *)
(* are served at a time, unless projects are closed meanwhile; and served  *)
(* one at a time, a request is done at most once and, once it is decided,  *)
(* nobody is asked about it any more.  What requests are announced by, the *)
(* emails of NoticeEmails: whatever fails, the attempts of an email are    *)
(* bounded; and while nothing fails, an email is sent once.                *)
(***************************************************************************)
EXTENDS Requests, NoticeEmails, FiniteSetTheorems, TLAPS

(* A record is of a kind that is made, and names the admin of a project    *)
(* that is to be created.                                                  *)
RecordOK(record) ==
  /\ record.type \in scope.kinds
  /\ record.type = "create-project" => record.admin \in User

(* What a task has once it has come to some place; a task that is not      *)
(* served is idle.                                                         *)
Updating == {"get_project", "act", "record", "clear", "tell"}
TaskOK(t) ==
  /\ task[t].pc # "idle" =>
       task[t].request \in used /\ task[t].record \in RequestRecord /\ RecordOK(task[t].record)
  /\ task[t].pc \in {"targets", "insert"} => task[t].record.status = "pending"
  /\ task[t].pc \in Updating \cup {"ask"} => requests[task[t].request] # None
  /\ task[t].pc \in Updating => task[t].status \in Status
  /\ task[t].pc \in {"clear", "tell"} => task[t].status \in Decided
  /\ task[t].pc = "act" /\ task[t].record.type = "transfer-project" =>
       task[t].record.admin \in User
  /\ t \notin scope.tasks => task[t].pc = "idle"

TasksOK ==
  /\ task \in [Task -> TaskState]
  /\ \A t \in Task : TaskOK(t)

TablesOK ==
  /\ scope \in Scopes
  /\ requests \in [Request -> RequestRecord \cup {None}]
  /\ projects \in [Project -> ProjectRecord \cup {None}]
  /\ asked \in SUBSET (Request \X User)
  /\ told \in SUBSET (Request \X Status)
  /\ done \in [Request -> Nat]
  /\ used \in SUBSET Request
  /\ updates \in Nat /\ lost \in Nat /\ unsent \in Nat
  /\ \A r \in Request : requests[r] # None => r \in used /\ RecordOK(requests[r])

Typed == TablesOK /\ TasksOK

(* What was asked for is still possible when it is about to be done, and   *)
(* was done when the approval is about to be recorded.                     *)
Undisturbed == OneAtATime \/ "close-project" \notin scope.kinds
ActOK(t) ==
  /\ task[t].pc = "act" /\ task[t].record.type # "create-project" =>
       projects[task[t].record.project] # None
  /\ task[t].pc \in {"record", "clear", "tell"} /\ task[t].status = "approved" =>
       done[task[t].request] >= 1

Approvals == Undisturbed => ApprovedIsDone /\ \A t \in Task : ActOK(t)

(* A request served alone finds its own as it left it.                     *)
AloneOK(t) ==
  LET r == task[t].request IN
  /\ task[t].pc \in {"targets", "insert"} => requests[r] = None /\ done[r] = 0
  /\ task[t].pc \in {"ask", "get_project", "act", "record"} => requests[r].status = "pending"
  /\ task[t].pc \in {"ask", "get_project", "act"} => done[r] = 0
  /\ task[t].pc \in {"get_project", "act"} => task[t].status = "approved"
  /\ task[t].pc = "record" /\ task[t].status # "approved" => done[r] = 0

(* What was done is a request approved, or one about to be recorded so.    *)
Recording(r) == \E t \in Task : task[t].pc = "record" /\ task[t].request = r
OnceOK ==
  \A r \in Request :
    /\ done[r] <= 1
    /\ done[r] > 0 => requests[r] # None /\ (requests[r].status = "approved" \/ Recording(r))

Clearing(r) == \E t \in Task : task[t].pc = "clear" /\ task[t].request = r
AskedOK ==
  \A x \in asked :
    requests[x[1]] # None /\ (requests[x[1]].status = "pending" \/ Clearing(x[1]))

Alone == OneAtATime /\ lost = 0 => OnceOK /\ AskedOK /\ \A t \in Task : AloneOK(t)

---------------------------------------------------------------------------
(* Types.                                                                  *)

LEMMA TypedIsTypeOK == Typed => TypeOK
  BY DEF Typed, TablesOK, TasksOK, TaskOK, TypeOK

(* What the assumption says of the instance.                               *)
LEMMA ScopeOK ==
  ASSUME TablesOK
  PROVE  /\ scope.kinds \subseteq RequestType /\ scope.requests \subseteq Request
         /\ scope.tasks \subseteq Task /\ IsFiniteSet(scope.tasks)
  BY RequestsAssumption DEF TablesOK

LEMMA RecordIsSome == None \notin RequestRecord /\ None \notin ProjectRecord
  BY RequestsAssumption

(* Tables that only grow keep what the tasks rely on.                      *)
Grows ==
  /\ scope' = scope /\ used \subseteq used'
  /\ \A r \in Request : requests[r] # None => requests'[r] # None

(* A task that is served becomes another that has what it needs.           *)
LEMMA BecomeOK ==
  ASSUME Typed, NEW t \in scope.tasks, NEW S \in TaskState, Grows,
         task' = [task EXCEPT ![t] = S],
         S.pc # "idle" => S.request \in used' /\ S.record \in RequestRecord /\ RecordOK(S.record),
         S.pc \in {"targets", "insert"} => S.record.status = "pending",
         S.pc \in Updating \cup {"ask"} => requests'[S.request] # None,
         S.pc \in Updating => S.status \in Status,
         S.pc \in {"clear", "tell"} => S.status \in Decided,
         S.pc = "act" /\ S.record.type = "transfer-project" => S.record.admin \in User
  PROVE  TasksOK'
<1>1. t \in Task
  BY ScopeOK DEF Typed
<1>2. task' \in [Task -> TaskState] /\ task'[t] = S /\ \A u \in Task \ {t} : task'[u] = task[u]
  BY <1>1 DEF Typed, TasksOK
<1>3. ASSUME NEW u \in Task PROVE TaskOK(u)'
  <2>1. CASE u = t
    BY <1>2, <2>1 DEF TaskOK, RecordOK, Grows
  <2>2. CASE u # t
    <3>1. TaskOK(u) /\ task'[u] = task[u]
      BY <1>2, <2>2 DEF Typed, TasksOK
    <3>2. task[u].pc \in Updating \cup {"ask"} => requests'[task[u].request] # None
      BY <3>1 DEF TaskOK, Grows, Updating, Typed, TablesOK
    <3> QED
      BY <3>1, <3>2 DEF TaskOK, RecordOK, Grows
  <2> QED
    BY <2>1, <2>2
<1> QED
  BY <1>2, <1>3 DEF TasksOK

LEMMA FinishOK ==
  ASSUME Typed, NEW t \in scope.tasks, Grows, Finish(t)
  PROVE  TasksOK'
<1>1. Idle \in TaskState /\ Idle.pc = "idle"
  BY DEF Idle, TaskState
<1> QED
  BY <1>1, BecomeOK DEF Finish, Updating

(* A task goes on with what it has.                                        *)
LEMMA GotoOK ==
  ASSUME Typed, NEW t \in scope.tasks, Grows, task[t].pc # "idle",
         NEW pc \in {"ask", "act", "record", "clear", "tell"}, Goto(t, pc),
         requests'[task[t].request] # None,
         pc # "ask" => task[t].status \in Status,
         pc \in {"clear", "tell"} => task[t].status \in Decided,
         pc = "act" /\ task[t].record.type = "transfer-project" => task[t].record.admin \in User
  PROVE  TasksOK'
<1> DEFINE S == [task[t] EXCEPT !.pc = pc]
<1>1. /\ task[t] \in TaskState /\ task[t].request \in used /\ task[t].record \in RequestRecord
      /\ RecordOK(task[t].record)
  BY ScopeOK DEF Typed, TasksOK, TaskOK
<1>2. /\ S \in TaskState /\ S.pc = pc /\ S.request = task[t].request
      /\ S.record = task[t].record /\ S.status = task[t].status
  BY <1>1 DEF TaskState
<1>3. task' = [task EXCEPT ![t] = S] /\ task[t].request \in used'
  BY <1>1 DEF Goto, Grows
<1> HIDE DEF S
<1> QED
  BY <1>1, <1>2, <1>3, BecomeOK DEF Updating

LEMMA InitTyped == Init => Typed
<1> SUFFICES ASSUME Init PROVE Typed
  OBVIOUS
<1>1. Idle \in TaskState /\ Idle.pc = "idle"
  BY DEF Idle, TaskState
<1>2. TasksOK
  BY <1>1 DEF Init, TasksOK, TaskOK, Updating
<1>3. TablesOK
  BY DEF Init, TablesOK
<1> QED
  BY <1>2, <1>3 DEF Typed

LEMMA UnchangedTyped ==
  ASSUME Typed, UNCHANGED vars
  PROVE  Typed'
<1>1. TablesOK'
  BY DEF Typed, TablesOK, RecordOK, vars
<1>2. TasksOK'
  BY DEF Typed, TasksOK, TaskOK, RecordOK, vars
<1> QED
  BY <1>1, <1>2 DEF Typed

(* Making a request.                                                       *)
LEMMA CreateTyped ==
  ASSUME Typed, NEW t \in scope.tasks, NEW r \in scope.requests, NEW type \in scope.kinds,
         NEW p \in Project, NEW u \in User,
         NEW admin \in CASE type = "create-project" -> User
                         [] type = "transfer-project" -> User \cup {None}
                         [] OTHER -> {None},
         create(t, r, type, p, admin, u)
  PROVE  Typed'
<1> DEFINE record == [type |-> type, project |-> p, admin |-> admin,
                      requester |-> u, targets |-> {}, status |-> "pending"]
           S == [Idle EXCEPT !.pc = "targets", !.request = r, !.user = u, !.record = record]
<1>1. /\ r \in Request /\ type \in RequestType /\ admin \in User \cup {None}
      /\ type = "create-project" => admin \in User
  BY ScopeOK DEF Typed
<1>2. record \in RequestRecord /\ RecordOK(record) /\ record.status = "pending"
  BY <1>1 DEF RequestRecord, RecordOK, Status
<1>3. S \in TaskState /\ S.pc = "targets" /\ S.request = r /\ S.record = record
  <2> HIDE DEF record
  <2> QED BY <1>1, <1>2 DEF Idle, TaskState
<1>4. task' = [task EXCEPT ![t] = S] /\ used' = used \cup {r} /\ Grows
  BY DEF create, Grows
<1>5. TasksOK'
  <2> HIDE DEF S, record
  <2> QED BY <1>2, <1>3, <1>4, BecomeOK DEF Updating
<1> QED
  BY <1>1, <1>5 DEF create, Typed, TablesOK, RecordOK

LEMMA MakingTyped ==
  ASSUME Typed, NEW t \in scope.tasks,
         _get_target_user_ids(t) \/ insert_request(t) \/ ask_approvers(t)
  PROVE  Typed'
<1>0. /\ t \in Task /\ task[t] \in TaskState
      /\ task[t].pc # "idle" =>
           /\ task[t].request \in used /\ task[t].request \in Request
           /\ task[t].record \in RequestRecord /\ RecordOK(task[t].record)
  BY ScopeOK DEF Typed, TablesOK, TasksOK, TaskOK
<1>1. CASE _get_target_user_ids(t)
  <2> DEFINE record == task[t].record
             p == record.project
             targets == IF record.type = "project-access" THEN {projects[p].admin} ELSE Superuser
             S == [task[t] EXCEPT !.pc = "insert", !.record.targets = targets]
  <2>0. /\ task[t].pc = "targets" /\ task[t].record \in RequestRecord /\ task[t].request \in used
        /\ RecordOK(task[t].record) /\ task[t].record.status = "pending"
    BY <1>0, <1>1 DEF _get_target_user_ids, Typed, TasksOK, TaskOK
  <2>1. Grows
    BY <1>1 DEF _get_target_user_ids, Grows
  <2>2. CASE record.type = "project-access" /\ (projects[p] = None \/ p \in Personal)
    <3>1. TasksOK'
      BY <1>1, <2>1, <2>2, FinishOK DEF _get_target_user_ids
    <3> QED
      BY <1>1, <3>1 DEF _get_target_user_ids, Typed, TablesOK, RecordOK
  <2>3. CASE ~(record.type = "project-access" /\ (projects[p] = None \/ p \in Personal))
    <3>1. targets \in SUBSET User
      BY <2>0, <2>3, RequestsAssumption DEF RequestRecord, ProjectRecord, Typed, TablesOK
    <3>2. /\ S.record \in RequestRecord /\ S.record.type = record.type
          /\ S.record.admin = record.admin /\ S.record.status = "pending"
          /\ S \in TaskState /\ S.pc = "insert" /\ S.request = task[t].request
      <4> HIDE DEF targets
      <4> QED BY <1>0, <2>0, <3>1 DEF TaskState, RequestRecord
    <3>3. task' = [task EXCEPT ![t] = S]
      BY <1>1, <2>3 DEF _get_target_user_ids
    <3>4. RecordOK(S.record) /\ task[t].request \in used'
      BY <1>1, <2>0, <3>2 DEF RecordOK, _get_target_user_ids
    <3>5. TasksOK'
      <4> HIDE DEF S
      <4> QED BY <2>1, <3>2, <3>3, <3>4, BecomeOK DEF Updating
    <3> QED
      BY <1>1, <3>5 DEF _get_target_user_ids, Typed, TablesOK, RecordOK
  <2> QED
    BY <2>2, <2>3
<1>2. CASE insert_request(t)
  <2>0. task[t].pc = "insert" /\ requests' = [requests EXCEPT ![task[t].request] = task[t].record]
    BY <1>2 DEF insert_request
  <2>1. Grows /\ requests'[task[t].request] # None
    BY <1>0, <1>2, <2>0, RecordIsSome DEF insert_request, Grows, Typed, TablesOK
  <2>2. TasksOK'
    BY <1>2, <2>0, <2>1, GotoOK DEF insert_request
  <2>3. /\ requests' \in [Request -> RequestRecord \cup {None}]
        /\ (\A r \in Request : requests[r] # None => r \in used /\ RecordOK(requests[r]))'
    <3>1. \A r \in Request : requests'[r] = requests[r] \/ (r \in used /\ requests'[r] = task[t].record)
      BY <1>0, <2>0 DEF Typed, TablesOK
    <3>2. scope' = scope /\ used' = used
      BY <1>2 DEF insert_request
    <3>3. RecordOK(task[t].record) /\ task[t].record \in RequestRecord
      BY <1>0, <2>0
    <3> QED
      BY <1>0, <2>0, <3>1, <3>2, <3>3 DEF Typed, TablesOK, RecordOK
  <2> QED
    BY <1>2, <2>2, <2>3 DEF insert_request, Typed, TablesOK, RecordOK
<1>3. CASE ask_approvers(t)
  <2>1. Grows
    BY <1>3 DEF ask_approvers, Grows
  <2>2. TasksOK'
    BY <1>3, <2>1, FinishOK DEF ask_approvers
  <2>3. task[t].record.targets \in SUBSET User /\ task[t].request \in Request
    BY <1>0, <1>3 DEF ask_approvers, RequestRecord
  <2>4. asked' \in SUBSET (Request \X User) /\ told' = told /\ unsent' \in Nat
    BY <1>3, <2>3 DEF ask_approvers, Notify, Typed, TablesOK
  <2> QED
    BY <1>3, <2>2, <2>4 DEF ask_approvers, Typed, TablesOK, RecordOK
<1> QED
  BY <1>1, <1>2, <1>3

(* Deciding one.                                                           *)
LEMMA FindTyped ==
  ASSUME Typed, NEW t \in scope.tasks, NEW r \in scope.requests, NEW u \in User, NEW decision \in Status,
         _find_pending_for_approver(t, r, u, decision)
  PROVE  Typed'
<1> DEFINE S == [pc |-> IF decision = "approved" THEN "get_project" ELSE "record", request |-> r,
                 user |-> u, record |-> requests[r], status |-> decision]
<1>1. /\ r \in Request /\ requests[r] # None /\ requests[r] \in RequestRecord
      /\ r \in used /\ RecordOK(requests[r])
  BY ScopeOK DEF Typed, TablesOK, _find_pending_for_approver
<1>2. S \in TaskState /\ S.pc \in {"get_project", "record"} /\ S.request = r
      /\ S.record = requests[r] /\ S.status = decision
  BY <1>1 DEF TaskState
<1>3. task' = [task EXCEPT ![t] = S] /\ Grows /\ used' = used /\ requests' = requests
  BY DEF _find_pending_for_approver, Grows
<1>4. TasksOK'
  <2> HIDE DEF S
  <2> QED BY <1>1, <1>2, <1>3, BecomeOK DEF Updating
<1> QED
  BY <1>4 DEF _find_pending_for_approver, Typed, TablesOK, RecordOK

(* What an approval leaves is a project, or none.                          *)
LEMMA DoneOK ==
  ASSUME Typed, NEW t \in scope.tasks, task[t].pc = "act",
         task[t].record.type = "create-project" \/ projects[task[t].record.project] # None
  PROVE  /\ task[t].record.project \in Project
         /\ Done(task[t].record) \in ProjectRecord \cup {None}
         /\ task[t].record.type # "close-project" => Done(task[t].record) \in ProjectRecord
<1> DEFINE record == task[t].record
<1>1. /\ record \in RequestRecord /\ record.project \in Project /\ record.requester \in User
      /\ record.type \in {"create-project", "transfer-project"} => record.admin \in User
  BY ScopeOK DEF Typed, TasksOK, TaskOK, RecordOK, RequestRecord
<1>2. record.type # "create-project" => projects[record.project] \in ProjectRecord
  BY <1>1 DEF Typed, TablesOK
<1> QED
  BY <1>1, <1>2 DEF Done, ProjectRecord

LEMMA DecidingTyped ==
  ASSUME Typed, NEW t \in scope.tasks,
         \/ _get_project(t) \/ _do_action(t) \/ _record_decision(t)
         \/ _clear_approver_notices(t) \/ _notify_requester(t)
  PROVE  Typed'
<1>0. /\ t \in Task /\ task[t] \in TaskState
      /\ task[t].pc \in Updating =>
           /\ task[t].pc # "idle" /\ task[t].request \in used /\ task[t].request \in Request
           /\ task[t].record \in RequestRecord /\ RecordOK(task[t].record)
           /\ requests[task[t].request] \in RequestRecord /\ requests[task[t].request] # None
           /\ task[t].status \in Status
      /\ task[t].pc \in {"clear", "tell"} => task[t].status \in Decided
  BY ScopeOK DEF Typed, TablesOK, TasksOK, TaskOK, Updating
<1>1. CASE _get_project(t)
  <2> DEFINE record == task[t].record
  <2>0. task[t].pc = "get_project" /\ task[t].pc \in Updating
    BY <1>1 DEF _get_project, Updating
  <2>1. Grows /\ requests' = requests
    BY <1>1 DEF _get_project, Grows
  <2>2. CASE Finish(t)
    <3>1. TasksOK'
      BY <2>1, <2>2, FinishOK
    <3> QED
      BY <1>1, <3>1 DEF _get_project, Typed, TablesOK, RecordOK
  <2>3. CASE ~(record.type = "transfer-project" /\ record.admin = None) /\ Goto(t, "act")
    <3>1. record.type = "transfer-project" => record.admin \in User
      BY <1>0, <2>0, <2>3 DEF RequestRecord
    <3>2. TasksOK'
      BY <1>0, <2>0, <2>1, <2>3, <3>1, GotoOK
    <3> QED
      BY <1>1, <3>2 DEF _get_project, Typed, TablesOK, RecordOK
  <2> QED
    BY <1>1, <2>2, <2>3 DEF _get_project
<1>2. CASE _do_action(t)
  <2> DEFINE record == task[t].record
  <2>0. task[t].pc = "act" /\ task[t].pc \in Updating
    BY <1>2 DEF _do_action, Updating
  <2>1. Grows /\ requests' = requests
    BY <1>2 DEF _do_action, Grows
  <2>2. TasksOK'
    BY <1>0, <1>2, <2>0, <2>1, FinishOK, GotoOK DEF _do_action
  <2>3. \/ projects' = projects /\ done' = done
        \/ /\ record.type = "create-project" \/ projects[record.project] # None
           /\ projects' = [projects EXCEPT ![record.project] = Done(record)]
           /\ done' = [done EXCEPT ![task[t].request] = @ + 1]
    BY <1>2 DEF _do_action
  <2>4. projects' \in [Project -> ProjectRecord \cup {None}] /\ done' \in [Request -> Nat]
    BY <1>0, <2>0, <2>3, DoneOK DEF Typed, TablesOK
  <2> QED
    BY <1>2, <2>2, <2>4 DEF _do_action, Typed, TablesOK, RecordOK
<1>3. CASE _record_decision(t)
  <2> DEFINE r == task[t].request
             record == [requests[r] EXCEPT !.status = task[t].status]
  <2>0. task[t].pc = "record" /\ task[t].pc \in Updating
    BY <1>3 DEF _record_decision, Updating
  <2>1. /\ record \in RequestRecord /\ record.type = requests[r].type
        /\ record.admin = requests[r].admin
    BY <1>0, <2>0 DEF RequestRecord
  <2>2. /\ requests' = [requests EXCEPT ![r] = record] /\ scope' = scope /\ used' = used
        /\ requests \in [Request -> RequestRecord \cup {None}]
    BY <1>3 DEF _record_decision, Typed, TablesOK
  <2>3. /\ requests' \in [Request -> RequestRecord \cup {None}] /\ requests'[r] = record
        /\ \A q \in Request : q # r => requests'[q] = requests[q]
    <3> HIDE DEF record
    <3> QED BY <1>0, <2>0, <2>1, <2>2
  <2>4. Grows /\ requests'[r] # None
    <3> HIDE DEF record
    <3> QED BY <2>1, <2>2, <2>3, RecordIsSome DEF Grows
  <2>5. TasksOK'
    BY <1>0, <1>3, <2>0, <2>4, FinishOK, GotoOK DEF _record_decision
  <2>6. RecordOK(requests[r])
    BY <1>0, <2>0 DEF Typed, TablesOK
  <2>7. (\A q \in Request : requests[q] # None => q \in used /\ RecordOK(requests[q]))'
    <3> HIDE DEF record
    <3> QED BY <1>0, <2>0, <2>1, <2>2, <2>3, <2>6 DEF Typed, TablesOK, RecordOK
  <2> QED
    BY <1>3, <2>3, <2>5, <2>7 DEF _record_decision, Typed, TablesOK
<1>4. CASE _clear_approver_notices(t)
  <2>0. task[t].pc = "clear" /\ task[t].pc \in Updating
    BY <1>4 DEF _clear_approver_notices, Updating
  <2>1. Grows /\ requests' = requests
    BY <1>4 DEF _clear_approver_notices, Grows
  <2>2. TasksOK'
    BY <1>0, <1>4, <2>0, <2>1, GotoOK DEF _clear_approver_notices
  <2> QED
    BY <1>4, <2>2 DEF _clear_approver_notices, Typed, TablesOK, RecordOK
<1>5. CASE _notify_requester(t)
  <2>0. task[t].pc = "tell" /\ task[t].pc \in Updating
    BY <1>5 DEF _notify_requester, Updating
  <2>1. Grows
    BY <1>5 DEF _notify_requester, Grows
  <2>2. TasksOK'
    BY <1>5, <2>1, FinishOK DEF _notify_requester
  <2>3. told' \in SUBSET (Request \X Status) /\ asked' = asked /\ unsent' \in Nat
    BY <1>0, <1>5, <2>0 DEF _notify_requester, Notify, Typed, TablesOK
  <2> QED
    BY <1>5, <2>2, <2>3 DEF _notify_requester, Typed, TablesOK, RecordOK
<1> QED
  BY <1>1, <1>2, <1>3, <1>4, <1>5

LEMMA LoseTyped ==
  ASSUME Typed, NEW t \in scope.tasks, lose_task(t)
  PROVE  Typed'
<1>1. Grows
  BY DEF lose_task, Grows
<1>2. TasksOK'
  BY <1>1, FinishOK DEF lose_task
<1> QED
  BY <1>2 DEF lose_task, Typed, TablesOK, RecordOK

LEMMA NextTyped ==
  ASSUME Typed, Next
  PROVE  Typed'
<1>1. ASSUME NEW t \in scope.tasks, TaskStep(t) PROVE Typed'
  BY <1>1, MakingTyped, DecidingTyped DEF TaskStep
<1> QED
  BY <1>1, CreateTyped, FindTyped, LoseTyped DEF Next

(* Requests is type-correct, however many API requests are served at a     *)
(* time: in particular no stage of services/requests/service.py writes     *)
(* a decision where there is no request, or makes None a project's admin.  *)
THEOREM RequestsTypeCorrect == Spec => []TypeOK
<1>1. Typed /\ [Next]_vars => Typed'
  BY NextTyped, UnchangedTyped
<1> QED
  BY <1>1, InitTyped, TypedIsTypeOK, PTL DEF Spec

---------------------------------------------------------------------------
(* Approved requests are done.                                             *)

(* A step of a task changes no other.                                      *)
LEMMA OthersStay ==
  ASSUME Typed, NEW t \in scope.tasks,
         \/ \E S : task' = [task EXCEPT ![t] = S]
         \/ \E pc : Goto(t, pc)
         \/ Finish(t)
         \/ \E x : task' = [task EXCEPT ![t].pc = "insert", ![t].record.targets = x]
  PROVE  \A u \in Task \ {t} : task'[u] = task[u]
  BY DEF Typed, TasksOK, Goto, Finish

(* A task that is served alone finds the others idle.                      *)
LEMMA Served ==
  ASSUME Typed, OneAtATime, NEW t \in scope.tasks
  PROVE  t \in Task /\ \A u \in Task \ {t} : task[u].pc = "idle"
<1>1. scope.tasks \subseteq Task /\ IsFiniteSet(scope.tasks)
  BY ScopeOK DEF Typed
<1>2. PICK x : scope.tasks = {x}
  BY <1>1, FS_Singleton DEF OneAtATime
<1> QED
  BY <1>1, <1>2 DEF Typed, TasksOK, TaskOK

(* What a step has to show: it takes no project away from another request, *)
(* it has done what it approves, and leaves itself as it should be.        *)
LEMMA ApprovalStep ==
  ASSUME Typed, Approvals, NEW t \in scope.tasks, scope' = scope,
         \A u \in Task \ {t} : task'[u] = task[u],
         \A r \in Request : done'[r] \in Nat /\ done'[r] >= done[r],
         Undisturbed =>
           /\ OneAtATime \/ (\A p \in Project : projects[p] # None => projects'[p] # None)
           /\ ActOK(t)'
           /\ \A r \in Request :
                requests'[r] # None /\ requests'[r].status = "approved" =>
                  done'[r] >= 1 \/ (requests[r] # None /\ requests[r].status = "approved")
  PROVE  Approvals'
<1>1. Undisturbed' <=> Undisturbed
  BY DEF Undisturbed, OneAtATime
<1> SUFFICES ASSUME Undisturbed PROVE ApprovedIsDone' /\ \A u \in Task : ActOK(u)'
  BY <1>1 DEF Approvals
<1>2. done \in [Request -> Nat] /\ ApprovedIsDone /\ \A u \in Task : ActOK(u)
  BY DEF Typed, TablesOK, Approvals
<1>3. ApprovedIsDone'
  <2> SUFFICES ASSUME NEW r \in Request, requests'[r] # None, requests'[r].status = "approved"
               PROVE  done'[r] >= 1
    BY DEF ApprovedIsDone
  <2>1. CASE requests[r] # None /\ requests[r].status = "approved"
    <3>1. done[r] >= 1 /\ done[r] \in Nat /\ done'[r] \in Nat /\ done'[r] >= done[r]
      BY <1>2, <2>1 DEF ApprovedIsDone, Undisturbed
    <3> QED
      BY <3>1
  <2> QED
    BY <2>1
<1>4. ASSUME NEW u \in Task, u # t PROVE ActOK(u)'
  <2>1. task'[u] = task[u] /\ ActOK(u) /\ task[u] \in TaskState /\ TaskOK(u)
    BY <1>2, <1>4 DEF Typed, TasksOK
  <2>2. CASE OneAtATime
    BY <1>4, <2>1, <2>2, Served DEF ActOK
  <2>3. CASE \A p \in Project : projects[p] # None => projects'[p] # None
    <3>1. task[u].pc # "idle" => task[u].request \in Request /\ task[u].record.project \in Project
      BY <2>1 DEF TaskOK, RequestRecord, Typed, TablesOK
    <3>2. \A r \in Request : done[r] >= 1 => done'[r] >= 1
      BY <1>2
    <3> QED
      BY <2>1, <2>3, <3>1, <3>2 DEF ActOK
  <2> QED
    BY <2>2, <2>3
<1> QED
  BY <1>3, <1>4

(* A step that leaves the requests, the projects and what was done alone.  *)
LEMMA ApprovalFrame ==
  ASSUME Typed, Approvals, NEW t \in scope.tasks, scope' = scope,
         \A u \in Task \ {t} : task'[u] = task[u],
         done' = done, projects' = projects, requests' = requests,
         Undisturbed => ActOK(t)'
  PROVE  Approvals'
<1>1. \A r \in Request : done'[r] \in Nat /\ done'[r] >= done[r]
  BY DEF Typed, TablesOK
<1> QED
  BY <1>1, ApprovalStep

LEMMA MakingApproval ==
  ASSUME Typed, Approvals, NEW t \in scope.tasks,
         \/ \E r, type, p, admin, u : create(t, r, type, p, admin, u)
         \/ _get_target_user_ids(t) \/ insert_request(t) \/ ask_approvers(t)
  PROVE  Approvals'
<1>0. t \in Task /\ task \in [Task -> TaskState] /\ task[t] \in TaskState
  BY ScopeOK DEF Typed, TasksOK
<1>1. ASSUME NEW r, NEW type, NEW p, NEW admin, NEW u, create(t, r, type, p, admin, u)
      PROVE  Approvals'
  <2>1. task'[t].pc = "targets"
    BY <1>0, <1>1 DEF create, Idle
  <2>2. \A v \in Task \ {t} : task'[v] = task[v]
    BY <1>1, OthersStay DEF create
  <2> QED
    BY <1>1, <2>1, <2>2, ApprovalFrame DEF create, ActOK
<1>2. CASE _get_target_user_ids(t)
  <2>1. task'[t].pc \in {"idle", "insert"} /\ \A u \in Task \ {t} : task'[u] = task[u]
    BY <1>0, <1>2 DEF _get_target_user_ids, Finish, Idle, TaskState
  <2> QED
    BY <1>2, <2>1, ApprovalFrame DEF _get_target_user_ids, ActOK
<1>3. CASE insert_request(t)
  <2>1. task'[t].pc = "ask" /\ \A u \in Task \ {t} : task'[u] = task[u]
    BY <1>0, <1>3 DEF insert_request, Goto, TaskState
  <2>2. task[t].record.status = "pending" /\ done' = done /\ projects' = projects /\ scope' = scope
        /\ \A r \in Request : requests'[r] = requests[r] \/ requests'[r] = task[t].record
    BY <1>0, <1>3 DEF insert_request, Typed, TablesOK, TasksOK, TaskOK
  <2>3. \A r \in Request : done'[r] \in Nat /\ done'[r] >= done[r]
    BY <2>2 DEF Typed, TablesOK
  <2>4. ActOK(t)'
    BY <2>1 DEF ActOK
  <2> QED
    BY <2>1, <2>2, <2>3, <2>4, ApprovalStep
<1>4. CASE ask_approvers(t)
  <2>1. task'[t].pc = "idle" /\ \A u \in Task \ {t} : task'[u] = task[u]
    BY <1>0, <1>4 DEF ask_approvers, Finish, Idle
  <2> QED
    BY <1>4, <2>1, ApprovalFrame DEF ask_approvers, ActOK
<1> QED
  BY <1>1, <1>2, <1>3, <1>4

LEMMA FindApproval ==
  ASSUME Typed, Approvals, NEW t \in scope.tasks, NEW r, NEW u, NEW decision,
         _find_pending_for_approver(t, r, u, decision)
  PROVE  Approvals'
<1>1. task'[t].pc = (IF decision = "approved" THEN "get_project" ELSE "record")
      /\ task'[t].status = decision /\ \A v \in Task \ {t} : task'[v] = task[v]
  BY ScopeOK DEF _find_pending_for_approver, Typed, TasksOK
<1>2. ActOK(t)'
  BY <1>1 DEF ActOK
<1> QED
  BY <1>1, <1>2, ApprovalFrame DEF _find_pending_for_approver

(* What is about to be done is done, unless the project is gone, which it  *)
(* is not when nobody closes it.                                           *)
LEMMA ActApproval ==
  ASSUME Typed, Approvals, NEW t \in scope.tasks, _do_action(t)
  PROVE  Approvals'
<1>0. t \in Task /\ task \in [Task -> TaskState] /\ task[t] \in TaskState /\ TaskOK(t)
      /\ task[t].pc = "act"
  BY ScopeOK DEF Typed, TasksOK, _do_action
<1> DEFINE record == task[t].record
           r == task[t].request
<1>1. /\ r \in Request /\ record \in RequestRecord /\ record.type \in scope.kinds
      /\ record.project \in Project
  BY <1>0 DEF TaskOK, RecordOK, Typed, TablesOK, RequestRecord
<1>2. scope' = scope /\ requests' = requests
  BY DEF _do_action
<1>3. CASE Finish(t) /\ projects' = projects /\ done' = done
  <2>1. task'[t].pc = "idle" /\ \A u \in Task \ {t} : task'[u] = task[u]
    BY <1>0, <1>3 DEF Finish, Idle
  <2> QED
    BY <1>2, <1>3, <2>1, ApprovalFrame DEF ActOK
<1>4. ASSUME Goto(t, "record"), projects[record.project] = None, record.type # "create-project",
             projects' = projects, done' = done
      PROVE  Approvals'
  <2>1. ~Undisturbed
    BY <1>0, <1>4 DEF Approvals, ActOK
  <2> QED
    BY <1>2, <1>4, <2>1, OthersStay, ApprovalFrame
<1>5. ASSUME Goto(t, "record"), record.type = "create-project" \/ projects[record.project] # None,
             projects' = [projects EXCEPT ![record.project] = Done(record)],
             done' = [done EXCEPT ![r] = @ + 1]
      PROVE  Approvals'
  <2>1. /\ task'[t].pc = "record" /\ task'[t].request = r
        /\ \A u \in Task \ {t} : task'[u] = task[u]
    BY <1>0, <1>5, OthersStay DEF Goto, TaskState
  <2>2. /\ \A q \in Request : done'[q] \in Nat /\ done'[q] >= done[q]
        /\ done'[r] >= 1
    BY <1>1, <1>5 DEF Typed, TablesOK
  <2>3. ActOK(t)'
    BY <2>1, <2>2 DEF ActOK
  <2>4. ASSUME Undisturbed
        PROVE  OneAtATime \/ (\A p \in Project : projects[p] # None => projects'[p] # None)
    <3>1. CASE OneAtATime
      BY <3>1
    <3>2. CASE record.type # "close-project"
      <4>1. Done(record) # None
        BY <1>0, <1>5, <3>2, DoneOK, RecordIsSome
      <4> QED
        BY <1>5, <4>1 DEF Typed, TablesOK
    <3> QED
      BY <1>1, <2>4, <3>1, <3>2 DEF Undisturbed
  <2> QED
    BY <1>2, <2>1, <2>2, <2>3, <2>4, ApprovalStep
<1> QED
  BY <1>3, <1>4, <1>5 DEF _do_action

LEMMA DecidingApproval ==
  ASSUME Typed, Approvals, NEW t \in scope.tasks,
         _get_project(t) \/ _record_decision(t) \/ _clear_approver_notices(t) \/ _notify_requester(t)
  PROVE  Approvals'
<1>0. t \in Task /\ task \in [Task -> TaskState] /\ task[t] \in TaskState /\ TaskOK(t)
      /\ (Undisturbed => ActOK(t))
  BY ScopeOK DEF Typed, TasksOK, Approvals
<1>1. CASE _get_project(t)
  <2>1. \A u \in Task \ {t} : task'[u] = task[u]
    BY <1>1, OthersStay DEF _get_project
  <2>2. CASE Finish(t)
    <3>1. task'[t].pc = "idle"
      BY <1>0, <2>2 DEF Finish, Idle
    <3> QED
      BY <1>1, <2>1, <3>1, ApprovalFrame DEF _get_project, ActOK
  <2>3. CASE Goto(t, "act") /\ (task[t].record.type # "create-project" =>
                                  projects[task[t].record.project] # None)
    <3>1. task'[t].pc = "act" /\ task'[t].record = task[t].record
      BY <1>0, <2>3 DEF Goto, TaskState
    <3> QED
      BY <1>1, <2>1, <2>3, <3>1, ApprovalFrame DEF _get_project, ActOK
  <2> QED
    BY <1>1, <2>2, <2>3 DEF _get_project
<1>2. CASE _record_decision(t)
  <2> DEFINE r == task[t].request
  <2>1. /\ task[t].pc = "record" /\ done' = done /\ projects' = projects /\ scope' = scope
        /\ r \in Request /\ requests[r] \in RequestRecord /\ done \in [Request -> Nat]
    BY <1>0, <1>2 DEF _record_decision, TaskOK, Updating, Typed, TablesOK
  <2>2. /\ \A u \in Task \ {t} : task'[u] = task[u]
        /\ task'[t].pc = "idle" \/ (task'[t].request = r /\ task'[t].status = task[t].status)
    BY <1>0, <1>2, OthersStay DEF _record_decision, Goto, Finish, Idle, TaskState
  <2>3. /\ requests'[r].status = task[t].status
        /\ \A q \in Request : q # r => requests'[q] = requests[q]
    BY <1>2, <2>1 DEF _record_decision, Typed, TablesOK, RequestRecord
  <2>4. ASSUME Undisturbed
        PROVE  /\ task[t].status = "approved" => done'[r] >= 1
               /\ ActOK(t)'
    <3>1. task[t].status = "approved" => done'[r] >= 1
      BY <1>0, <2>1, <2>4 DEF ActOK
    <3>2. task'[t].pc # "act"
      BY <1>0, <1>2 DEF _record_decision, Goto, Finish, Idle, TaskState
    <3> QED
      BY <2>2, <3>1, <3>2 DEF ActOK
  <2> QED
    BY <2>1, <2>2, <2>3, <2>4, ApprovalStep
<1>3. CASE _clear_approver_notices(t)
  <2>1. /\ task'[t].pc = "tell" /\ task[t].pc = "clear" /\ task'[t].request = task[t].request
        /\ task'[t].status = task[t].status /\ \A u \in Task \ {t} : task'[u] = task[u]
        /\ done' = done
    BY <1>0, <1>3, OthersStay DEF _clear_approver_notices, Goto, TaskState
  <2>2. Undisturbed => ActOK(t)'
    BY <1>0, <2>1 DEF ActOK
  <2> QED
    BY <1>3, <2>1, <2>2, ApprovalFrame DEF _clear_approver_notices
<1>4. CASE _notify_requester(t)
  <2>1. task'[t].pc = "idle" /\ \A u \in Task \ {t} : task'[u] = task[u]
    BY <1>0, <1>4 DEF _notify_requester, Finish, Idle
  <2> QED
    BY <1>4, <2>1, ApprovalFrame DEF _notify_requester, ActOK
<1> QED
  BY <1>1, <1>2, <1>3, <1>4

LEMMA NextApproval ==
  ASSUME Typed, Approvals, Next
  PROVE  Approvals'
<1>1. ASSUME NEW t \in scope.tasks, TaskStep(t) PROVE Approvals'
  BY <1>1, MakingApproval, ActApproval, DecidingApproval DEF TaskStep
<1>2. ASSUME NEW t \in scope.tasks, lose_task(t) PROVE Approvals'
  <2>1. task'[t].pc = "idle" /\ \A u \in Task \ {t} : task'[u] = task[u]
    BY <1>2, ScopeOK DEF lose_task, Finish, Idle, Typed, TasksOK
  <2> QED
    BY <1>2, <2>1, ApprovalFrame DEF lose_task, ActOK
<1>3. ASSUME NEW t \in scope.tasks, NEW r, NEW type, NEW p, NEW admin, NEW u,
             create(t, r, type, p, admin, u)
      PROVE  Approvals'
  BY <1>3, MakingApproval
<1> QED
  BY <1>1, <1>2, <1>3, FindApproval DEF Next

(* update of services/requests/service.py does what was asked before it    *)
(* records the approval: however many requests are served at a time, and   *)
(* whichever of them fail or are lost, an approved request was done,       *)
(* unless a project can be closed between the reading and the doing.       *)
THEOREM ApprovedRequestsAreDone == Spec => []ApprovedIsDone
<1>1. Init => Approvals
  BY DEF Init, Idle, Approvals, ApprovedIsDone, ActOK
<1>2. Typed /\ Approvals /\ [Next]_vars => (Typed /\ Approvals)'
  <2>1. ASSUME Approvals, UNCHANGED vars PROVE Approvals'
    <3>1. \A t \in Task : ActOK(t)' <=> ActOK(t)
      BY <2>1 DEF vars, ActOK
    <3>2. (ApprovedIsDone' <=> ApprovedIsDone) /\ (Undisturbed' <=> Undisturbed)
      BY <2>1 DEF vars, ApprovedIsDone, Undisturbed, OneAtATime
    <3> QED
      BY <2>1, <3>1, <3>2 DEF Approvals
  <2> QED
    BY <2>1, NextTyped, UnchangedTyped, NextApproval
<1>3. Approvals => ApprovedIsDone
  BY DEF Approvals, Undisturbed, ApprovedIsDone
<1> QED
  BY <1>1, <1>2, <1>3, InitTyped, PTL DEF Spec

---------------------------------------------------------------------------
(* Requests served one at a time.                                          *)

(* Where the one request is, before and after its step.                    *)
LEMMA LonePlaces ==
  ASSUME Typed, OneAtATime, NEW t \in scope.tasks, \A u \in Task \ {t} : task'[u] = task[u], NEW r
  PROVE  /\ Recording(r) <=> task[t].pc = "record" /\ task[t].request = r
         /\ Recording(r)' <=> task'[t].pc = "record" /\ task'[t].request = r
         /\ Clearing(r) <=> task[t].pc = "clear" /\ task[t].request = r
         /\ Clearing(r)' <=> task'[t].pc = "clear" /\ task'[t].request = r
  BY Served DEF Recording, Clearing

LEMMA AloneStep ==
  ASSUME Typed, NEW t \in scope.tasks, scope' = scope, lost' = lost,
         \A u \in Task \ {t} : task'[u] = task[u],
         OneAtATime /\ lost = 0 => OnceOK' /\ AskedOK' /\ AloneOK(t)'
  PROVE  Alone'
<1> SUFFICES ASSUME OneAtATime, lost = 0 PROVE OnceOK' /\ AskedOK' /\ \A u \in Task : AloneOK(u)'
  BY DEF Alone, OneAtATime
<1>1. \A u \in Task \ {t} : task'[u].pc = "idle"
  BY Served
<1>2. \A u \in Task \ {t} : AloneOK(u)'
  BY <1>1 DEF AloneOK
<1> QED
  BY <1>2

(* A step that is no decision, and neither does nor asks anything.         *)
LEMMA AloneFrame ==
  ASSUME Typed, Alone, NEW t \in scope.tasks, scope' = scope, lost' = lost,
         \A u \in Task \ {t} : task'[u] = task[u],
         requests' = requests, done' = done, asked' = asked,
         task[t].pc \notin {"record", "clear"},
         OneAtATime /\ lost = 0 => AloneOK(t)'
  PROVE  Alone'
<1> SUFFICES ASSUME OneAtATime, lost = 0 PROVE OnceOK' /\ AskedOK'
  BY AloneStep
<1>1. OnceOK /\ AskedOK
  BY DEF Alone
<1>2. \A r : ~Recording(r) /\ ~Clearing(r)
  BY LonePlaces
<1>3. OnceOK'
  BY <1>1, <1>2 DEF OnceOK
<1> QED
  BY <1>1, <1>2, <1>3 DEF AskedOK

LEMMA MakingAlone ==
  ASSUME Typed, Alone, NEW t \in scope.tasks,
         \/ \E r \in Request : \E type, p, admin, u : create(t, r, type, p, admin, u)
         \/ _get_target_user_ids(t) \/ insert_request(t) \/ ask_approvers(t)
  PROVE  Alone'
<1>0. t \in Task /\ task \in [Task -> TaskState] /\ task[t] \in TaskState /\ TaskOK(t)
  BY ScopeOK DEF Typed, TasksOK
<1>t. done \in [Request -> Nat] /\ requests \in [Request -> RequestRecord \cup {None}]
      /\ used \subseteq Request
  BY DEF Typed, TablesOK
<1>1. ASSUME NEW r \in Request, NEW type, NEW p, NEW admin, NEW u, create(t, r, type, p, admin, u)
      PROVE  Alone'
  <2>1. task'[t].pc = "targets" /\ task'[t].request = r /\ \A v \in Task \ {t} : task'[v] = task[v]
    BY <1>0, <1>1, OthersStay DEF create, Idle
  <2>2. requests[r] = None
    BY <1>1 DEF create, Typed, TablesOK
  <2>3. ASSUME OneAtATime, lost = 0 PROVE AloneOK(t)'
    <3>1. done[r] = 0
      BY <1>t, <2>2, <2>3 DEF Alone, OnceOK
    <3> QED
      BY <1>1, <2>1, <2>2, <3>1 DEF AloneOK, create
  <2> QED
    BY <1>1, <2>1, <2>3, AloneFrame DEF create
<1>2. CASE _get_target_user_ids(t)
  <2>1. /\ \A u \in Task \ {t} : task'[u] = task[u]
        /\ task'[t].pc = "idle" \/ (task'[t].pc = "insert" /\ task'[t].request = task[t].request)
    BY <1>0, <1>2 DEF _get_target_user_ids, Finish, Idle, TaskState
  <2>2. task[t].pc = "targets" /\ requests' = requests /\ done' = done
    BY <1>2 DEF _get_target_user_ids
  <2>3. ASSUME OneAtATime, lost = 0 PROVE AloneOK(t)'
    <3>1. AloneOK(t)
      BY <1>0, <2>3 DEF Alone
    <3> QED
      BY <2>1, <2>2, <3>1 DEF AloneOK
  <2> QED
    BY <1>2, <2>1, <2>2, <2>3, AloneFrame DEF _get_target_user_ids
<1>3. CASE insert_request(t)
  <2> DEFINE r == task[t].request
  <2>1. /\ \A u \in Task \ {t} : task'[u] = task[u]
        /\ task'[t].pc = "ask" /\ task'[t].request = r
    BY <1>0, <1>3 DEF insert_request, Goto, TaskState
  <2>2. /\ task[t].pc = "insert" /\ r \in Request /\ task[t].record.status = "pending"
        /\ task[t].record # None /\ done' = done /\ asked' = asked /\ scope' = scope /\ lost' = lost
    BY <1>0, <1>3, <1>t, RecordIsSome DEF insert_request, TaskOK
  <2>3. requests'[r] = task[t].record /\ \A q \in Request : q # r => requests'[q] = requests[q]
    BY <1>3, <1>t, <2>2 DEF insert_request
  <2> SUFFICES ASSUME OneAtATime, lost = 0 PROVE OnceOK' /\ AskedOK' /\ AloneOK(t)'
    BY <2>1, <2>2, AloneStep
  <2>4. OnceOK /\ AskedOK /\ AloneOK(t) /\ \A q : ~Recording(q) /\ ~Clearing(q)
    BY <1>0, <2>1, <2>2, LonePlaces DEF Alone
  <2>5. requests[r] = None /\ done[r] = 0
    BY <2>2, <2>4 DEF AloneOK
  <2>6. OnceOK'
    BY <1>t, <2>2, <2>3, <2>4, <2>5 DEF OnceOK
  <2>7. AskedOK'
    BY <2>2, <2>3, <2>4, <2>5 DEF AskedOK, Typed, TablesOK
  <2> QED
    BY <2>1, <2>2, <2>3, <2>5, <2>6, <2>7 DEF AloneOK
<1>4. CASE ask_approvers(t)
  <2> DEFINE r == task[t].request
  <2>1. task'[t].pc = "idle" /\ \A u \in Task \ {t} : task'[u] = task[u]
    BY <1>0, <1>4 DEF ask_approvers, Finish, Idle
  <2>2. /\ task[t].pc = "ask" /\ requests[r] # None /\ requests' = requests /\ done' = done
        /\ scope' = scope /\ lost' = lost
        /\ \A x \in asked' : x \in asked \/ x[1] = r
    BY <1>0, <1>4 DEF ask_approvers, Notify, TaskOK
  <2> SUFFICES ASSUME OneAtATime, lost = 0 PROVE OnceOK' /\ AskedOK' /\ AloneOK(t)'
    BY <2>1, <2>2, AloneStep
  <2>3. OnceOK /\ AskedOK /\ AloneOK(t) /\ \A q : ~Recording(q) /\ ~Clearing(q)
    BY <1>0, <2>1, <2>2, LonePlaces DEF Alone
  <2>4. OnceOK'
    BY <2>2, <2>3 DEF OnceOK
  <2>5. AskedOK'
    BY <2>2, <2>3 DEF AskedOK, AloneOK
  <2> QED
    BY <2>1, <2>4, <2>5 DEF AloneOK
<1> QED
  BY <1>1, <1>2, <1>3, <1>4

LEMMA FindAlone ==
  ASSUME Typed, Alone, NEW t \in scope.tasks, NEW r \in scope.requests, NEW u, NEW decision,
         _find_pending_for_approver(t, r, u, decision)
  PROVE  Alone'
<1>1. /\ task'[t].pc = (IF decision = "approved" THEN "get_project" ELSE "record")
      /\ task'[t].status = decision /\ task'[t].request = r
      /\ \A v \in Task \ {t} : task'[v] = task[v]
  BY ScopeOK DEF _find_pending_for_approver, Typed, TasksOK
<1>2. /\ task[t].pc = "idle" /\ requests[r] # None /\ requests[r].status = "pending" /\ r \in Request
      /\ requests' = requests /\ done' = done
  BY ScopeOK DEF _find_pending_for_approver, Typed
<1>3. ASSUME OneAtATime, lost = 0 PROVE AloneOK(t)'
  <2>1. done[r] = 0
    BY <1>1, <1>2, <1>3, LonePlaces DEF Alone, OnceOK, Typed, TablesOK
  <2> QED
    BY <1>1, <1>2, <2>1 DEF AloneOK
<1> QED
  BY <1>1, <1>2, <1>3, AloneFrame DEF _find_pending_for_approver

LEMMA ActAlone ==
  ASSUME Typed, Alone, NEW t \in scope.tasks, _get_project(t) \/ _do_action(t)
  PROVE  Alone'
<1>0. /\ t \in Task /\ task \in [Task -> TaskState] /\ task[t] \in TaskState /\ TaskOK(t)
      /\ task[t].pc \in {"get_project", "act"} /\ done \in [Request -> Nat]
  BY ScopeOK DEF Typed, TablesOK, TasksOK, _get_project, _do_action
<1>r. PICK r \in Request : r = task[t].request
  BY <1>0 DEF TaskOK, Typed, TablesOK
<1>1. /\ requests' = requests /\ asked' = asked /\ scope' = scope /\ lost' = lost
      /\ requests[r] # None
      /\ \A u \in Task \ {t} : task'[u] = task[u]
  BY <1>0, <1>r, OthersStay DEF _get_project, _do_action, TaskOK, Updating, Typed, TablesOK
<1>2. OneAtATime /\ lost = 0 => AloneOK(t) /\ OnceOK /\ AskedOK /\ \A q : ~Recording(q) /\ ~Clearing(q)
  BY <1>r, <1>0, <1>1, LonePlaces DEF Alone
<1>3. CASE Finish(t) /\ done' = done
  <2>1. task'[t].pc = "idle"
    BY <1>r, <1>0, <1>3 DEF Finish, Idle
  <2> QED
    BY <1>r, <1>0, <1>1, <1>3, <2>1, AloneFrame DEF AloneOK
<1>4. CASE (Goto(t, "act") \/ Goto(t, "record")) /\ done' = done
  <2>1. task'[t].pc \in {"act", "record"} /\ task'[t].request = r /\ task'[t].status = task[t].status
    BY <1>r, <1>0, <1>4 DEF Goto, TaskState
  <2> QED
    BY <1>r, <1>0, <1>1, <1>2, <1>4, <2>1, AloneFrame DEF AloneOK
<1>5. CASE Goto(t, "record") /\ done' = [done EXCEPT ![r] = @ + 1]
  <2>1. task'[t].pc = "record" /\ task'[t].request = r /\ task'[t].status = task[t].status
    BY <1>r, <1>0, <1>5 DEF Goto, TaskState
  <2> SUFFICES ASSUME OneAtATime, lost = 0 PROVE OnceOK' /\ AskedOK' /\ AloneOK(t)'
    BY <1>1, AloneStep
  <2>2. /\ done[r] = 0 /\ requests[r].status = "pending" /\ task[t].status = "approved"
    BY <1>r, <1>0, <1>2 DEF AloneOK
  <2>3. done'[r] = 1 /\ \A q \in Request : q # r => done'[q] = done[q]
    BY <1>r, <1>0, <1>1, <1>5, <2>2
  <2>4. Recording(r)'
    BY <1>r, <1>0, <2>1 DEF Recording
  <2>5. OnceOK'
    <3> SUFFICES ASSUME NEW q \in Request
                 PROVE  /\ done'[q] <= 1
                        /\ done'[q] > 0 => /\ requests'[q] # None
                                           /\ requests'[q].status = "approved" \/ Recording(q)'
      BY DEF OnceOK
    <3>1. CASE q = r
      BY <1>1, <2>3, <2>4, <3>1
    <3>2. CASE q # r
      BY <1>1, <1>2, <2>3, <3>2 DEF OnceOK
    <3> QED
      BY <3>1, <3>2
  <2>6. AskedOK'
    BY <1>r, <1>1, <1>2 DEF AskedOK
  <2> QED
    BY <1>r, <1>1, <2>1, <2>2, <2>5, <2>6 DEF AloneOK
<1> QED
  BY <1>r, <1>3, <1>4, <1>5 DEF _get_project, _do_action

LEMMA RecordAlone ==
  ASSUME Typed, Alone, NEW t \in scope.tasks, _record_decision(t)
  PROVE  Alone'
<1>0. t \in Task /\ task \in [Task -> TaskState] /\ task[t] \in TaskState /\ TaskOK(t)
      /\ done \in [Request -> Nat] /\ requests \in [Request -> RequestRecord \cup {None}]
  BY ScopeOK DEF Typed, TablesOK, TasksOK
<1>r. PICK r \in Request : r = task[t].request
  BY <1>0 DEF _record_decision, TaskOK, Typed, TablesOK
<1>1. /\ task[t].pc = "record" /\ done' = done /\ asked' = asked /\ scope' = scope /\ lost' = lost
      /\ requests[r] # None /\ requests[r] \in RequestRecord
      /\ task[t].status \in Status
      /\ \A u \in Task \ {t} : task'[u] = task[u]
  BY <1>0, <1>r, OthersStay DEF _record_decision, TaskOK, Updating, Typed, TablesOK
<1>2. /\ requests'[r] = [requests[r] EXCEPT !.status = task[t].status]
      /\ \A q \in Request : q # r => requests'[q] = requests[q]
  BY <1>r, <1>0, <1>1 DEF _record_decision
<1>3. requests'[r].status = task[t].status /\ requests'[r] # None
  BY <1>r, <1>1, <1>2, RecordIsSome DEF RequestRecord
<1>4. IF task[t].status \in Decided THEN task'[t].pc = "clear" /\ task'[t].request = r
      ELSE task'[t].pc = "idle"
  BY <1>r, <1>0 DEF _record_decision, Goto, Finish, Idle, TaskState
<1> SUFFICES ASSUME OneAtATime, lost = 0 PROVE OnceOK' /\ AskedOK' /\ AloneOK(t)'
  BY <1>1, AloneStep
<1>5. /\ AloneOK(t) /\ OnceOK /\ AskedOK /\ \A q : ~Clearing(q)
      /\ \A q : Recording(q) => q = r
  BY <1>r, <1>0, <1>1, LonePlaces DEF Alone
<1>6. task[t].status # "approved" => done[r] = 0
  BY <1>r, <1>1, <1>5 DEF AloneOK
<1>7. OnceOK'
  <2> SUFFICES ASSUME NEW q \in Request
               PROVE  /\ done'[q] <= 1
                      /\ done'[q] > 0 => /\ requests'[q] # None
                                         /\ requests'[q].status = "approved" \/ Recording(q)'
    BY DEF OnceOK
  <2>1. CASE q = r
    BY <1>0, <1>1, <1>3, <1>5, <1>6, <2>1 DEF OnceOK
  <2>2. CASE q # r
    BY <1>1, <1>2, <1>5, <2>2 DEF OnceOK
  <2> QED
    BY <2>1, <2>2
<1>8. task[t].status \in Decided => Clearing(r)'
  BY <1>r, <1>0, <1>4 DEF Clearing
<1>9. AskedOK'
  <2> SUFFICES ASSUME NEW x \in asked
               PROVE  /\ requests'[x[1]] # None
                      /\ requests'[x[1]].status = "pending" \/ Clearing(x[1])'
    BY <1>1 DEF AskedOK
  <2>0. x[1] \in Request
    BY DEF Typed, TablesOK
  <2>1. CASE x[1] = r
    BY <1>1, <1>3, <1>8, <2>1 DEF Status, Decided
  <2>2. CASE x[1] # r
    BY <1>2, <1>5, <2>0, <2>2 DEF AskedOK
  <2> QED
    BY <2>1, <2>2
<1> QED
  BY <1>r, <1>4, <1>7, <1>9 DEF AloneOK

LEMMA ToldAlone ==
  ASSUME Typed, Alone, NEW t \in scope.tasks, _clear_approver_notices(t) \/ _notify_requester(t)
  PROVE  Alone'
<1>0. t \in Task /\ task \in [Task -> TaskState] /\ task[t] \in TaskState
  BY ScopeOK DEF Typed, TasksOK
<1>1. CASE _clear_approver_notices(t)
  <2>1. /\ task'[t].pc = "tell" /\ task[t].pc = "clear"
        /\ done' = done /\ requests' = requests /\ scope' = scope /\ lost' = lost
        /\ asked' = {x \in asked : x[1] # task[t].request}
        /\ \A u \in Task \ {t} : task'[u] = task[u]
    BY <1>0, <1>1, OthersStay DEF _clear_approver_notices, Goto, TaskState
  <2> SUFFICES ASSUME OneAtATime, lost = 0 PROVE OnceOK' /\ AskedOK' /\ AloneOK(t)'
    BY <2>1, AloneStep
  <2>2. OnceOK /\ AskedOK /\ \A q : ~Recording(q) /\ (Clearing(q) => q = task[t].request)
    BY <2>1, LonePlaces DEF Alone
  <2>3. OnceOK'
    BY <2>1, <2>2 DEF OnceOK
  <2>4. AskedOK'
    BY <2>1, <2>2 DEF AskedOK
  <2> QED
    BY <2>1, <2>3, <2>4 DEF AloneOK
<1>2. CASE _notify_requester(t)
  <2>1. /\ task'[t].pc = "idle" /\ task[t].pc = "tell" /\ asked' = asked
        /\ \A u \in Task \ {t} : task'[u] = task[u]
    BY <1>0, <1>2 DEF _notify_requester, Notify, Finish, Idle
  <2> QED
    BY <1>2, <2>1, AloneFrame DEF _notify_requester, AloneOK
<1> QED
  BY <1>1, <1>2

LEMMA NextAlone ==
  ASSUME Typed, Alone, Next
  PROVE  Alone'
<1>1. ASSUME NEW t \in scope.tasks, TaskStep(t) PROVE Alone'
  BY <1>1, MakingAlone, ActAlone, RecordAlone, ToldAlone DEF TaskStep
<1>2. ASSUME NEW t \in scope.tasks, lose_task(t) PROVE Alone'
  BY <1>2 DEF lose_task, Alone, Typed, TablesOK
<1>3. ASSUME NEW t \in scope.tasks, NEW r \in scope.requests, NEW type, NEW p, NEW admin, NEW u,
             create(t, r, type, p, admin, u)
      PROVE  Alone'
  <2>1. r \in Request
    BY ScopeOK DEF Typed
  <2> QED
    BY <1>3, <2>1, MakingAlone
<1> QED
  BY <1>1, <1>2, <1>3, FindAlone DEF Next

LEMMA AloneInvariant == Spec => [](Typed /\ Alone)
<1>1. Init => Alone
  BY DEF Init, Idle, Alone, OnceOK, AskedOK, AloneOK
<1>2. Typed /\ Alone /\ [Next]_vars => (Typed /\ Alone)'
  <2>1. ASSUME Alone, UNCHANGED vars PROVE Alone'
    <3>1. \A t \in Task : AloneOK(t)' <=> AloneOK(t)
      BY <2>1 DEF vars, AloneOK
    <3>2. /\ OnceOK' <=> OnceOK
          /\ AskedOK' <=> AskedOK
          /\ (OneAtATime' <=> OneAtATime) /\ lost' = lost
      BY <2>1 DEF vars, OnceOK, AskedOK, Recording, Clearing, OneAtATime
    <3> QED
      BY <2>1, <3>1, <3>2 DEF Alone
  <2> QED
    BY <2>1, NextTyped, UnchangedTyped, NextAlone
<1> QED
  BY <1>1, <1>2, InitTyped, PTL DEF Spec

(* _find_pending_for_approver and _record_decision: requests that are not  *)
(* interrupted by others, nor by a crash, are done at most once, and not   *)
(* at all if they were rejected.                                           *)
THEOREM RequestsAreDoneOnce == Spec => []DoneOnce
<1>1. Typed /\ Alone => DoneOnce
  <2> SUFFICES ASSUME Typed, Alone, OneAtATime, lost = 0, NEW r \in Request
               PROVE  done[r] <= 1 /\ (requests[r] # None => (requests[r].status = "rejected" => done[r] = 0))
    BY DEF DoneOnce
  <2>1. Recording(r) => requests[r].status = "pending"
    BY DEF Alone, AloneOK, Recording
  <2> QED
    BY <2>1 DEF Alone, OnceOK, Typed, TablesOK
<1> QED
  BY <1>1, AloneInvariant, PTL

(* _clear_approver_notices: then nobody is asked to decide a request that  *)
(* is decided, but while the request that decided it clears the notices.   *)
THEOREM PromptsAreCleared == Spec => []PromptsCleared
<1>1. Alone => PromptsCleared
  BY DEF Alone, AskedOK, Clearing, PromptsCleared
<1> QED
  BY <1>1, AloneInvariant, PTL

---------------------------------------------------------------------------
(* The emails of notices.                                                  *)

Round ==
  [pc : {"find", "claim", "details", "send", "report"},
   found : SUBSET (Notice \X Nat),
   claimed : SUBSET (Notice \X BOOLEAN),
   results : SUBSET (Notice \X {"sent", "failed", "pending"})]

(* What an emailer has at each place of its round, and that it is within   *)
(* the size of a batch.                                                    *)
RoundOK(p) ==
  /\ emailer[p].pc = "find" => emailer[p].claimed = {}
  /\ emailer[p].pc \in {"find", "claim", "details"} => emailer[p].results = {}
  /\ emailer[p].pc = "report" => emailer[p].claimed = {}

BatchOK(p) ==
  /\ IsFiniteSet(emailer[p].found)
  /\ IsFiniteSet(emailer[p].claimed)
  /\ IsFiniteSet(emailer[p].results)
  /\ Cardinality(emailer[p].found) + Cardinality(emailer[p].claimed)
       + Cardinality(emailer[p].results) <= BatchSize

(* The attempts that were read are no more than there are by now.          *)
FoundOK(p) == \A x \in emailer[p].found : x[2] <= attempts[x[1]]

EmailsTyped ==
  /\ status \in [Notice -> EmailStatus \cup {"gone"}]
  /\ attempts \in [Notice -> Nat]
  /\ lapsed \in SUBSET Notice /\ \A n \in lapsed : status[n] = "sending"
  /\ emailer \in [Process -> Round]
  /\ sends \in [Notice -> Nat] /\ disowned \in SUBSET Notice
  /\ crashes \in Nat /\ errors \in Nat /\ slow \in Nat

Rounds == \A p \in Process : RoundOK(p) /\ BatchOK(p) /\ FoundOK(p)

(* The emailers that may yet make an email of n pending again.             *)
Retrying(n) ==
  {p \in Process : <<n, TRUE>> \in emailer[p].claimed \/ <<n, "pending">> \in emailer[p].results}

(* Whether n may be claimed once more as things are: it is pending, or its *)
(* claim has lapsed or is nobody's, or it was found so.                    *)
Open(n) ==
  \/ status[n] = "pending"
  \/ n \in lapsed
  \/ status[n] = "sending" /\ ~Held(n)
  \/ \E p \in Process : <<n, attempts[n]>> \in emailer[p].found

(* The retries that claims to come may allow, when a have been made.       *)
Retries(a) == IF a + 1 < MaxAttempts THEN MaxAttempts - (a + 1) ELSE 0

(* What adds an attempt: a failure, or a claim that lapsed early.          *)
Failures == crashes + errors + slow

(* The attempts made, and those to come if nothing else fails.             *)
BudgetOf(n) ==
  /\ IsFiniteSet(Retrying(n))
  /\ Cardinality(Retrying(n)) + attempts[n] + (IF Open(n) THEN 1 ELSE 0) + Retries(attempts[n])
       <= MaxAttempts + Failures

Budget == \A n \in Notice : BudgetOf(n)

(* Nothing has failed.                                                     *)
Calm == crashes = 0 /\ errors = 0 /\ slow = 0

Holds(p, n) ==
  \/ \E x \in emailer[p].claimed : x[1] = n
  \/ \E x \in emailer[p].results : x[1] = n

(* Then a notice is held by one emailer, and once, from its claim until    *)
(* its outcome is stored; nobody finds it meanwhile.                       *)
OneHolder ==
  /\ lapsed = {}
  /\ \A n \in Notice : status[n] = "sending" => \E p \in Process : Holds(p, n)
  /\ \A n \in Notice, p \in Process : Holds(p, n) => status[n] \in {"sending", "gone"}
  /\ \A n \in Notice, p, q \in Process : Holds(p, n) /\ Holds(q, n) => p = q
  /\ \A p \in Process :
       /\ \A x, y \in emailer[p].claimed : x[1] = y[1] => x = y
       /\ \A x, y \in emailer[p].results : x[1] = y[1] => x = y
       /\ \A x \in emailer[p].claimed, y \in emailer[p].results : x[1] # y[1]
  /\ \A p \in Process : \A x \in emailer[p].found :
       attempts[x[1]] = x[2] => status[x[1]] \in {"pending", "gone"}

(* What was sent is not to be sent again: its holder knows, unless it was  *)
(* told otherwise.                                                         *)
SentOK ==
  \A n \in Notice \ disowned :
    /\ sends[n] <= 1
    /\ sends[n] = 1 => status[n] \notin {"pending", "failed"}
    /\ sends[n] = 1 => \A p \in Process : Holds(p, n) => <<n, "sent">> \in emailer[p].results

CalmOK == Calm => OneHolder /\ SentOK

---------------------------------------------------------------------------
(* What each step of an emailer does to its round.                         *)

Only(p) ==
  /\ emailer' \in [Process -> Round]
  /\ \A q \in Process \ {p} : emailer'[q] = emailer[q]

LEMMA OnlyOK ==
  ASSUME EmailsTyped, NEW p \in Process, NEW S \in Round, emailer' = [emailer EXCEPT ![p] = S]
  PROVE  Only(p) /\ emailer'[p] = S
  BY DEF EmailsTyped, Only

Found(p, found) ==
  /\ Only(p)
  /\ emailer[p].pc = "find" /\ emailer'[p].pc = "claim"
  /\ \A n \in found : IsPending(n)
  /\ Cardinality(found) <= BatchSize
  /\ emailer'[p].found = {<<n, attempts[n]>> : n \in found}
  /\ emailer'[p].claimed = emailer[p].claimed /\ emailer'[p].results = emailer[p].results
  /\ UNCHANGED <<status, attempts, lapsed, sends, disowned, crashes, errors, slow>>

LEMMA FindFacts ==
  ASSUME EmailsTyped, NEW p \in Process, _find_notices_pending_email(p)
  PROVE  \E found \in SUBSET Notice : Found(p, found)
<1>1. PICK found \in SUBSET {n \in Notice : IsPending(n)} :
        /\ Cardinality(found) <= BatchSize
        /\ emailer' = [emailer EXCEPT ![p].pc = "claim", ![p].found = {<<n, attempts[n]>> : n \in found}]
  BY DEF _find_notices_pending_email
<1> DEFINE F == {<<n, attempts[n]>> : n \in found}
           S == [emailer[p] EXCEPT !.pc = "claim", !.found = F]
<1>2. F \in SUBSET (Notice \X Nat) /\ emailer[p] \in Round
  BY DEF EmailsTyped
<1>3. /\ S \in Round /\ S.pc = "claim" /\ S.found = F
      /\ S.claimed = emailer[p].claimed /\ S.results = emailer[p].results
  <2> HIDE DEF F
  <2> QED BY <1>2 DEF Round
<1>4. emailer' = [emailer EXCEPT ![p] = S]
  BY <1>1
<1>5. Only(p) /\ emailer'[p] = S
  <2> HIDE DEF S
  <2> QED BY <1>3, <1>4, OnlyOK
<1>6. Found(p, found)
  <2> HIDE DEF S
  <2> QED BY <1>1, <1>3, <1>5 DEF Found, _find_notices_pending_email
<1> QED
  BY <1>6

Claimed(p, x) ==
  /\ Only(p)
  /\ emailer[p].pc = "claim" /\ emailer'[p].pc \in {"claim", "details"}
  /\ emailer'[p].found = emailer[p].found \ {x} /\ emailer'[p].results = emailer[p].results
  /\ IF IsClaimable(x)
     THEN /\ attempts' = [attempts EXCEPT ![x[1]] = @ + 1]
          /\ status' = [status EXCEPT ![x[1]] = "sending"]
          /\ lapsed' = lapsed \ {x[1]}
          /\ emailer'[p].claimed = emailer[p].claimed \cup {<<x[1], can_retry(x[1])>>}
     ELSE emailer'[p].claimed = emailer[p].claimed /\ UNCHANGED <<status, attempts, lapsed>>
  /\ UNCHANGED <<sends, disowned, crashes, errors, slow>>

LEMMA ClaimFacts ==
  ASSUME EmailsTyped, NEW p \in Process, claim_pending_emails(p)
  PROVE  \E x \in emailer[p].found : Claimed(p, x)
<1>1. PICK x \in emailer[p].found :
        LET n == x[1]
            left == emailer[p].found \ {x} IN
        IF IsClaimable(x)
        THEN /\ attempts' = [attempts EXCEPT ![n] = @ + 1]
             /\ status' = [status EXCEPT ![n] = "sending"]
             /\ lapsed' = lapsed \ {n}
             /\ Advance(p, [emailer[p] EXCEPT
                  !.found = left,
                  !.claimed = @ \cup {<<n, can_retry(n)>>}], left, "details")
        ELSE /\ Advance(p, [emailer[p] EXCEPT !.found = left], left, "details")
             /\ UNCHANGED <<status, attempts, lapsed>>
  BY DEF claim_pending_emails
<1>2. /\ emailer[p] \in Round /\ emailer[p].pc = "claim" /\ x \in Notice \X Nat
      /\ can_retry(x[1]) \in BOOLEAN
  BY DEF EmailsTyped, Round, claim_pending_emails, can_retry
<1> DEFINE left == emailer[p].found \ {x}
           C == IF IsClaimable(x) THEN emailer[p].claimed \cup {<<x[1], can_retry(x[1])>>}
                ELSE emailer[p].claimed
           T == [emailer[p] EXCEPT !.found = left, !.claimed = C]
           S == IF left = {} THEN [T EXCEPT !.pc = "details"] ELSE T
<1>3. left \in SUBSET (Notice \X Nat) /\ C \in SUBSET (Notice \X BOOLEAN)
  BY <1>2 DEF Round
<1>4. /\ S \in Round /\ S.pc \in {"claim", "details"} /\ S.found = left
      /\ S.claimed = C /\ S.results = emailer[p].results
  <2> HIDE DEF left, C
  <2> QED BY <1>2, <1>3 DEF Round
<1>5. emailer' = [emailer EXCEPT ![p] = S]
  <2>1. CASE IsClaimable(x)
    BY <1>1, <2>1 DEF Advance
  <2>2. CASE ~IsClaimable(x)
    <3>1. T = [emailer[p] EXCEPT !.found = left]
      BY <1>2, <2>2 DEF Round
    <3> QED
      BY <1>1, <2>2, <3>1 DEF Advance
  <2> QED
    BY <2>1, <2>2
<1>6. Only(p) /\ emailer'[p] = S
  <2> HIDE DEF S
  <2> QED BY <1>4, <1>5, OnlyOK
<1>7. Claimed(p, x)
  <2> HIDE DEF S
  <2> QED BY <1>1, <1>2, <1>4, <1>6 DEF Claimed, claim_pending_emails
<1> QED
  BY <1>7

(* An outcome is stored, or an error counted.                              *)
Stored(notices, s) ==
  \/ SetStatus(notices, s) /\ errors' = errors
  \/ errors' = errors + 1 /\ status' = status /\ lapsed' = lapsed

Detailed(p, rest) ==
  /\ Only(p)
  /\ emailer[p].pc = "details" /\ emailer'[p].pc \in {"find", "send"}
  /\ emailer'[p].claimed = rest /\ emailer'[p].results \subseteq emailer[p].results
  /\ emailer'[p].found \subseteq emailer[p].found
  /\ emailer'[p].pc = "find" => rest = {} /\ emailer'[p].results = {}
  /\ emailer'[p].pc = "send" => emailer'[p].results = emailer[p].results
  /\ \A x \in emailer[p].claimed \ rest, y \in rest : x[1] # y[1]
  /\ \/ rest = emailer[p].claimed /\ UNCHANGED <<status, lapsed, errors>>
     \/ Stored({x[1] : x \in emailer[p].claimed \ rest}, "failed")
  /\ UNCHANGED <<attempts, sends, disowned, crashes, slow>>

LEMMA DetailsFacts ==
  ASSUME EmailsTyped, NEW p \in Process, _to_email_details(p)
  PROVE  \E rest \in SUBSET emailer[p].claimed : Detailed(p, rest)
<1> DEFINE rest == {x \in emailer[p].claimed : x[1] \notin Unreachable}
           S == IF rest = {} THEN Asleep ELSE [emailer[p] EXCEPT !.pc = "send", !.claimed = rest]
<1>1. emailer[p] \in Round /\ emailer[p].pc = "details"
  BY DEF EmailsTyped, _to_email_details
<1>2. /\ S \in Round /\ S.pc \in {"find", "send"} /\ S.claimed = rest
      /\ S.results \subseteq emailer[p].results /\ S.found \subseteq emailer[p].found
      /\ S.pc = "find" => rest = {} /\ S.results = {}
      /\ S.pc = "send" => S.results = emailer[p].results
  <2>0. rest \in SUBSET (Notice \X BOOLEAN)
    BY <1>1 DEF Round
  <2>1. CASE rest = {}
    <3> HIDE DEF rest
    <3> QED BY <2>1 DEF Asleep, Round
  <2>2. CASE rest # {}
    <3> HIDE DEF rest
    <3> QED BY <1>1, <2>0, <2>2 DEF Round
  <2> QED
    BY <2>1, <2>2
<1>3. emailer' = [emailer EXCEPT ![p] = S]
  BY DEF _to_email_details
<1>4. Only(p) /\ emailer'[p] = S
  <2> HIDE DEF S
  <2> QED BY <1>2, <1>3, OnlyOK
<1>5. \A x \in emailer[p].claimed \ rest, y \in rest : x[1] # y[1]
  OBVIOUS
<1>6. \/ rest = emailer[p].claimed /\ UNCHANGED <<status, lapsed, errors>>
      \/ Stored({x[1] : x \in emailer[p].claimed \ rest}, "failed")
  BY DEF _to_email_details, _set_email_status, Stored
<1>7. Detailed(p, rest)
  <2>1. UNCHANGED <<attempts, sends, disowned, crashes, slow>>
    BY DEF _to_email_details
  <2> HIDE DEF S, rest
  <2> QED BY <1>1, <1>2, <1>4, <1>5, <1>6, <2>1 DEF Detailed
<1> QED
  BY <1>7

(* The outcome of x is known; one of `sent` was sent, another was not or   *)
(* is disowned.                                                            *)
Sent(p, x, result) ==
  /\ Only(p)
  /\ emailer[p].pc = "send" /\ emailer'[p].pc \in {"send", "report"}
  /\ emailer'[p].pc = "report" => emailer'[p].claimed = {}
  /\ emailer'[p].claimed = emailer[p].claimed \ {x} /\ emailer'[p].found = emailer[p].found
  /\ emailer'[p].results = emailer[p].results \cup {<<x[1], result>>}
  /\ result = "pending" => x[2] = TRUE
  /\ \/ result = "sent" /\ sends' = [sends EXCEPT ![x[1]] = @ + 1] /\ disowned' = disowned
     \/ result # "sent" /\ sends' = sends /\ disowned' = disowned
     \/ result # "sent" /\ sends' = [sends EXCEPT ![x[1]] = @ + 1] /\ disowned' = disowned \cup {x[1]}
  /\ UNCHANGED <<status, attempts, lapsed, crashes, errors, slow>>

LEMMA SendFacts ==
  ASSUME EmailsTyped, NEW p \in Process, _send_batch(p)
  PROVE  \E x \in emailer[p].claimed : \E result \in {"sent", "failed", "pending"} : Sent(p, x, result)
<1>1. PICK x \in emailer[p].claimed, isSent \in BOOLEAN, isError \in BOOLEAN :
        LET left == emailer[p].claimed \ {x}
            result == IF ~isError THEN "sent" ELSE IF x[2] THEN "pending" ELSE "failed" IN
        /\ isSent \/ isError
        /\ sends' = IF isSent THEN [sends EXCEPT ![x[1]] = @ + 1] ELSE sends
        /\ disowned' = IF isSent /\ isError THEN disowned \cup {x[1]} ELSE disowned
        /\ Advance(p, [emailer[p] EXCEPT
             !.claimed = left, !.results = @ \cup {<<x[1], result>>}], left, "report")
  BY DEF _send_batch
<1> DEFINE left == emailer[p].claimed \ {x}
           result == IF ~isError THEN "sent" ELSE IF x[2] THEN "pending" ELSE "failed"
           R == emailer[p].results \cup {<<x[1], result>>}
           T == [emailer[p] EXCEPT !.claimed = left, !.results = R]
           S == IF left = {} THEN [T EXCEPT !.pc = "report"] ELSE T
<1>2. emailer[p] \in Round /\ emailer[p].pc = "send" /\ x \in Notice \X BOOLEAN
  BY DEF EmailsTyped, Round, _send_batch
<1>3. /\ result \in {"sent", "failed", "pending"} /\ (result = "pending" => x[2] = TRUE)
      /\ result = "sent" <=> ~isError
  <2>1. x[2] \in BOOLEAN
    BY <1>2
  <2> QED
    BY <2>1
<1>4. left \in SUBSET (Notice \X BOOLEAN) /\ R \in SUBSET (Notice \X {"sent", "failed", "pending"})
  <2> HIDE DEF result
  <2> QED BY <1>2, <1>3 DEF Round
<1>5. /\ S \in Round /\ S.pc \in {"send", "report"} /\ (S.pc = "report" => left = {})
      /\ S.claimed = left /\ S.found = emailer[p].found /\ S.results = R
  <2> HIDE DEF left, R
  <2> QED BY <1>2, <1>4 DEF Round
<1>6. emailer' = [emailer EXCEPT ![p] = S]
  BY <1>1 DEF Advance
<1>7. Only(p) /\ emailer'[p] = S
  <2> HIDE DEF S
  <2> QED BY <1>5, <1>6, OnlyOK
<1>8. Sent(p, x, result)
  <2>1. \/ result = "sent" /\ sends' = [sends EXCEPT ![x[1]] = @ + 1] /\ disowned' = disowned
        \/ result # "sent" /\ sends' = sends /\ disowned' = disowned
        \/ result # "sent" /\ sends' = [sends EXCEPT ![x[1]] = @ + 1] /\ disowned' = disowned \cup {x[1]}
    <3> HIDE DEF result
    <3> QED BY <1>1, <1>3
  <2>2. UNCHANGED <<status, attempts, lapsed, crashes, errors, slow>>
    BY DEF _send_batch
  <2> HIDE DEF S, result
  <2> QED BY <1>2, <1>3, <1>5, <1>7, <2>1, <2>2 DEF Sent
<1> QED
  BY <1>3, <1>8

(* The outcomes of one kind.                                               *)
Kind(p, s) == {x \in emailer[p].results : x[2] = s}

Reported(p, s) ==
  /\ Only(p)
  /\ emailer[p].pc = "report" /\ emailer'[p].pc \in {"report", "find"}
  /\ emailer'[p].results = emailer[p].results \ Kind(p, s)
  /\ emailer'[p].pc = "find" => emailer'[p].results = {}
  /\ emailer'[p].claimed = emailer[p].claimed /\ emailer'[p].found = emailer[p].found
  /\ Stored({x[1] : x \in Kind(p, s)}, s)
  /\ UNCHANGED <<attempts, sends, disowned, crashes, slow>>

LEMMA ReportFacts ==
  ASSUME EmailsTyped, NEW p \in Process, process_email_batch_results(p)
  PROVE  \E s \in {"sent", "failed", "pending"} : Reported(p, s)
<1>1. PICK s \in {x[2] : x \in emailer[p].results} :
        LET ended == {x \in emailer[p].results : x[2] = s}
            left == emailer[p].results \ ended IN
        /\ _set_email_status({x[1] : x \in ended}, s)
        /\ Advance(p, [emailer[p] EXCEPT !.results = left], left, "find")
  BY DEF process_email_batch_results
<1>2. /\ emailer[p] \in Round /\ emailer[p].pc = "report" /\ s \in {"sent", "failed", "pending"}
      /\ UNCHANGED <<attempts, sends, disowned, crashes, slow>>
  BY DEF EmailsTyped, Round, process_email_batch_results
<1> DEFINE left == emailer[p].results \ Kind(p, s)
           T == [emailer[p] EXCEPT !.results = left]
           S == IF left = {} THEN [T EXCEPT !.pc = "find"] ELSE T
<1>3. left \in SUBSET (Notice \X {"sent", "failed", "pending"})
  BY <1>2 DEF Round
<1>4. /\ S \in Round /\ S.pc \in {"report", "find"} /\ (S.pc = "find" => left = {})
      /\ S.results = left /\ S.found = emailer[p].found /\ S.claimed = emailer[p].claimed
  <2> HIDE DEF left
  <2> QED BY <1>2, <1>3 DEF Round
<1>5. emailer' = [emailer EXCEPT ![p] = S]
  BY <1>1 DEF Advance, Kind
<1>6. Stored({x[1] : x \in Kind(p, s)}, s)
  BY <1>1 DEF Kind, _set_email_status, Stored
<1>7. Only(p) /\ emailer'[p] = S
  <2> HIDE DEF S
  <2> QED BY <1>4, <1>5, OnlyOK
<1>8. Reported(p, s)
  <2> HIDE DEF S
  <2> QED BY <1>2, <1>4, <1>6, <1>7 DEF Reported
<1> QED
  BY <1>2, <1>8

(* The round of p ends: it stops, or it drops its batch.                   *)
Ended(p) ==
  /\ Only(p)
  /\ emailer'[p].pc = "find" /\ emailer'[p].found = {}
  /\ emailer'[p].claimed = {} /\ emailer'[p].results = {}
  /\ \/ crashes' = crashes + 1 /\ errors' = errors
     \/ crashes' = crashes /\ errors' = errors + 1
  /\ UNCHANGED <<status, attempts, lapsed, sends, disowned, slow>>

LEMMA EndFacts ==
  ASSUME EmailsTyped, NEW p \in Process, crash(p) \/ drop_batch(p)
  PROVE  Ended(p)
<1>1. Asleep \in Round
  BY DEF Asleep, Round
<1>2. emailer' = [emailer EXCEPT ![p] = Asleep]
  BY DEF crash, drop_batch
<1>3. Only(p) /\ emailer'[p] = Asleep
  BY <1>1, <1>2, OnlyOK
<1> QED
  BY <1>3 DEF Ended, Asleep, crash, drop_batch

(* Every step is one of these.                                             *)
StepOf(p) ==
  \/ \E found \in SUBSET Notice : Found(p, found)
  \/ \E x \in emailer[p].found : Claimed(p, x)
  \/ \E rest \in SUBSET emailer[p].claimed : Detailed(p, rest)
  \/ \E x \in emailer[p].claimed : \E result \in {"sent", "failed", "pending"} : Sent(p, x, result)
  \/ \E s \in {"sent", "failed", "pending"} : Reported(p, s)
  \/ Ended(p)

LEMMA StepFacts ==
  ASSUME EmailsTyped, [EmailsNext]_emailsVars
  PROVE  \/ \E p \in Process : StepOf(p)
         \/ \E n \in Notice : lapse(n) \/ expire(n)
         \/ UNCHANGED emailsVars
<1>1. ASSUME NEW p \in Process, EmailerStep(p) \/ crash(p) \/ drop_batch(p)
      PROVE  StepOf(p)
  BY <1>1, FindFacts, ClaimFacts, DetailsFacts, SendFacts, ReportFacts, EndFacts DEF EmailerStep, StepOf
<1> QED
  BY <1>1 DEF EmailsNext

---------------------------------------------------------------------------
(* Type correctness.                                                       *)

LEMMA StoredTypes ==
  ASSUME EmailsTyped, NEW notices \in SUBSET Notice, NEW s \in {"sent", "failed", "pending"},
         Stored(notices, s)
  PROVE  /\ status' \in [Notice -> EmailStatus \cup {"gone"}]
         /\ lapsed' \in SUBSET Notice /\ \A n \in lapsed' : status'[n] = "sending"
         /\ errors' \in Nat
<1>1. CASE SetStatus(notices, s) /\ errors' = errors
  BY <1>1 DEF SetStatus, EmailsTyped, EmailStatus
<1>2. CASE errors' = errors + 1 /\ status' = status /\ lapsed' = lapsed
  BY <1>2 DEF EmailsTyped
<1> QED
  BY <1>1, <1>2 DEF Stored

LEMMA TypedNext ==
  ASSUME EmailsTyped, [EmailsNext]_emailsVars
  PROVE  EmailsTyped'
<1>1. ASSUME NEW p \in Process, NEW found \in SUBSET Notice, Found(p, found)
      PROVE  EmailsTyped'
  BY <1>1 DEF EmailsTyped, Found, Only
<1>2. ASSUME NEW p \in Process, NEW x \in emailer[p].found, Claimed(p, x)
      PROVE  EmailsTyped'
  <2>1. x[1] \in Notice
    BY <1>2 DEF EmailsTyped, Round
  <2> QED
    BY <1>2, <2>1 DEF EmailsTyped, Claimed, Only, EmailStatus
<1>3. ASSUME NEW p \in Process, NEW rest \in SUBSET emailer[p].claimed, Detailed(p, rest)
      PROVE  EmailsTyped'
  <2>1. {x[1] : x \in emailer[p].claimed \ rest} \subseteq Notice
    BY DEF EmailsTyped, Round
  <2>2. CASE Stored({x[1] : x \in emailer[p].claimed \ rest}, "failed")
    BY <1>3, <2>1, <2>2, StoredTypes DEF EmailsTyped, Detailed, Only
  <2>3. CASE UNCHANGED <<status, lapsed, errors>>
    BY <1>3, <2>3 DEF EmailsTyped, Detailed, Only
  <2> QED
    BY <1>3, <2>2, <2>3 DEF Detailed
<1>4. ASSUME NEW p \in Process, NEW x \in emailer[p].claimed,
             NEW result \in {"sent", "failed", "pending"}, Sent(p, x, result)
      PROVE  EmailsTyped'
  <2>1. x[1] \in Notice
    BY DEF EmailsTyped, Round
  <2>2. sends' \in [Notice -> Nat] /\ disowned' \in SUBSET Notice
    BY <1>4, <2>1 DEF EmailsTyped, Sent
  <2> QED
    BY <1>4, <2>2 DEF EmailsTyped, Sent, Only
<1>5. ASSUME NEW p \in Process, NEW s \in {"sent", "failed", "pending"}, Reported(p, s)
      PROVE  EmailsTyped'
  <2>1. {x[1] : x \in Kind(p, s)} \subseteq Notice
    BY DEF EmailsTyped, Round, Kind
  <2> QED
    BY <1>5, <2>1, StoredTypes DEF EmailsTyped, Reported, Only
<1>6. ASSUME NEW p \in Process, Ended(p)
      PROVE  EmailsTyped'
  BY <1>6 DEF EmailsTyped, Ended, Only
<1>7. ASSUME NEW n \in Notice, lapse(n)
      PROVE  EmailsTyped'
  BY <1>7 DEF EmailsTyped, lapse
<1>8. ASSUME NEW n \in Notice, expire(n)
      PROVE  EmailsTyped'
  BY <1>8 DEF EmailsTyped, expire
<1>9. CASE UNCHANGED emailsVars
  BY <1>9 DEF EmailsTyped, emailsVars
<1> QED
  BY <1>1, <1>2, <1>3, <1>4, <1>5, <1>6, <1>7, <1>8, <1>9, StepFacts DEF StepOf

LEMMA OneMore ==
  ASSUME NEW S, IsFiniteSet(S), NEW e
  PROVE  /\ IsFiniteSet(S \cup {e})
         /\ Cardinality(S \cup {e}) <= Cardinality(S) + 1
         /\ e \notin S => Cardinality(S \cup {e}) = Cardinality(S) + 1
<1>1. Cardinality(S) \in Nat
  BY FS_CardinalityType
<1> QED
  BY <1>1, FS_AddElement

LEMMA OneLess ==
  ASSUME NEW S, IsFiniteSet(S), NEW e \in S
  PROVE  IsFiniteSet(S \ {e}) /\ Cardinality(S \ {e}) = Cardinality(S) - 1
  BY FS_RemoveElement

LEMMA RoundsNext ==
  ASSUME EmailsTyped, Rounds, [EmailsNext]_emailsVars
  PROVE  Rounds'
<1>0. EmailsTyped' /\ {BatchSize} \subseteq Nat
  BY TypedNext, EmailsAssumption
(* The attempts are never fewer; a round that is not changed is still fine. *)
<1>a. ASSUME NEW p \in Process, Only(p),
             \A n \in Notice : attempts[n] <= attempts'[n],
             (RoundOK(p) /\ BatchOK(p) /\ FoundOK(p))'
      PROVE  Rounds'
  <2>1. ASSUME NEW q \in Process \ {p}
        PROVE  (RoundOK(q) /\ BatchOK(q) /\ FoundOK(q))'
    <3>1. emailer'[q] = emailer[q] /\ RoundOK(q) /\ BatchOK(q) /\ FoundOK(q) /\ emailer[q] \in Round
      BY <1>a DEF Only, Rounds, EmailsTyped
    <3>2. FoundOK(q)'
      <4> SUFFICES ASSUME NEW x \in emailer[q].found
                   PROVE  x[2] <= attempts'[x[1]]
        BY <3>1 DEF FoundOK
      <4>1. x[1] \in Notice /\ x[2] \in Nat /\ x[2] <= attempts[x[1]]
        BY <3>1 DEF FoundOK, Round
      <4> QED
        BY <1>a, <1>0, <4>1 DEF EmailsTyped
    <3> QED
      BY <3>1, <3>2 DEF RoundOK, BatchOK
  <2> QED
    BY <1>a, <2>1 DEF Rounds
<1>b. ASSUME UNCHANGED <<emailer, attempts>>
      PROVE  Rounds'
  BY <1>b DEF Rounds, RoundOK, BatchOK, FoundOK
<1>c. ASSUME attempts' = attempts
      PROVE  \A n \in Notice : attempts[n] <= attempts'[n]
  BY <1>c DEF EmailsTyped
<1>1. ASSUME NEW p \in Process, NEW found \in SUBSET Notice, Found(p, found)
      PROVE  Rounds'
  <2>1. RoundOK(p)'
    BY <1>1 DEF Found, Rounds, RoundOK
  <2>2. FoundOK(p)'
    BY <1>1 DEF Found, FoundOK, EmailsTyped
  <2>3. IsFiniteSet(found) /\ Cardinality(found) \in Nat
    BY FS_Subset, FS_CardinalityType, EmailsAssumption
  <2>5. /\ IsFiniteSet(emailer'[p].found)
        /\ Cardinality(emailer'[p].found) <= Cardinality(found)
    <3> DEFINE F == {<<n, attempts[n]>> : n \in found}
               f == [n \in found |-> <<n, attempts[n]>>]
    <3>1. f \in Surjection(found, F)
      BY DEF Surjection
    <3>2. IsFiniteSet(F) /\ Cardinality(F) <= Cardinality(found)
      <4> HIDE DEF f, F
      <4> QED BY <3>1, <2>3, FS_Surjection
    <3> QED
      BY <1>1, <3>2 DEF Found
  <2>6. emailer'[p].claimed = {} /\ emailer'[p].results = {}
    BY <1>1 DEF Found, Rounds, RoundOK
  <2>7. BatchOK(p)'
    <3>1. Cardinality(emailer'[p].found) \in Nat /\ Cardinality(found) <= BatchSize
      BY <1>1, <2>5, FS_CardinalityType DEF Found
    <3> QED
      BY <1>0, <2>3, <2>5, <2>6, <3>1, FS_EmptySet DEF BatchOK
  <2> QED
    BY <1>1, <1>a, <1>c, <2>1, <2>2, <2>7 DEF Found
<1>6. ASSUME NEW p \in Process, Ended(p)
      PROVE  Rounds'
  <2>1. BatchOK(p)'
    BY <1>0, <1>6, FS_EmptySet DEF Ended, BatchOK
  <2> QED
    BY <1>6, <2>1, <1>a, <1>c DEF Ended, RoundOK, FoundOK
<1>7. ASSUME NEW n \in Notice, lapse(n) \/ expire(n)
      PROVE  Rounds'
  BY <1>7, <1>b DEF lapse, expire
<1>9. CASE UNCHANGED emailsVars
  BY <1>9, <1>b DEF emailsVars
<1>2. ASSUME NEW p \in Process, NEW x \in emailer[p].found, Claimed(p, x)
      PROVE  Rounds'
  <2>0. /\ x \in Notice \X Nat /\ x[1] \in Notice
        /\ emailer[p] \in Round /\ RoundOK(p) /\ BatchOK(p) /\ FoundOK(p)
    BY DEF EmailsTyped, Round, Rounds
  <2>1. \A n \in Notice : attempts[n] <= attempts'[n]
    BY <1>2, <2>0 DEF Claimed, EmailsTyped
  <2>2. RoundOK(p)'
    BY <1>2, <2>0 DEF Claimed, RoundOK
  <2>3. FoundOK(p)'
    <3> SUFFICES ASSUME NEW y \in emailer[p].found
                 PROVE  y[2] <= attempts'[y[1]]
      BY <1>2 DEF Claimed, FoundOK
    <3>1. y[1] \in Notice /\ y[2] \in Nat /\ y[2] <= attempts[y[1]]
      BY <2>0 DEF FoundOK, Round
    <3> QED
      BY <1>0, <2>1, <3>1 DEF EmailsTyped
  <2>4. /\ IsFiniteSet(emailer'[p].found)
        /\ Cardinality(emailer'[p].found) = Cardinality(emailer[p].found) - 1
    BY <1>2, <2>0, OneLess DEF Claimed, BatchOK
  <2>5. /\ IsFiniteSet(emailer'[p].claimed)
        /\ Cardinality(emailer'[p].claimed) <= Cardinality(emailer[p].claimed) + 1
    <3> DEFINE C == emailer[p].claimed
    <3>1. IsFiniteSet(C) /\ Cardinality(C) \in Nat
      BY <2>0, FS_CardinalityType DEF BatchOK
    <3>2. emailer'[p].claimed = C \/ \E e : emailer'[p].claimed = C \cup {e}
      BY <1>2 DEF Claimed
    <3> HIDE DEF C
    <3>3. /\ IsFiniteSet(emailer'[p].claimed)
          /\ Cardinality(emailer'[p].claimed) <= Cardinality(C) + 1
      BY <3>1, <3>2, OneMore
    <3> QED
      BY <3>3 DEF C
  <2>6. BatchOK(p)'
    <3>1. emailer'[p].results = emailer[p].results
      BY <1>2 DEF Claimed
    <3> QED
      BY <1>0, <2>0, <2>4, <2>5, <3>1, FS_CardinalityType DEF BatchOK
  <2> QED
    BY <1>2, <1>a, <2>1, <2>2, <2>3, <2>6 DEF Claimed
<1>3. ASSUME NEW p \in Process, NEW rest \in SUBSET emailer[p].claimed, Detailed(p, rest)
      PROVE  Rounds'
  <2>0. RoundOK(p) /\ BatchOK(p) /\ FoundOK(p)
    BY DEF Rounds
  <2>1. RoundOK(p)' /\ FoundOK(p)'
    BY <1>3, <2>0 DEF Detailed, RoundOK, FoundOK
  <2>2. /\ IsFiniteSet(emailer'[p].found) /\ IsFiniteSet(emailer'[p].claimed)
        /\ IsFiniteSet(emailer'[p].results)
        /\ Cardinality(emailer'[p].found) <= Cardinality(emailer[p].found)
        /\ Cardinality(emailer'[p].claimed) <= Cardinality(emailer[p].claimed)
        /\ Cardinality(emailer'[p].results) <= Cardinality(emailer[p].results)
    BY <1>3, <2>0, FS_Subset DEF Detailed, BatchOK
  <2>3. BatchOK(p)'
    BY <1>0, <2>0, <2>2, FS_CardinalityType DEF BatchOK
  <2> QED
    BY <1>3, <1>a, <1>c, <2>1, <2>3 DEF Detailed
<1>4. ASSUME NEW p \in Process, NEW x \in emailer[p].claimed,
             NEW result \in {"sent", "failed", "pending"}, Sent(p, x, result)
      PROVE  Rounds'
  <2>0. RoundOK(p) /\ BatchOK(p) /\ FoundOK(p)
    BY DEF Rounds
  <2>1. RoundOK(p)' /\ FoundOK(p)'
    BY <1>4, <2>0 DEF Sent, RoundOK, FoundOK
  <2>2. /\ IsFiniteSet(emailer'[p].claimed)
        /\ Cardinality(emailer'[p].claimed) = Cardinality(emailer[p].claimed) - 1
    BY <1>4, <2>0, OneLess DEF Sent, BatchOK
  <2>3. /\ IsFiniteSet(emailer'[p].results)
        /\ Cardinality(emailer'[p].results) <= Cardinality(emailer[p].results) + 1
    <3>1. IsFiniteSet(emailer[p].results)
      BY <2>0 DEF BatchOK
    <3>2. emailer'[p].results = emailer[p].results \cup {<<x[1], result>>}
      BY <1>4 DEF Sent
    <3> QED
      BY <3>1, <3>2, OneMore
  <2>4. BatchOK(p)'
    <3>1. emailer'[p].found = emailer[p].found
      BY <1>4 DEF Sent
    <3> QED
      BY <1>0, <2>0, <2>2, <2>3, <3>1, FS_CardinalityType DEF BatchOK
  <2> QED
    BY <1>4, <1>a, <1>c, <2>1, <2>4 DEF Sent
<1>5. ASSUME NEW p \in Process, NEW s \in {"sent", "failed", "pending"}, Reported(p, s)
      PROVE  Rounds'
  <2>0. RoundOK(p) /\ BatchOK(p) /\ FoundOK(p)
    BY DEF Rounds
  <2>1. RoundOK(p)' /\ FoundOK(p)'
    BY <1>5, <2>0 DEF Reported, RoundOK, FoundOK
  <2>2. /\ IsFiniteSet(emailer'[p].results)
        /\ Cardinality(emailer'[p].results) <= Cardinality(emailer[p].results)
    BY <1>5, <2>0, FS_Subset DEF Reported, BatchOK
  <2>3. BatchOK(p)'
    <3>1. emailer'[p].found = emailer[p].found /\ emailer'[p].claimed = emailer[p].claimed
      BY <1>5 DEF Reported
    <3> QED
      BY <1>0, <2>0, <2>2, <3>1, FS_CardinalityType DEF BatchOK
  <2> QED
    BY <1>5, <1>a, <1>c, <2>1, <2>3 DEF Reported
<1> QED
  BY <1>1, <1>2, <1>3, <1>4, <1>5, <1>6, <1>7, <1>9, StepFacts DEF StepOf

LEMMA TypedInit ==
  ASSUME EmailsInit
  PROVE  EmailsTyped /\ Rounds
<1>1. Asleep \in Round
  BY DEF Asleep, Round
<1>2. EmailsTyped
  BY <1>1 DEF EmailsInit, EmailsTyped, EmailStatus
<1>3. Rounds
  <2> SUFFICES ASSUME NEW p \in Process
               PROVE  RoundOK(p) /\ BatchOK(p) /\ FoundOK(p)
    BY DEF Rounds
  <2>1. emailer[p].found = {} /\ emailer[p].claimed = {} /\ emailer[p].results = {}
    BY DEF EmailsInit, Asleep
  <2>2. IsFiniteSet({}) /\ Cardinality({}) = 0 /\ BatchSize \in Nat
    BY FS_EmptySet, EmailsAssumption
  <2> QED
    BY <2>1, <2>2 DEF RoundOK, BatchOK, FoundOK
<1> QED
  BY <1>2, <1>3

LEMMA TypedRounds == EmailsSpec => [](EmailsTyped /\ Rounds)
<1>1. EmailsTyped /\ Rounds /\ [EmailsNext]_emailsVars => (EmailsTyped /\ Rounds)'
  BY TypedNext, RoundsNext
<1> QED
  BY <1>1, TypedInit, PTL DEF EmailsSpec

(* The emailers are type-correct, and no round is larger than a batch, for *)
(* any number of notices and processes.                                    *)
THEOREM EmailsTypeCorrect == EmailsSpec => []EmailsTypeOK
<1>1. EmailsTyped /\ Rounds => EmailsTypeOK
  <2> SUFFICES ASSUME EmailsTyped, Rounds PROVE EmailsTypeOK
    OBVIOUS
  <2>1. ASSUME NEW p \in Process
        PROVE  /\ [pc |-> emailer[p].pc, claimed |-> emailer[p].claimed,
                   results |-> emailer[p].results] \in EmailerState
               /\ \A x \in emailer[p].found : x[1] \in Notice /\ x[2] \in Nat
               /\ Cardinality(emailer[p].found) + Cardinality(emailer[p].claimed)
                    + Cardinality(emailer[p].results) <= BatchSize
    BY DEF EmailsTyped, Rounds, Round, BatchOK, EmailerState
  <2> QED
    BY <2>1 DEF EmailsTyped, EmailsTypeOK
<1> QED
  BY <1>1, TypedRounds, PTL

---------------------------------------------------------------------------
(* The attempts are bounded.                                               *)

LEMMA FailuresType ==
  /\ EmailsTyped => Failures \in Nat
  /\ EmailsTyped' => Failures' \in Nat
<1>1. EmailsTyped => Failures \in Nat
  BY DEF EmailsTyped, Failures
<1>2. ASSUME EmailsTyped'
      PROVE  Failures' \in Nat
  <2>1. crashes' \in Nat /\ errors' \in Nat /\ slow' \in Nat
    BY <1>2 DEF EmailsTyped
  <2>2. \A c, e, s \in Nat : c + e + s \in Nat
    OBVIOUS
  <2> QED
    BY <2>1, <2>2 DEF Failures
<1> QED
  BY <1>1, <1>2

(* A step that makes no attempt at n keeps its budget, if it opens n again *)
(* only for a failure, or in place of a retry that was due.                *)
LEMMA BudgetKept ==
  ASSUME EmailsTyped, EmailsTyped', NEW n \in Notice, BudgetOf(n),
         attempts'[n] = attempts[n], Failures <= Failures',
         Retrying(n)' \subseteq Retrying(n),
         Open(n)' => \/ Open(n)
                     \/ Failures + 1 <= Failures'
                     \/ \E p \in Retrying(n) : p \notin Retrying(n)'
  PROVE  BudgetOf(n)'
<1> DEFINE R == Retrying(n)
           S == Retrying(n)'
           k == IF Open(n) THEN 1 ELSE 0
           l == IF Open(n)' THEN 1 ELSE 0
           r == Retries(attempts[n])
<1>1. /\ IsFiniteSet(S) /\ Cardinality(S) <= Cardinality(R)
      /\ Cardinality(S) \in Nat /\ Cardinality(R) \in Nat
  BY FS_Subset, FS_CardinalityType DEF BudgetOf
<1>2. ASSUME NEW p \in R, p \notin S
      PROVE  Cardinality(S) + 1 <= Cardinality(R)
  <2> HIDE DEF R, S
  <2>0. S \subseteq R /\ IsFiniteSet(R)
    BY DEF R, S, BudgetOf
  <2>1. S \subseteq R \ {p} /\ IsFiniteSet(R \ {p}) /\ Cardinality(R \ {p}) = Cardinality(R) - 1
    BY <1>2, <2>0, OneLess
  <2>2. Cardinality(S) <= Cardinality(R \ {p})
    BY <2>1, FS_Subset
  <2> QED
    BY <1>1, <2>1, <2>2
<1>3. /\ Failures \in Nat /\ Failures' \in Nat /\ attempts[n] \in Nat
      /\ MaxAttempts \in Nat /\ r \in Nat
  <2>1. Failures \in Nat /\ Failures' \in Nat
    BY FailuresType
  <2>2. MaxAttempts \in Nat /\ attempts[n] \in Nat
    BY EmailsAssumption DEF EmailsTyped
  <2> QED
    BY <2>1, <2>2 DEF Retries
<1>4. Cardinality(S) + l + Failures <= Cardinality(R) + k + Failures'
  <2>1. Open(n)' \in BOOLEAN /\ Open(n) \in BOOLEAN
    BY DEF Open
  <2>2. CASE \/ ~Open(n)'
             \/ Open(n)
             \/ Failures + 1 <= Failures'
    <3>1. k \in 0 .. 1 /\ l \in 0 .. 1 /\ (l <= k \/ Failures + 1 <= Failures')
      BY <2>1, <2>2
    <3> HIDE DEF k, l, R, S
    <3> QED BY <1>1, <1>3, <3>1
  <2>3. CASE \E p \in R : p \notin S
    <3>1. k \in 0 .. 1 /\ l \in 0 .. 1
      OBVIOUS
    <3>2. Cardinality(S) + 1 <= Cardinality(R)
      BY <1>2, <2>3
    <3> HIDE DEF k, l, R, S
    <3> QED BY <1>1, <1>3, <3>1, <3>2
  <2> QED
    BY <2>2, <2>3
<1>5. Cardinality(R) + attempts[n] + k + r <= MaxAttempts + Failures
  BY DEF BudgetOf
<1>6. Cardinality(S) + attempts[n] + l + r <= MaxAttempts + Failures'
  <2>1. k \in 0 .. 1 /\ l \in 0 .. 1
    OBVIOUS
  <2> HIDE DEF k, l, R, S, r
  <2> QED BY <1>1, <1>3, <1>4, <1>5, <2>1
<1> QED
  BY <1>1, <1>6 DEF BudgetOf, Retries

(* Storing an outcome makes no notice pending but those reported so; and a *)
(* notice whose outcome was stored is no longer being sent.                *)
LEMMA StoredFacts ==
  ASSUME EmailsTyped, NEW notices, NEW s \in {"sent", "failed", "pending"}, Stored(notices, s),
         NEW n \in Notice
  PROVE  /\ lapsed' \subseteq lapsed
         /\ status'[n] = "sending" => status[n] = "sending" /\ (n \notin notices \/ errors' = errors + 1)
         /\ status'[n] = "pending" => status[n] = "pending" \/ (s = "pending" /\ n \in notices)
         /\ errors' = errors \/ errors' = errors + 1
<1>1. CASE SetStatus(notices, s) /\ errors' = errors
  BY <1>1 DEF SetStatus
<1>2. CASE errors' = errors + 1 /\ status' = status /\ lapsed' = lapsed
  BY <1>2
<1> QED
  BY <1>1, <1>2 DEF Stored

LEMMA ErrorsCount ==
  ASSUME EmailsTyped, crashes' = crashes, slow' = slow, errors' = errors \/ errors' = errors + 1
  PROVE  Failures <= Failures' /\ (errors' = errors + 1 => Failures + 1 <= Failures')
<1>1. crashes \in Nat /\ slow \in Nat /\ errors \in Nat
  BY DEF EmailsTyped
<1> QED
  BY <1>1 DEF Failures

LEMMA FindBudget ==
  ASSUME EmailsTyped, EmailsTyped', Rounds, Budget, NEW p \in Process, NEW found \in SUBSET Notice, Found(p, found),
         NEW n \in Notice
  PROVE  BudgetOf(n)'
<1>1. Retrying(n)' = Retrying(n) /\ (Held(n)' <=> Held(n))
  BY DEF Retrying, Held, Found, Only
<1>2. Open(n)' => Open(n)
  <2>1. ASSUME NEW q \in Process, <<n, attempts[n]>> \in emailer'[q].found
        PROVE  Open(n)
    <3>1. CASE q = p
      <4>1. n \in found
        BY <2>1, <3>1 DEF Found
      <4> QED
        BY <4>1 DEF Found, Open, IsPending
    <3>2. CASE q # p
      BY <2>1, <3>2 DEF Found, Only, Open
    <3> QED
      BY <3>1, <3>2
  <2> QED
    BY <1>1, <2>1 DEF Open, Found
<1>3. attempts'[n] = attempts[n] /\ Failures <= Failures'
  BY DEF Found, Failures, EmailsTyped
<1> QED
  BY <1>1, <1>2, <1>3, BudgetKept DEF Budget

LEMMA DetailsBudget ==
  ASSUME EmailsTyped, EmailsTyped', Rounds, Budget, NEW p \in Process,
         NEW rest \in SUBSET emailer[p].claimed, Detailed(p, rest),
         NEW n \in Notice
  PROVE  BudgetOf(n)'
<1> DEFINE notices == {x[1] : x \in emailer[p].claimed \ rest}
<1>0. emailer[p].results = {} /\ emailer'[p].results = {}
  BY DEF Detailed, Rounds, RoundOK
<1>1. Retrying(n)' \subseteq Retrying(n)
  <2> SUFFICES ASSUME NEW q \in Retrying(n)' PROVE q \in Retrying(n)
    OBVIOUS
  <2> QED
    BY <1>0 DEF Retrying, Detailed, Only
<1>2. Held(n) /\ n \notin notices => Held(n)'
  <2> SUFFICES ASSUME Held(n), n \notin notices PROVE Held(n)'
    OBVIOUS
  <2>1. PICK q \in Process : \/ \E x \in emailer[q].claimed : x[1] = n
                             \/ \E x \in emailer[q].results : x[1] = n
    BY DEF Held
  <2>2. CASE q # p
    BY <2>1, <2>2 DEF Held, Detailed, Only
  <2>3. CASE q = p
    <3>1. PICK x \in emailer[p].claimed : x[1] = n
      BY <1>0, <2>1, <2>3
    <3>2. x \in rest
      BY <3>1
    <3> QED
      BY <3>1, <3>2 DEF Held, Detailed
  <2> QED
    BY <2>2, <2>3
<1>3. attempts'[n] = attempts[n] /\ crashes' = crashes /\ slow' = slow
  BY DEF Detailed
<1>4. /\ lapsed' \subseteq lapsed
      /\ status'[n] = "sending" => status[n] = "sending" /\ (n \notin notices \/ errors' = errors + 1)
      /\ status'[n] = "pending" => status[n] = "pending"
      /\ errors' = errors \/ errors' = errors + 1
  <2>1. CASE Stored(notices, "failed")
    <3> HIDE DEF notices
    <3> QED BY <2>1, StoredFacts
  <2>2. CASE rest = emailer[p].claimed /\ UNCHANGED <<status, lapsed, errors>>
    BY <2>2
  <2> QED
    BY <2>1, <2>2 DEF Detailed
<1>6. Open(n)' => Open(n) \/ errors' = errors + 1
  <2>1. ASSUME NEW q \in Process, <<n, attempts[n]>> \in emailer'[q].found
        PROVE  Open(n)
    BY <2>1 DEF Detailed, Only, Open
  <2> HIDE DEF notices
  <2> QED BY <1>2, <1>3, <1>4, <2>1 DEF Open
<1>7. Failures <= Failures' /\ (errors' = errors + 1 => Failures + 1 <= Failures')
  BY <1>3, <1>4, ErrorsCount
<1> QED
  BY <1>1, <1>3, <1>6, <1>7, BudgetKept DEF Budget

LEMMA SendBudget ==
  ASSUME EmailsTyped, EmailsTyped', Rounds, Budget, NEW p \in Process, NEW x \in emailer[p].claimed,
         NEW result \in {"sent", "failed", "pending"}, Sent(p, x, result),
         NEW n \in Notice
  PROVE  BudgetOf(n)'
<1>0. x \in Notice \X BOOLEAN
  BY DEF EmailsTyped, Round
<1>1. Retrying(n)' \subseteq Retrying(n)
  <2> SUFFICES ASSUME NEW q \in Retrying(n)' PROVE q \in Retrying(n)
    OBVIOUS
  <2>1. CASE q # p
    BY <2>1 DEF Retrying, Sent, Only
  <2>2. CASE q = p
    <3>1. \/ <<n, TRUE>> \in emailer[p].claimed \/ <<n, "pending">> \in emailer[p].results
          \/ result = "pending" /\ x[1] = n
      BY <2>2 DEF Retrying, Sent
    <3>2. result = "pending" /\ x[1] = n => x = <<n, TRUE>>
      <4>1. x = <<x[1], x[2]>>
        BY <1>0
      <4> QED
        BY <4>1 DEF Sent
    <3> QED
      BY <2>2, <3>1, <3>2 DEF Retrying
  <2> QED
    BY <2>1, <2>2
<1>2. Held(n) => Held(n)'
  <2> SUFFICES ASSUME Held(n) PROVE Held(n)'
    OBVIOUS
  <2>1. PICK q \in Process : \/ \E y \in emailer[q].claimed : y[1] = n
                             \/ \E y \in emailer[q].results : y[1] = n
    BY DEF Held
  <2>2. CASE q # p
    BY <2>1, <2>2 DEF Held, Sent, Only
  <2>3. CASE q = p
    <3>1. CASE x[1] = n
      <4>1. <<x[1], result>> \in emailer'[p].results /\ <<x[1], result>>[1] = n
        BY <3>1 DEF Sent
      <4> QED
        BY <4>1 DEF Held
    <3>2. CASE x[1] # n
      <4>1. \/ \E y \in emailer'[p].claimed : y[1] = n
            \/ \E y \in emailer'[p].results : y[1] = n
        BY <2>1, <2>3, <3>2 DEF Sent
      <4> QED
        BY <4>1 DEF Held
    <3> QED
      BY <3>1, <3>2
  <2> QED
    BY <2>2, <2>3
<1>3. attempts'[n] = attempts[n] /\ Failures <= Failures'
  BY DEF Sent, Failures, EmailsTyped
<1>4. Open(n)' => Open(n)
  <2>1. ASSUME NEW q \in Process, <<n, attempts[n]>> \in emailer'[q].found
        PROVE  Open(n)
    BY <2>1 DEF Sent, Only, Open
  <2> QED
    BY <1>2, <1>3, <2>1 DEF Open, Sent
<1> QED
  BY <1>1, <1>3, <1>4, BudgetKept DEF Budget

LEMMA ReportBudget ==
  ASSUME EmailsTyped, EmailsTyped', Rounds, Budget, NEW p \in Process,
         NEW s \in {"sent", "failed", "pending"}, Reported(p, s),
         NEW n \in Notice
  PROVE  BudgetOf(n)'
<1> DEFINE notices == {x[1] : x \in Kind(p, s)}
<1>0. emailer[p].claimed = {} /\ emailer'[p].claimed = {}
  BY DEF Reported, Rounds, RoundOK
<1>1. Retrying(n)' \subseteq Retrying(n)
  BY DEF Retrying, Reported, Only
<1>2. Held(n) /\ n \notin notices => Held(n)'
  <2> SUFFICES ASSUME Held(n), n \notin notices PROVE Held(n)'
    OBVIOUS
  <2>1. PICK q \in Process : \/ \E x \in emailer[q].claimed : x[1] = n
                             \/ \E x \in emailer[q].results : x[1] = n
    BY DEF Held
  <2>2. CASE q # p
    BY <2>1, <2>2 DEF Held, Reported, Only
  <2>3. CASE q = p
    <3>1. PICK x \in emailer[p].results : x[1] = n
      BY <1>0, <2>1, <2>3
    <3>2. x \in emailer'[p].results
      BY <3>1 DEF Reported
    <3> QED
      BY <3>1, <3>2 DEF Held
  <2> QED
    BY <2>2, <2>3
<1>3. attempts'[n] = attempts[n] /\ crashes' = crashes /\ slow' = slow
  BY DEF Reported
<1>4. /\ lapsed' \subseteq lapsed
      /\ status'[n] = "sending" => status[n] = "sending" /\ (n \notin notices \/ errors' = errors + 1)
      /\ status'[n] = "pending" => status[n] = "pending" \/ (s = "pending" /\ n \in notices)
      /\ errors' = errors \/ errors' = errors + 1
  <2>1. Stored(notices, s)
    BY DEF Reported
  <2> HIDE DEF notices
  <2> QED BY <2>1, StoredFacts
<1>5. s = "pending" /\ n \in notices => \E q \in Retrying(n) : q \notin Retrying(n)'
  <2> SUFFICES ASSUME s = "pending", n \in notices
               PROVE  p \in Retrying(n) /\ p \notin Retrying(n)'
    OBVIOUS
  <2>1. <<n, "pending">> \in emailer[p].results
    <3>1. PICK x \in Kind(p, s) : x[1] = n
      OBVIOUS
    <3>2. x \in emailer[p].results /\ x[2] = "pending" /\ emailer[p] \in Round
      BY DEF Kind, EmailsTyped
    <3>3. x = <<x[1], x[2]>>
      BY <3>2 DEF Round
    <3> QED
      BY <3>1, <3>2, <3>3
  <2>2. <<n, "pending">> \notin emailer'[p].results
    BY <2>1 DEF Kind, Reported
  <2> QED
    BY <1>0, <2>1, <2>2 DEF Retrying
<1>6. Open(n)' => \/ Open(n)
                  \/ errors' = errors + 1
                  \/ \E q \in Retrying(n) : q \notin Retrying(n)'
  <2>1. ASSUME NEW q \in Process, <<n, attempts[n]>> \in emailer'[q].found
        PROVE  Open(n)
    BY <2>1 DEF Reported, Only, Open
  <2>2. ASSUME status'[n] = "pending"
        PROVE  Open(n) \/ \E q \in Retrying(n) : q \notin Retrying(n)'
    BY <1>4, <1>5, <2>2 DEF Open
  <2>3. ASSUME status'[n] = "sending", ~Held(n)'
        PROVE  Open(n) \/ errors' = errors + 1
    <3> HIDE DEF notices
    <3> QED BY <1>2, <1>4, <2>3 DEF Open
  <2>4. n \in lapsed' => Open(n)
    BY <1>4 DEF Open
  <2>5. Open(n)' => \/ status'[n] = "pending"
                    \/ n \in lapsed'
                    \/ status'[n] = "sending" /\ ~Held(n)'
                    \/ \E q \in Process : <<n, attempts[n]>> \in emailer'[q].found
    BY <1>3 DEF Open
  <2> QED
    BY <2>1, <2>2, <2>3, <2>4, <2>5
<1>7. Failures <= Failures' /\ (errors' = errors + 1 => Failures + 1 <= Failures')
  BY <1>3, <1>4, ErrorsCount
<1> QED
  BY <1>1, <1>3, <1>6, <1>7, BudgetKept DEF Budget

LEMMA EndBudget ==
  ASSUME EmailsTyped, EmailsTyped', Budget, NEW p \in Process, Ended(p), NEW n \in Notice
  PROVE  BudgetOf(n)'
<1>1. Retrying(n)' \subseteq Retrying(n)
  BY DEF Retrying, Ended, Only
<1>2. attempts'[n] = attempts[n]
  BY DEF Ended
<1>3. Failures + 1 <= Failures' /\ Failures <= Failures'
  <2>1. crashes \in Nat /\ slow \in Nat /\ errors \in Nat
    BY DEF EmailsTyped
  <2> QED
    BY <2>1 DEF Failures, Ended
<1> QED
  BY <1>1, <1>2, <1>3, BudgetKept DEF Budget

LEMMA LapseBudget ==
  ASSUME EmailsTyped, EmailsTyped', Budget, NEW m \in Notice, lapse(m), NEW n \in Notice
  PROVE  BudgetOf(n)'
<1>1. Retrying(n)' = Retrying(n) /\ (Held(n)' <=> Held(n)) /\ attempts'[n] = attempts[n]
  BY DEF Retrying, Held, lapse
<1>2. Failures <= Failures' /\ (Held(m) => Failures + 1 <= Failures')
  <2>1. crashes \in Nat /\ slow \in Nat /\ errors \in Nat
    BY DEF EmailsTyped
  <2>2. slow' = slow \/ slow' = slow + 1
    BY DEF lapse
  <2>3. Held(m) => slow' = slow + 1
    BY DEF lapse
  <2>4. crashes' = crashes /\ errors' = errors
    BY DEF lapse
  <2> QED
    BY <2>1, <2>2, <2>3, <2>4 DEF Failures
<1>3. Open(n)' => Open(n) \/ Held(m)
  BY <1>1 DEF Open, lapse
<1> QED
  BY <1>1, <1>2, <1>3, BudgetKept DEF Budget

LEMMA ExpireBudget ==
  ASSUME EmailsTyped, EmailsTyped', Budget, NEW m \in Notice, expire(m), NEW n \in Notice
  PROVE  BudgetOf(n)'
<1>1. Retrying(n)' = Retrying(n) /\ (Held(n)' <=> Held(n)) /\ attempts'[n] = attempts[n]
  BY DEF Retrying, Held, expire
<1>2. Failures <= Failures'
  BY DEF Failures, expire, EmailsTyped
<1>3. Open(n)' => Open(n)
  BY <1>1 DEF Open, expire, EmailsTyped
<1> QED
  BY <1>1, <1>2, <1>3, BudgetKept DEF Budget

(* Claiming what was found makes the attempt that was open, and leaves one *)
(* retry fewer to come.                                                    *)
LEMMA ClaimBudget ==
  ASSUME EmailsTyped, EmailsTyped', Rounds, Rounds', Budget, NEW p \in Process,
         NEW x \in emailer[p].found, Claimed(p, x),
         NEW n \in Notice
  PROVE  BudgetOf(n)'
<1>0. /\ x \in Notice \X Nat /\ x[1] \in Notice /\ x = <<x[1], x[2]>>
      /\ attempts[n] \in Nat /\ MaxAttempts \in Nat
  BY EmailsAssumption DEF EmailsTyped, Round
<1>1. Failures' = Failures
  BY DEF Claimed, Failures
<1>2. \A q \in Process : emailer'[q].found \subseteq emailer[q].found
  BY DEF Claimed, Only
<1>3. ASSUME ~(IsClaimable(x) /\ x[1] = n)
      PROVE  BudgetOf(n)'
  <2>1. attempts'[n] = attempts[n] /\ status'[n] = status[n] /\ (n \in lapsed' => n \in lapsed)
    BY <1>0, <1>3 DEF Claimed, EmailsTyped
  <2>2. \A c : <<n, c>> \in emailer'[p].claimed => <<n, c>> \in emailer[p].claimed
    BY <1>3 DEF Claimed
  <2>3. Retrying(n)' \subseteq Retrying(n)
    BY <2>2 DEF Retrying, Claimed, Only
  <2>4. Held(n) => Held(n)'
    <3>1. \A q \in Process : /\ emailer[q].claimed \subseteq emailer'[q].claimed
                             /\ emailer[q].results = emailer'[q].results
      BY DEF Claimed, Only
    <3> QED
      BY <3>1 DEF Held
  <2>5. Open(n)' => Open(n)
    BY <1>2, <2>1, <2>4 DEF Open
  <2>6. Failures <= Failures'
    BY <1>1, FailuresType
  <2> QED
    BY <2>1, <2>3, <2>5, <2>6, BudgetKept DEF Budget
<1>4. ASSUME IsClaimable(x), x[1] = n
      PROVE  BudgetOf(n)'
  <2> DEFINE a == attempts[n]
             R == Retrying(n)
             S == Retrying(n)'
  <2>1. attempts'[n] = a + 1 /\ a \in Nat
    BY <1>0, <1>4 DEF Claimed, EmailsTyped
  <2>2. Open(n)
    <3>1. <<n, attempts[n]>> = x
      BY <1>0, <1>4 DEF IsClaimable
    <3> QED
      BY <3>1 DEF Open
  <2>3. ~Open(n)'
    <3>1. status'[n] = "sending" /\ n \notin lapsed'
      BY <1>4 DEF Claimed, EmailsTyped
    <3>2. Held(n)'
      <4>1. <<n, can_retry(n)>> \in emailer'[p].claimed
        BY <1>4 DEF Claimed
      <4>2. <<n, can_retry(n)>>[1] = n
        OBVIOUS
      <4> QED
        BY <4>1, <4>2 DEF Held
    <3>3. ASSUME NEW q \in Process, <<n, a + 1>> \in emailer'[q].found
          PROVE  FALSE
      <4>1. <<n, a + 1>> \in emailer[q].found /\ FoundOK(q)
        BY <1>2, <3>3 DEF Rounds
      <4>2. a + 1 <= a
        BY <4>1 DEF FoundOK
      <4> QED
        BY <2>1, <4>2
    <3> QED
      BY <2>1, <3>1, <3>2, <3>3 DEF Open
  <2>4. S \subseteq R \cup {p} /\ (~can_retry(n) => S \subseteq R)
    <3>1. ASSUME NEW q \in S, q # p
          PROVE  q \in R
      BY <3>1 DEF Retrying, Claimed, Only
    <3>2. ASSUME p \in S, ~can_retry(n)
          PROVE  p \in R
      <4>1. can_retry(n) = FALSE
        BY <3>2 DEF can_retry
      <4>2. emailer'[p].claimed = emailer[p].claimed \cup {<<n, FALSE>>}
        BY <1>4, <4>1 DEF Claimed
      <4> QED
        BY <3>2, <4>2 DEF Retrying, Claimed
    <3> QED
      BY <3>1, <3>2 DEF Retrying
  <2>5. /\ IsFiniteSet(R) /\ Cardinality(R) \in Nat
        /\ Cardinality(R) + a + 1 + Retries(a) <= MaxAttempts + Failures
    BY <2>2, FS_CardinalityType DEF Budget, BudgetOf
  <2>6. /\ IsFiniteSet(S) /\ Cardinality(S) \in Nat /\ Cardinality(S) <= Cardinality(R) + 1
        /\ ~can_retry(n) => Cardinality(S) <= Cardinality(R)
    <3> HIDE DEF R, S
    <3>1. IsFiniteSet(R \cup {p}) /\ Cardinality(R \cup {p}) <= Cardinality(R) + 1
      BY <2>5, OneMore
    <3>2. IsFiniteSet(S) /\ Cardinality(S) <= Cardinality(R \cup {p})
      BY <2>4, <3>1, FS_Subset
    <3>3. Cardinality(S) \in Nat /\ Cardinality(R \cup {p}) \in Nat
      BY <3>1, <3>2, FS_CardinalityType
    <3>4. ~can_retry(n) => Cardinality(S) <= Cardinality(R)
      BY <2>4, <2>5, FS_Subset
    <3> QED
      BY <2>5, <3>1, <3>2, <3>3, <3>4
  <2>7. Cardinality(S) + (a + 1) + 0 + Retries(a + 1) <= MaxAttempts + Failures
    <3>1. Failures \in Nat
      BY FailuresType
    <3>2. CASE can_retry(n)
      <4>1. Retries(a + 1) = Retries(a) - 1 /\ Retries(a) \in Nat
        BY <1>0, <2>1, <3>2 DEF can_retry, Retries
      <4> HIDE DEF a, S, R
      <4> QED BY <1>0, <2>1, <2>5, <2>6, <3>1, <4>1
    <3>3. CASE ~can_retry(n)
      <4>1. Retries(a + 1) = 0 /\ Retries(a) = 0
        BY <1>0, <2>1, <3>3 DEF can_retry, Retries
      <4> HIDE DEF a, S, R
      <4> QED BY <1>0, <2>1, <2>5, <2>6, <3>1, <3>3, <4>1
    <3> QED
      BY <3>2, <3>3
  <2>8. Retries(attempts[n])' = Retries(a + 1)
    BY <2>1 DEF Retries
  <2> QED
    BY <1>1, <2>1, <2>3, <2>6, <2>7, <2>8 DEF BudgetOf
<1> QED
  BY <1>3, <1>4

LEMMA BudgetNext ==
  ASSUME EmailsTyped, EmailsTyped', Rounds, Rounds', Budget, [EmailsNext]_emailsVars
  PROVE  Budget'
<1> SUFFICES ASSUME NEW n \in Notice PROVE BudgetOf(n)'
  BY DEF Budget
<1>1. CASE \E p \in Process : StepOf(p)
  BY <1>1, FindBudget, ClaimBudget, DetailsBudget, SendBudget, ReportBudget, EndBudget DEF StepOf
<1>2. CASE \E m \in Notice : lapse(m) \/ expire(m)
  BY <1>2, LapseBudget, ExpireBudget
<1>3. CASE UNCHANGED emailsVars
  BY <1>3 DEF emailsVars, Budget, BudgetOf, Retrying, Open, Held, Retries, Failures
<1> QED
  BY <1>1, <1>2, <1>3, StepFacts

LEMMA BudgetInit ==
  ASSUME EmailsInit
  PROVE  Budget
<1> SUFFICES ASSUME NEW n \in Notice PROVE BudgetOf(n)
  BY DEF Budget
<1>1. Retrying(n) = {}
  BY DEF EmailsInit, Asleep, Retrying
<1>2. attempts[n] = 0 /\ Failures = 0 /\ status[n] = "pending"
  BY DEF EmailsInit, Failures
<1>3. Open(n) /\ MaxAttempts \in Nat \ {0}
  BY <1>2, EmailsAssumption DEF Open
<1>4. IsFiniteSet({}) /\ Cardinality({}) = 0
  BY FS_EmptySet
<1>5. 0 + 0 + 1 + Retries(0) <= MaxAttempts + 0
  BY <1>3 DEF Retries
<1> QED
  BY <1>1, <1>2, <1>3, <1>4, <1>5 DEF BudgetOf

(* However many processes look for the same notices, whichever of them     *)
(* stop, whatever the database loses and whichever claims lapse, an email  *)
(* is attempted at most the configured times, and once more for each of    *)
(* these failures.                                                         *)
THEOREM AttemptsAreBounded == EmailsSpec => []AttemptsBounded
<1>1. EmailsTyped /\ Rounds /\ Budget => AttemptsBounded
  <2> SUFFICES ASSUME EmailsTyped, Budget, NEW n \in Notice
               PROVE  attempts[n] <= MaxAttempts + crashes + errors + slow
    BY DEF AttemptsBounded
  <2>1. /\ Cardinality(Retrying(n)) \in Nat /\ Failures \in Nat /\ MaxAttempts \in Nat
        /\ attempts[n] \in Nat /\ crashes \in Nat /\ errors \in Nat /\ slow \in Nat
    BY FS_CardinalityType, FailuresType, EmailsAssumption DEF Budget, BudgetOf, EmailsTyped
  <2>2. Retries(attempts[n]) \in Nat
    BY <2>1 DEF Retries
  <2>3. attempts[n] <= MaxAttempts + Failures
    <3>1. Cardinality(Retrying(n)) + attempts[n] + (IF Open(n) THEN 1 ELSE 0) + Retries(attempts[n])
            <= MaxAttempts + Failures
      BY DEF Budget, BudgetOf
    <3>2. (IF Open(n) THEN 1 ELSE 0) \in Nat
      OBVIOUS
    <3> DEFINE k == IF Open(n) THEN 1 ELSE 0
    <3> HIDE DEF k
    <3> QED BY <2>1, <2>2, <3>1, <3>2 DEF k
  <2> QED
    BY <2>1, <2>3 DEF Failures
<1>2. EmailsTyped /\ Rounds /\ Budget /\ [EmailsNext]_emailsVars => (EmailsTyped /\ Rounds /\ Budget)'
  BY TypedNext, RoundsNext, BudgetNext
<1> QED
  BY <1>1, <1>2, TypedInit, BudgetInit, PTL DEF EmailsSpec

---------------------------------------------------------------------------
(* While nothing fails, an email is sent once.                             *)

LEMMA FindCalm ==
  ASSUME EmailsTyped, EmailsTyped', Rounds, OneHolder, SentOK,
         NEW p \in Process, NEW found \in SUBSET Notice, Found(p, found)
  PROVE  (OneHolder /\ SentOK)'
<1>1. \A q \in Process : emailer'[q].claimed = emailer[q].claimed /\ emailer'[q].results = emailer[q].results
  BY DEF Found, Only
<1>2. \A q \in Process, n \in Notice : Holds(q, n)' <=> Holds(q, n)
  BY <1>1 DEF Holds
<1>3. ASSUME NEW q \in Process, NEW x \in emailer'[q].found, attempts[x[1]] = x[2]
      PROVE  status[x[1]] \in {"pending", "gone"}
  <2>1. CASE q = p
    <3>1. PICK n \in found : x = <<n, attempts[n]>>
      BY <1>3, <2>1 DEF Found
    <3> QED
      BY <3>1 DEF Found, IsPending, OneHolder
  <2>2. CASE q # p
    BY <1>3, <2>2 DEF Found, Only, OneHolder
  <2> QED
    BY <2>1, <2>2
<1>4. OneHolder'
  BY <1>1, <1>2, <1>3 DEF OneHolder, Found
<1>5. SentOK'
  BY <1>1, <1>2 DEF SentOK, Found
<1> QED
  BY <1>4, <1>5

LEMMA ClaimCalm ==
  ASSUME EmailsTyped, EmailsTyped', Rounds, OneHolder, SentOK,
         NEW p \in Process, NEW x \in emailer[p].found, Claimed(p, x)
  PROVE  (OneHolder /\ SentOK)'
<1> DEFINE m == x[1]
<1>0. m \in Notice /\ m = x[1]
  BY DEF EmailsTyped, Round
<1>a. \A q \in Process : emailer'[q].found \subseteq emailer[q].found
  BY DEF Claimed, Only
<1>1. CASE ~IsClaimable(x)
  <2>1. \A q \in Process : emailer'[q].claimed = emailer[q].claimed /\ emailer'[q].results = emailer[q].results
    BY <1>1 DEF Claimed, Only
  <2>2. \A q \in Process, n \in Notice : Holds(q, n)' <=> Holds(q, n)
    BY <2>1 DEF Holds
  <2>3. OneHolder'
    BY <1>1, <1>a, <2>1, <2>2 DEF OneHolder, Claimed
  <2>4. SentOK'
    BY <1>1, <2>1, <2>2 DEF SentOK, Claimed
  <2> QED
    BY <2>3, <2>4
<1>2. CASE IsClaimable(x)
  <2>1. status[m] = "pending"
    BY <1>2 DEF OneHolder, IsClaimable
  <2>2. \A q \in Process : ~Holds(q, m)
    BY <1>0, <2>1 DEF OneHolder
  <2>3. PICK b : emailer'[p].claimed = emailer[p].claimed \cup {<<m, b>>}
    BY <1>2 DEF Claimed
  <2>4. /\ \A q \in Process : emailer'[q].results = emailer[q].results
        /\ \A q \in Process \ {p} : emailer'[q].claimed = emailer[q].claimed
        /\ status' = [status EXCEPT ![m] = "sending"]
        /\ attempts' = [attempts EXCEPT ![m] = @ + 1]
        /\ lapsed' = {} /\ sends' = sends /\ disowned' = disowned
    BY <1>2 DEF Claimed, Only, OneHolder
  <2>5. \A q \in Process : Holds(q, m)' <=> q = p
    <3>1. <<m, b>> \in emailer'[p].claimed /\ <<m, b>>[1] = m
      BY <2>3
    <3>2. Holds(p, m)'
      BY <3>1 DEF Holds
    <3>3. \A q \in Process \ {p} : ~Holds(q, m)'
      BY <2>2, <2>4 DEF Holds
    <3> QED
      BY <3>2, <3>3
  <2>6. \A q \in Process, n \in Notice : n # m => (Holds(q, n)' <=> Holds(q, n))
    <3> SUFFICES ASSUME NEW q \in Process, NEW n \in Notice, n # m
                 PROVE  Holds(q, n)' <=> Holds(q, n)
      OBVIOUS
    <3>1. (\E y \in emailer'[q].claimed : y[1] = n) <=> (\E y \in emailer[q].claimed : y[1] = n)
      <4>1. CASE q = p
        <5>1. \A y : y \in emailer'[p].claimed <=> y \in emailer[p].claimed \/ y = <<m, b>>
          BY <2>3
        <5>2. <<m, b>>[1] = m
          OBVIOUS
        <5> QED
          BY <4>1, <5>1, <5>2
      <4>2. CASE q # p
        BY <2>4, <4>2
      <4> QED
        BY <4>1, <4>2
    <3> QED
      BY <2>4, <3>1 DEF Holds
  <2>7. \A y \in emailer[p].claimed \cup emailer[p].results : y[1] # m
    BY <2>2 DEF Holds
  <2>8. ASSUME NEW q \in Process
        PROVE  /\ \A y, z \in emailer'[q].claimed : y[1] = z[1] => y = z
               /\ \A y, z \in emailer'[q].results : y[1] = z[1] => y = z
               /\ \A y \in emailer'[q].claimed, z \in emailer'[q].results : y[1] # z[1]
    <3>1. CASE q = p
      <4>1. \A y \in emailer'[p].claimed : y \in emailer[p].claimed \/ y = <<m, b>>
        BY <2>3
      <4>2. <<m, b>>[1] = m
        OBVIOUS
      <4>3. \A y, z \in emailer'[p].claimed : y[1] = z[1] => y = z
        BY <2>7, <4>1, <4>2 DEF OneHolder
      <4>4. \A y \in emailer'[p].claimed, z \in emailer'[p].results : y[1] # z[1]
        BY <2>4, <2>7, <4>1, <4>2 DEF OneHolder
      <4>5. \A y, z \in emailer'[p].results : y[1] = z[1] => y = z
        BY <2>4 DEF OneHolder
      <4> QED
        BY <3>1, <4>3, <4>4, <4>5
    <3>2. CASE q # p
      BY <2>4, <3>2 DEF OneHolder
    <3> QED
      BY <3>1, <3>2
  <2>9. ASSUME NEW q \in Process, NEW y \in emailer'[q].found, attempts'[y[1]] = y[2]
        PROVE  status'[y[1]] \in {"pending", "gone"}
    <3>1. y \in emailer[q].found /\ y[1] \in Notice /\ y[2] \in Nat /\ y[2] <= attempts[y[1]]
      BY <1>a DEF EmailsTyped, Round, Rounds, FoundOK
    <3>2. y[1] # m
      <4> SUFFICES ASSUME y[1] = m PROVE FALSE
        OBVIOUS
      <4>1. attempts'[m] = attempts[m] + 1 /\ attempts[m] \in Nat
        BY <1>0, <2>4 DEF EmailsTyped
      <4>2. attempts[m] + 1 <= attempts[m]
        BY <2>9, <3>1, <4>1
      <4> QED
        BY <4>1, <4>2
    <3>3. attempts[y[1]] = y[2] /\ status'[y[1]] = status[y[1]]
      BY <2>9, <1>0, <2>4, <3>1, <3>2 DEF EmailsTyped
    <3> QED
      BY <3>1, <3>3 DEF OneHolder
  <2>10. \A n \in Notice : status'[n] = IF n = m THEN "sending" ELSE status[n]
    BY <1>0, <2>4 DEF EmailsTyped
  <2>11. OneHolder'
    <3>1. \A n \in Notice : status'[n] = "sending" => \E q \in Process : Holds(q, n)'
      BY <2>5, <2>6, <2>10 DEF OneHolder
    <3>2. \A n \in Notice, q \in Process : Holds(q, n)' => status'[n] \in {"sending", "gone"}
      BY <2>6, <2>10 DEF OneHolder
    <3>3. \A n \in Notice, q, r \in Process : Holds(q, n)' /\ Holds(r, n)' => q = r
      BY <2>5, <2>6 DEF OneHolder
    <3> QED
      BY <2>4, <2>8, <2>9, <3>1, <3>2, <3>3 DEF OneHolder
  <2>12. SentOK'
    <3> SUFFICES ASSUME NEW n \in Notice \ disowned
                 PROVE  /\ sends[n] <= 1
                        /\ sends[n] = 1 => status'[n] \notin {"pending", "failed"}
                        /\ sends[n] = 1 => \A q \in Process : Holds(q, n)' => <<n, "sent">> \in emailer'[q].results
      BY <2>4 DEF SentOK
    <3>1. CASE n = m
      BY <2>1, <2>10, <3>1 DEF SentOK
    <3>2. CASE n # m
      BY <2>4, <2>6, <2>10, <3>2 DEF SentOK
    <3> QED
      BY <3>1, <3>2
  <2> QED
    BY <2>11, <2>12
<1> QED
  BY <1>1, <1>2

LEMMA DetailsCalm ==
  ASSUME EmailsTyped, EmailsTyped', Rounds, OneHolder, SentOK, errors' = errors,
         NEW p \in Process, NEW rest \in SUBSET emailer[p].claimed, Detailed(p, rest)
  PROVE  (OneHolder /\ SentOK)'
<1> DEFINE notices == {x[1] : x \in emailer[p].claimed \ rest}
<1>0. emailer[p].results = {} /\ emailer'[p].results = {} /\ emailer'[p].claimed = rest
  BY DEF Detailed, Rounds, RoundOK
<1>a. \A q \in Process : /\ emailer'[q].results = emailer[q].results
                         /\ emailer'[q].claimed \subseteq emailer[q].claimed
                         /\ emailer'[q].found \subseteq emailer[q].found
  BY <1>0 DEF Detailed, Only
<1>1. \A n \in Notice : status'[n] = IF n \in notices /\ status[n] # "gone" THEN "failed" ELSE status[n]
  <2>1. CASE Stored(notices, "failed")
    <3>1. SetStatus(notices, "failed")
      BY <2>1 DEF Stored, EmailsTyped
    <3> HIDE DEF notices
    <3> QED BY <3>1 DEF SetStatus
  <2>2. CASE rest = emailer[p].claimed /\ UNCHANGED <<status, lapsed, errors>>
    BY <2>2
  <2> QED
    BY <2>1, <2>2 DEF Detailed
<1>2. lapsed' = {} /\ attempts' = attempts /\ sends' = sends /\ disowned' = disowned
  BY DEF Detailed, Stored, SetStatus, OneHolder
<1>3. \A n \in notices : Holds(p, n)
  BY DEF Holds
<1>4. \A q \in Process, n \in Notice : Holds(q, n)' => Holds(q, n) /\ n \notin notices
  <2> SUFFICES ASSUME NEW q \in Process, NEW n \in Notice, Holds(q, n)'
               PROVE  Holds(q, n) /\ n \notin notices
    OBVIOUS
  <2>1. Holds(q, n)
    BY <1>a DEF Holds
  <2>2. ASSUME n \in notices
        PROVE  FALSE
    <3>1. q = p
      BY <1>3, <2>1, <2>2 DEF OneHolder
    <3>2. PICK y \in rest : y[1] = n
      BY <1>0, <3>1 DEF Holds
    <3>3. PICK z \in emailer[p].claimed \ rest : z[1] = n
      BY <2>2
    <3> QED
      BY <3>2, <3>3 DEF Detailed
  <2> QED
    BY <2>1, <2>2
<1>5. \A q \in Process, n \in Notice : Holds(q, n) /\ n \notin notices => Holds(q, n)'
  <2> SUFFICES ASSUME NEW q \in Process, NEW n \in Notice, Holds(q, n), n \notin notices
               PROVE  Holds(q, n)'
    OBVIOUS
  <2>1. CASE q # p
    BY <2>1 DEF Holds, Detailed, Only
  <2>2. CASE q = p
    <3>1. PICK y \in emailer[p].claimed : y[1] = n
      BY <1>0, <2>2 DEF Holds
    <3>2. y \in rest
      BY <3>1
    <3> QED
      BY <1>0, <2>2, <3>1, <3>2 DEF Holds
  <2> QED
    BY <2>1, <2>2
<1> HIDE DEF notices
<1>6. OneHolder'
  <2>1. \A n \in Notice : status'[n] = "sending" => \E q \in Process : Holds(q, n)'
    BY <1>1, <1>5 DEF OneHolder
  <2>2. \A n \in Notice, q \in Process : Holds(q, n)' => status'[n] \in {"sending", "gone"}
    BY <1>1, <1>4 DEF OneHolder
  <2>3. \A n \in Notice, q, r \in Process : Holds(q, n)' /\ Holds(r, n)' => q = r
    BY <1>4 DEF OneHolder
  <2>4. \A q \in Process :
          /\ \A x, y \in emailer'[q].claimed : x[1] = y[1] => x = y
          /\ \A x, y \in emailer'[q].results : x[1] = y[1] => x = y
          /\ \A x \in emailer'[q].claimed, y \in emailer'[q].results : x[1] # y[1]
    BY <1>a DEF OneHolder
  <2>5. ASSUME NEW q \in Process, NEW x \in emailer'[q].found, attempts[x[1]] = x[2]
        PROVE  status'[x[1]] \in {"pending", "gone"}
    <3>1. x[1] \in Notice /\ status[x[1]] \in {"pending", "gone"}
      BY <1>a, <2>5 DEF OneHolder, EmailsTyped, Round
    <3>2. x[1] \in notices => status[x[1]] \in {"sending", "gone"}
      BY <1>3, <3>1 DEF OneHolder
    <3> QED
      BY <1>1, <3>1, <3>2
  <2> QED
    BY <1>2, <2>1, <2>2, <2>3, <2>4, <2>5 DEF OneHolder
<1>7. SentOK'
  <2> SUFFICES ASSUME NEW n \in Notice \ disowned
               PROVE  /\ sends[n] <= 1
                      /\ sends[n] = 1 => status'[n] \notin {"pending", "failed"}
                      /\ sends[n] = 1 => \A q \in Process : Holds(q, n)' => <<n, "sent">> \in emailer'[q].results
    BY <1>2 DEF SentOK
  <2>1. n \in notices => sends[n] # 1
    BY <1>0, <1>3 DEF SentOK
  <2> QED
    BY <1>1, <1>4, <1>a, <2>1 DEF SentOK
<1> QED
  BY <1>6, <1>7

LEMMA SendCalm ==
  ASSUME EmailsTyped, EmailsTyped', Rounds, OneHolder, SentOK,
         NEW p \in Process, NEW x \in emailer[p].claimed,
         NEW result \in {"sent", "failed", "pending"}, Sent(p, x, result)
  PROVE  (OneHolder /\ SentOK)'
<1> DEFINE m == x[1]
           e == <<m, result>>
<1>0. m \in Notice /\ e[1] = m /\ Holds(p, m)
  BY DEF EmailsTyped, Round, Holds
<1>1. /\ emailer'[p].claimed = emailer[p].claimed \ {x}
      /\ emailer'[p].results = emailer[p].results \cup {e}
      /\ \A q \in Process \ {p} : emailer'[q].claimed = emailer[q].claimed /\ emailer'[q].results = emailer[q].results
      /\ \A q \in Process : emailer'[q].found = emailer[q].found
      /\ status' = status /\ attempts' = attempts /\ lapsed' = lapsed
  BY DEF Sent, Only
<1> HIDE DEF e
<1>2. \A q \in Process, n \in Notice : Holds(q, n)' <=> Holds(q, n)
  <2> SUFFICES ASSUME NEW q \in Process, NEW n \in Notice
               PROVE  Holds(q, n)' <=> Holds(q, n)
    OBVIOUS
  <2>1. CASE q # p
    BY <1>1, <2>1 DEF Holds
  <2>2. CASE q = p
    <3>1. \A y : /\ y \in emailer'[p].claimed <=> y \in emailer[p].claimed /\ y # x
                 /\ y \in emailer'[p].results <=> y \in emailer[p].results \/ y = e
      BY <1>1
    <3> QED
      BY <1>0, <2>2, <3>1 DEF Holds
  <2> QED
    BY <2>1, <2>2
<1>3. ASSUME NEW q \in Process
      PROVE  /\ \A y, z \in emailer'[q].claimed : y[1] = z[1] => y = z
             /\ \A y, z \in emailer'[q].results : y[1] = z[1] => y = z
             /\ \A y \in emailer'[q].claimed, z \in emailer'[q].results : y[1] # z[1]
  <2>1. CASE q # p
    BY <1>1, <2>1 DEF OneHolder
  <2>2. CASE q = p
    <3>1. \A y : /\ y \in emailer'[p].claimed <=> y \in emailer[p].claimed /\ y # x
                 /\ y \in emailer'[p].results <=> y \in emailer[p].results \/ y = e
      BY <1>1
    <3>2. /\ \A y \in emailer[p].results : y[1] # m
          /\ \A y \in emailer'[p].claimed : y[1] # m
      BY <3>1 DEF OneHolder
    <3>3. \A y, z \in emailer'[p].claimed : y[1] = z[1] => y = z
      BY <3>1 DEF OneHolder
    <3>4. \A y, z \in emailer'[p].results : y[1] = z[1] => y = z
      BY <1>0, <3>1, <3>2 DEF OneHolder
    <3>5. \A y \in emailer'[p].claimed, z \in emailer'[p].results : y[1] # z[1]
      BY <1>0, <3>1, <3>2 DEF OneHolder
    <3> QED
      BY <2>2, <3>3, <3>4, <3>5
  <2> QED
    BY <2>1, <2>2
<1>4. OneHolder'
  BY <1>1, <1>2, <1>3 DEF OneHolder
<1>5. ASSUME m \notin disowned PROVE sends[m] = 0
  <2>1. sends[m] # 1
    <3> SUFFICES ASSUME sends[m] = 1 PROVE FALSE
      OBVIOUS
    <3>1. <<m, "sent">> \in emailer[p].results
      BY <1>0, <1>5 DEF SentOK
    <3>2. <<m, "sent">>[1] = m
      OBVIOUS
    <3> QED
      BY <3>1, <3>2 DEF OneHolder
  <2>2. sends[m] \in Nat /\ sends[m] <= 1
    BY <1>0, <1>5 DEF SentOK, EmailsTyped
  <2> QED
    BY <2>1, <2>2
<1>6. SentOK'
  <2> SUFFICES ASSUME NEW n \in Notice \ disowned'
               PROVE  /\ sends'[n] <= 1
                      /\ sends'[n] = 1 => status[n] \notin {"pending", "failed"}
                      /\ sends'[n] = 1 => \A q \in Process : Holds(q, n)' => <<n, "sent">> \in emailer'[q].results
    BY <1>1 DEF SentOK
  <2>0. (\A q \in Process : emailer[q].results \subseteq emailer'[q].results) /\ n \in Notice \ disowned
    BY <1>1 DEF Sent
  <2>1. CASE n = m /\ result = "sent"
    <3>1. sends'[n] = 1
      BY <1>0, <1>5, <2>0, <2>1 DEF Sent, EmailsTyped
    <3>2. status[n] \in {"sending", "gone"}
      BY <1>0, <2>1 DEF OneHolder
    <3>3. \A q \in Process : Holds(q, n)' => q = p
      BY <1>0, <1>2, <2>1 DEF OneHolder
    <3>4. <<n, "sent">> \in emailer'[p].results
      BY <1>1, <2>1 DEF e
    <3> QED
      BY <3>1, <3>2, <3>3, <3>4
  <2>2. CASE ~(n = m /\ result = "sent")
    <3>1. sends'[n] = sends[n]
      BY <1>0, <2>0, <2>2 DEF Sent, EmailsTyped
    <3> QED
      BY <1>2, <2>0, <3>1 DEF SentOK
  <2> QED
    BY <2>1, <2>2
<1> QED
  BY <1>4, <1>6

LEMMA ReportCalm ==
  ASSUME EmailsTyped, EmailsTyped', Rounds, OneHolder, SentOK, errors' = errors,
         NEW p \in Process, NEW s \in {"sent", "failed", "pending"}, Reported(p, s)
  PROVE  (OneHolder /\ SentOK)'
<1> DEFINE notices == {x[1] : x \in Kind(p, s)}
<1>0. emailer[p].claimed = {} /\ emailer'[p].claimed = {} /\ emailer'[p].results = emailer[p].results \ Kind(p, s)
  BY DEF Reported, Rounds, RoundOK
<1>a. \A q \in Process : /\ emailer'[q].results \subseteq emailer[q].results
                         /\ emailer'[q].claimed = emailer[q].claimed
                         /\ emailer'[q].found = emailer[q].found
  BY <1>0 DEF Reported, Only
<1>1. /\ \A n \in Notice : status'[n] = IF n \in notices /\ status[n] # "gone" THEN s ELSE status[n]
      /\ lapsed' = {}
  <2>1. Stored(notices, s)
    BY DEF Reported
  <2> HIDE DEF notices
  <2>2. SetStatus(notices, s)
    BY <2>1 DEF Stored, EmailsTyped
  <2> QED
    BY <2>2 DEF SetStatus, OneHolder
<1>2. attempts' = attempts /\ sends' = sends /\ disowned' = disowned
  BY DEF Reported
<1>3. \A n \in notices : Holds(p, n)
  BY DEF Holds, Kind
<1>4. \A q \in Process, n \in Notice : Holds(q, n)' => Holds(q, n) /\ n \notin notices
  <2> SUFFICES ASSUME NEW q \in Process, NEW n \in Notice, Holds(q, n)'
               PROVE  Holds(q, n) /\ n \notin notices
    OBVIOUS
  <2>1. Holds(q, n)
    BY <1>a DEF Holds
  <2>2. ASSUME n \in notices
        PROVE  FALSE
    <3>1. q = p
      BY <1>3, <2>1, <2>2 DEF OneHolder
    <3>2. PICK y \in emailer[p].results \ Kind(p, s) : y[1] = n
      BY <1>0, <3>1 DEF Holds
    <3>3. PICK z \in Kind(p, s) : z[1] = n
      BY <2>2
    <3> QED
      BY <3>2, <3>3 DEF OneHolder, Kind
  <2> QED
    BY <2>1, <2>2
<1>5. \A q \in Process, n \in Notice : Holds(q, n) /\ n \notin notices => Holds(q, n)'
  <2> SUFFICES ASSUME NEW q \in Process, NEW n \in Notice, Holds(q, n), n \notin notices
               PROVE  Holds(q, n)'
    OBVIOUS
  <2>1. CASE q # p
    BY <2>1 DEF Holds, Reported, Only
  <2>2. CASE q = p
    <3>1. PICK y \in emailer[p].results : y[1] = n
      BY <1>0, <2>2 DEF Holds
    <3>2. y \in emailer'[p].results
      BY <1>0, <3>1
    <3> QED
      BY <2>2, <3>1, <3>2 DEF Holds
  <2> QED
    BY <2>1, <2>2
<1>b. ASSUME NEW n \in notices, n \in Notice \ disowned, sends[n] = 1
      PROVE  s = "sent"
  <2>1. PICK z \in Kind(p, s) : z[1] = n
    BY <1>b
  <2>2. <<n, "sent">> \in emailer[p].results /\ z \in emailer[p].results /\ z[2] = s
    BY <1>b, <1>3 DEF SentOK, Kind
  <2>3. z = <<n, "sent">>
    BY <2>1, <2>2 DEF OneHolder
  <2> QED
    BY <2>2, <2>3
<1> HIDE DEF notices
<1>6. OneHolder'
  <2>1. \A n \in Notice : status'[n] = "sending" => \E q \in Process : Holds(q, n)'
    BY <1>1, <1>5 DEF OneHolder
  <2>2. \A n \in Notice, q \in Process : Holds(q, n)' => status'[n] \in {"sending", "gone"}
    BY <1>1, <1>4 DEF OneHolder
  <2>3. \A n \in Notice, q, r \in Process : Holds(q, n)' /\ Holds(r, n)' => q = r
    BY <1>4 DEF OneHolder
  <2>4. \A q \in Process :
          /\ \A x, y \in emailer'[q].claimed : x[1] = y[1] => x = y
          /\ \A x, y \in emailer'[q].results : x[1] = y[1] => x = y
          /\ \A x \in emailer'[q].claimed, y \in emailer'[q].results : x[1] # y[1]
    BY <1>a DEF OneHolder
  <2>5. ASSUME NEW q \in Process, NEW x \in emailer'[q].found, attempts[x[1]] = x[2]
        PROVE  status'[x[1]] \in {"pending", "gone"}
    <3>1. x[1] \in Notice /\ status[x[1]] \in {"pending", "gone"}
      BY <1>a, <2>5 DEF OneHolder, EmailsTyped, Round
    <3>2. x[1] \in notices => status[x[1]] \in {"sending", "gone"}
      BY <1>3, <3>1 DEF OneHolder
    <3> QED
      BY <1>1, <3>1, <3>2
  <2> QED
    BY <1>1, <1>2, <2>1, <2>2, <2>3, <2>4, <2>5 DEF OneHolder
<1>7. SentOK'
  <2> SUFFICES ASSUME NEW n \in Notice \ disowned
               PROVE  /\ sends[n] <= 1
                      /\ sends[n] = 1 => status'[n] \notin {"pending", "failed"}
                      /\ sends[n] = 1 => \A q \in Process : Holds(q, n)' => <<n, "sent">> \in emailer'[q].results
    BY <1>2 DEF SentOK
  <2>1. sends[n] = 1 => status'[n] \notin {"pending", "failed"}
    BY <1>1, <1>b DEF SentOK
  <2>2. ASSUME sends[n] = 1, NEW q \in Process, Holds(q, n)'
        PROVE  <<n, "sent">> \in emailer'[q].results
    <3>1. <<n, "sent">> \in emailer[q].results /\ n \notin notices
      BY <1>4, <2>2 DEF SentOK
    <3>2. CASE q = p
      <4>1. <<n, "sent">>[1] = n
        OBVIOUS
      <4>2. <<n, "sent">> \notin Kind(p, s)
        BY <3>1, <4>1 DEF notices
      <4> QED
        BY <1>0, <3>1, <3>2, <4>2
    <3>3. CASE q # p
      BY <3>1, <3>3 DEF Reported, Only
    <3> QED
      BY <3>2, <3>3
  <2> QED
    BY <2>1, <2>2 DEF SentOK
<1> QED
  BY <1>6, <1>7

LEMMA ExpireCalm ==
  ASSUME EmailsTyped, OneHolder, SentOK, NEW m \in Notice, expire(m)
  PROVE  (OneHolder /\ SentOK)'
<1>1. \A q \in Process, n \in Notice : Holds(q, n)' <=> Holds(q, n)
  BY DEF Holds, expire
<1>2. \A n \in Notice : status'[n] = IF n = m THEN "gone" ELSE status[n]
  BY DEF expire, EmailsTyped
<1>3. \A q \in Process : \A x \in emailer[q].found : x[1] \in Notice
  BY DEF EmailsTyped, Round
<1>4. OneHolder'
  BY <1>1, <1>2, <1>3 DEF OneHolder, expire
<1>5. SentOK'
  BY <1>1, <1>2 DEF SentOK, expire
<1> QED
  BY <1>4, <1>5

(* No claim lapses: those that were made are held.                         *)
LEMMA LapseCalm ==
  ASSUME EmailsTyped, OneHolder, NEW m \in Notice, lapse(m), slow' = slow
  PROVE  FALSE
<1>1. Held(m)
  BY DEF lapse, OneHolder, Holds, Held
<1>2. slow' = slow + 1 /\ slow \in Nat
  BY <1>1 DEF lapse, EmailsTyped
<1> QED
  BY <1>2

LEMMA CalmNext ==
  ASSUME EmailsTyped, EmailsTyped', Rounds, CalmOK, [EmailsNext]_emailsVars
  PROVE  CalmOK'
<1> SUFFICES ASSUME Calm' PROVE (OneHolder /\ SentOK)'
  BY DEF CalmOK
<1>0. crashes \in Nat /\ errors \in Nat /\ slow \in Nat /\ crashes' = 0 /\ errors' = 0 /\ slow' = 0
  BY DEF EmailsTyped, Calm
<1>1. ASSUME NEW p \in Process, StepOf(p)
      PROVE  (OneHolder /\ SentOK)'
  <2>1. crashes' = crashes \/ crashes' = crashes + 1
    BY <1>1 DEF StepOf, Found, Claimed, Detailed, Sent, Reported, Ended
  <2>2. errors' = errors \/ errors' = errors + 1
    BY <1>1 DEF StepOf, Found, Claimed, Detailed, Sent, Reported, Ended, Stored
  <2>3. slow' = slow
    BY <1>1 DEF StepOf, Found, Claimed, Detailed, Sent, Reported, Ended
  <2>4. crashes = 0 /\ errors = 0 /\ slow = 0
    BY <1>0, <2>1, <2>2, <2>3
  <2>5. OneHolder /\ SentOK /\ errors' = errors
    BY <1>0, <2>4 DEF CalmOK, Calm
  <2>6. ~Ended(p)
    BY <1>0, <2>4 DEF Ended
  <2> QED
    BY <1>1, <2>5, <2>6, FindCalm, ClaimCalm, DetailsCalm, SendCalm, ReportCalm DEF StepOf
<1>2. ASSUME NEW n \in Notice, lapse(n)
      PROVE  FALSE
  <2>1. /\ crashes' = crashes /\ errors' = errors /\ (slow' = slow \/ slow' = slow + 1)
    BY <1>2 DEF lapse
  <2>2. crashes = 0 /\ errors = 0 /\ slow = 0
    BY <1>0, <2>1
  <2> QED
    BY <1>0, <1>2, <2>2, LapseCalm DEF CalmOK, Calm
<1>3. ASSUME NEW n \in Notice, expire(n)
      PROVE  (OneHolder /\ SentOK)'
  BY <1>0, <1>3, ExpireCalm DEF CalmOK, Calm, expire
<1>4. CASE UNCHANGED emailsVars
  BY <1>4 DEF emailsVars, CalmOK, Calm, OneHolder, SentOK, Holds
<1> QED
  BY <1>1, <1>2, <1>3, <1>4, StepFacts

LEMMA CalmInit ==
  ASSUME EmailsInit
  PROVE  CalmOK
<1>1. \A p \in Process : emailer[p].found = {} /\ emailer[p].claimed = {} /\ emailer[p].results = {}
  BY DEF EmailsInit, Asleep
<1>2. \A n \in Notice : status[n] = "pending" /\ sends[n] = 0
  BY DEF EmailsInit
<1>3. OneHolder
  BY <1>1, <1>2 DEF EmailsInit, OneHolder, Holds
<1>4. SentOK
  BY <1>2 DEF SentOK
<1> QED
  BY <1>3, <1>4 DEF CalmOK

(* However the rounds of any number of processes interleave, the email of  *)
(* a notice is sent at most once, and stays sent, while no process stops,  *)
(* no database call fails and no claim lapses early, unless its own result *)
(* was an error: two processes that found a notice never both claim it.    *)
THEOREM EmailsAreSentOnce == EmailsSpec => []SentOnce
<1>1. EmailsTyped /\ Rounds /\ CalmOK => SentOnce
  BY DEF SentOnce, CalmOK, Calm, SentOK
<1>2. EmailsTyped /\ Rounds /\ CalmOK /\ [EmailsNext]_emailsVars => (EmailsTyped /\ Rounds /\ CalmOK)'
  BY TypedNext, RoundsNext, CalmNext
<1> QED
  BY <1>1, <1>2, TypedInit, CalmInit, PTL DEF EmailsSpec
=============================================================================
