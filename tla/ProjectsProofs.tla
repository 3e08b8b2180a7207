--------------------------- MODULE ProjectsProofs ---------------------------
(***************************************************************************)
(* Projects is type-correct.  Served one request at a time it keeps the    *)
(* admin a member, tokens with members and former members told; served     *)
(* many at a time, a personal allowance is given once for each time a      *)
(* superuser deleted the project, and the first life of a project leaves a *)
(* copy when it is deleted.                                                *)
(***************************************************************************)
EXTENDS Projects, FiniteSetTheorems, TLAPS

(* What a task has once it has come to some place; a task that is not      *)
(* served is idle.                                                         *)
TaskOK(t) ==
  /\ task[t].pc # "idle" => task[t].project \in Project
  /\ task[t].pc = "insert_token" => task[t].user \in User
  /\ task[t].pc = "insert_personal" => scope.owner[task[t].project] # None
  /\ t \notin scope.tasks => task[t].pc = "idle"

TasksOK ==
  /\ task \in [Task -> TaskState]
  /\ \A t \in Task : TaskOK(t)

TablesOK ==
  /\ scope \in Scopes
  /\ projects \in [Project -> ProjectRecord \cup {None}]
  /\ deleted \in [Project -> Nat]
  /\ tokens \in SUBSET (Project \X User)
  /\ untold \in SUBSET (Project \X User) /\ unheard \in SUBSET untold
  /\ orphans \in SUBSET Project
  /\ creations \in [Project -> Nat] /\ erasures \in [Project -> Nat]
  /\ changes \in Nat /\ lost \in Nat

Typed == TablesOK /\ TasksOK

(* A project that is there was created.                                    *)
Created == \A p \in Project : projects[p] # None => creations[p] > 0

(* A copy is of a life the project has had, and so is what a deletion read *)
(* of it.                                                                  *)
LifeOK(t) ==
  task[t].pc \in {"delete_tokens", "delete_project", "keep_copy"} =>
    1 <= task[t].life /\ task[t].life <= creations[task[t].project]

Lives ==
  /\ \A p \in Project : deleted[p] <= creations[p]
  /\ \A t \in Task : LifeOK(t)

Kept == Created /\ Lives /\ GoneIsKept

(* The deletions of p that have yet to take it away.                       *)
Deleting(p) ==
  {t \in scope.tasks : task[t].pc \in {"delete_tokens", "delete_project"} /\ task[t].project = p}

(* A personal project that is not there may be created, and each deletion  *)
(* under way may make it so; a shared one is created once.                 *)
Allowances ==
  \A p \in Project :
    IF scope.owner[p] = None THEN creations[p] <= 1
    ELSE creations[p] + (IF projects[p] = None THEN 1 ELSE 0) + Cardinality(Deleting(p))
           <= 1 + erasures[p]

(* What a request that is served alone knows of its project: it is as it   *)
(* was read, so that what will be written has its admin among its members, *)
(* and whom the request removes is who will be missing.                    *)
UpdateOK(t) ==
  LET p == task[t].project IN
  /\ projects[p] # None
  /\ task[t].old = projects[p].members
  /\ (IF task[t].admin = None THEN projects[p].admin ELSE task[t].admin) \in task[t].members
  /\ ~task[t].lists => task[t].members = task[t].old
  /\ task[t].user # None => task[t].old \ task[t].members = {task[t].user}

Admins == \A p \in Project : projects[p] # None => projects[p].admin \in projects[p].members

Holders == \A x \in tokens : projects[x[1]] # None /\ x[2] \in projects[x[1]].members

AloneOK(t) ==
  LET p == task[t].project IN
  /\ task[t].pc \in {"revoke_tokens", "write"} => UpdateOK(t)
  /\ task[t].pc = "write" => \A x \in tokens : x[1] = p => x[2] \in task[t].members
  /\ task[t].pc = "delete_project" => \A x \in tokens : x[1] # p
  /\ task[t].pc = "insert_token" => projects[p] # None /\ task[t].user \in projects[p].members

Alone == OneAtATime => Admins /\ Holders /\ \A t \in Task : AloneOK(t)

---------------------------------------------------------------------------
(* Types.                                                                  *)

LEMMA TypedIsTypeOK == Typed => TypeOK
  BY DEF Typed, TablesOK, TasksOK, TaskOK, TypeOK

(* What the assumption says of the instance.                               *)
LEMMA ScopeOK ==
  ASSUME TablesOK
  PROVE  /\ scope.owner \in [Project -> User \cup {None}]
         /\ scope.users \subseteq User
         /\ scope.tasks \subseteq Task /\ IsFiniteSet(scope.tasks)
  BY ProjectsAssumption DEF TablesOK

(* A task that is served becomes another that has what it needs.           *)
LEMMA BecomeOK ==
  ASSUME Typed, NEW t \in scope.tasks, NEW S \in TaskState,
         S.pc # "idle" => S.project \in Project,
         S.pc = "insert_token" => S.user \in User,
         S.pc = "insert_personal" => scope.owner[S.project] # None,
         task' = [task EXCEPT ![t] = S], scope' = scope
  PROVE  TasksOK'
<1>1. t \in Task
  BY ScopeOK DEF Typed
<1>2. task' \in [Task -> TaskState] /\ task'[t] = S /\ \A u \in Task \ {t} : task'[u] = task[u]
  BY <1>1 DEF Typed, TasksOK
<1>3. ASSUME NEW u \in Task PROVE TaskOK(u)'
  <2>1. CASE u = t
    BY <1>2, <2>1 DEF TaskOK
  <2>2. CASE u # t
    BY <1>2, <2>2 DEF TaskOK, Typed, TasksOK
  <2> QED
    BY <2>1, <2>2
<1> QED
  BY <1>2, <1>3 DEF TasksOK

(* A task that is served becomes idle, or goes on with what it has.        *)
LEMMA IdleOK ==
  ASSUME Typed, NEW t \in scope.tasks, Become(t, Idle), scope' = scope
  PROVE  TasksOK'
<1>1. Idle \in TaskState /\ Idle.pc = "idle"
  BY DEF Idle, TaskState
<1> QED
  BY <1>1, BecomeOK DEF Become

LEMMA GotoOK ==
  ASSUME Typed, NEW t \in scope.tasks, task[t].pc # "idle", scope' = scope,
         NEW pc \in {"write", "notify", "delete_project", "keep_copy"}, Goto(t, pc)
  PROVE  TasksOK'
<1> DEFINE S == [task[t] EXCEPT !.pc = pc]
<1>1. task[t] \in TaskState /\ task[t].project \in Project
  BY ScopeOK DEF Typed, TasksOK, TaskOK
<1>2. S \in TaskState /\ S.pc = pc /\ S.project = task[t].project
  BY <1>1 DEF TaskState
<1>3. task' = [task EXCEPT ![t] = S]
  BY DEF Goto
<1> QED
  BY <1>1, <1>2, <1>3, BecomeOK

LEMMA InitTyped == Init => Typed
<1> SUFFICES ASSUME Init PROVE Typed
  OBVIOUS
<1>1. Idle \in TaskState /\ Idle.pc = "idle"
  BY DEF Idle, TaskState
<1>2. TasksOK
  BY <1>1 DEF Init, TasksOK, TaskOK
<1>3. TablesOK
  BY DEF Init, TablesOK
<1> QED
  BY <1>2, <1>3 DEF Typed

LEMMA UnchangedTyped ==
  ASSUME Typed, UNCHANGED vars
  PROVE  Typed'
  BY DEF Typed, TablesOK, TasksOK, TaskOK, vars

(* The requests that begin keep the types.                                 *)
LEMMA BeginTyped ==
  ASSUME Typed, NEW t \in scope.tasks, NEW p \in Project
  PROVE  /\ \A u \in scope.users : remove_member(t, p, u) => Typed'
         /\ \A members \in (SUBSET scope.users) \cup {None}, admin \in scope.users \cup {None},
              active \in BOOLEAN \cup {None} : update_project(t, p, members, admin, active) => Typed'
         /\ \A superuser \in BOOLEAN : delete_project(t, p, superuser) => Typed'
         /\ \A u \in scope.users : create_app_token(t, p, u) => Typed'
         /\ ensure_personal_project(t, p) => Typed'
<1>0. /\ scope.users \subseteq User /\ t \in Task
      /\ projects[p] # None => projects[p] \in ProjectRecord
  BY ScopeOK DEF Typed, TablesOK
<1>1. ASSUME NEW u \in scope.users, remove_member(t, p, u) PROVE Typed'
  <2> DEFINE S == [Starting("revoke_tokens", p) EXCEPT
                     !.user = u, !.old = projects[p].members,
                     !.members = projects[p].members \ {u}, !.lists = TRUE]
  <2>1. projects[p].members \in SUBSET User
    BY <1>0, <1>1 DEF remove_member, ProjectRecord
  <2>2. S \in TaskState /\ S.pc = "revoke_tokens" /\ S.project = p
    BY <1>0, <2>1 DEF Starting, Idle, TaskState
  <2>3. task' = [task EXCEPT ![t] = S] /\ scope' = scope
    BY <1>1 DEF remove_member, Become
  <2>4. TasksOK'
    BY <2>2, <2>3, BecomeOK
  <2> QED
    BY <1>1, <2>4 DEF remove_member, Change, Typed, TablesOK
<1>2. ASSUME NEW members \in (SUBSET scope.users) \cup {None}, NEW admin \in scope.users \cup {None},
             NEW active \in BOOLEAN \cup {None}, update_project(t, p, members, admin, active)
      PROVE  Typed'
  <2> DEFINE old == projects[p].members
             newAdmin == IF admin = None THEN projects[p].admin ELSE admin
             new == (IF members = None THEN old ELSE members) \cup {newAdmin}
             S(lists) == [Starting(IF lists THEN "revoke_tokens" ELSE "write", p) EXCEPT
                            !.old = old, !.members = new, !.lists = lists,
                            !.admin = newAdmin, !.active = active]
  <2>1. old \in SUBSET User /\ newAdmin \in User /\ new \in SUBSET User
    BY <1>0, <1>2 DEF update_project, ProjectRecord
  <2>2. PICK lists \in BOOLEAN : task' = [task EXCEPT ![t] = S(lists)]
    BY <1>2 DEF update_project, Become
  <2>3. S(lists) \in TaskState /\ S(lists).pc \in {"revoke_tokens", "write"} /\ S(lists).project = p
    <3> HIDE DEF old, newAdmin, new
    <3> QED BY <2>1 DEF Starting, Idle, TaskState
  <2>4. scope' = scope
    BY <1>2 DEF update_project
  <2>5. TasksOK'
    <3> HIDE DEF S
    <3> QED BY <2>2, <2>3, <2>4, BecomeOK
  <2> QED
    BY <1>2, <2>5 DEF update_project, Change, Typed, TablesOK
<1>3. ASSUME NEW superuser \in BOOLEAN, delete_project(t, p, superuser) PROVE Typed'
  <2> DEFINE S == [Starting("delete_tokens", p) EXCEPT !.life = creations[p]]
  <2>1. S \in TaskState /\ S.pc = "delete_tokens" /\ S.project = p
    BY DEF Starting, Idle, TaskState, Typed, TablesOK
  <2>2. TasksOK'
    BY <1>3, <2>1, BecomeOK DEF delete_project, Become
  <2> QED
    BY <1>3, <2>2 DEF delete_project, Change, Typed, TablesOK
<1>4. ASSUME NEW u \in scope.users, create_app_token(t, p, u) PROVE Typed'
  <2> DEFINE S == [Starting("insert_token", p) EXCEPT !.user = u]
  <2>1. S \in TaskState /\ S.pc = "insert_token" /\ S.project = p /\ S.user = u
    BY <1>0 DEF Starting, Idle, TaskState
  <2>2. TasksOK'
    BY <1>0, <1>4, <2>1, BecomeOK DEF create_app_token, Become
  <2> QED
    BY <1>4, <2>2 DEF create_app_token, Typed, TablesOK
<1>5. ASSUME ensure_personal_project(t, p) PROVE Typed'
  <2>1. Starting("insert_personal", p) \in TaskState /\ Starting("insert_personal", p).pc = "insert_personal"
        /\ Starting("insert_personal", p).project = p
    BY DEF Starting, Idle, TaskState
  <2>2. TasksOK'
    BY <1>5, <2>1, BecomeOK DEF ensure_personal_project, Become
  <2> QED
    BY <1>5, <2>2 DEF ensure_personal_project, Change, Typed, TablesOK
<1> QED
  BY <1>1, <1>2, <1>3, <1>4, <1>5

(* What an update writes is a project.                                     *)
LEMMA WrittenOK ==
  ASSUME Typed, NEW t \in scope.tasks, task[t].pc = "write", projects[task[t].project] # None
  PROVE  Written(t, task[t].project) \in ProjectRecord
<1>1. task[t] \in TaskState /\ projects[task[t].project] \in ProjectRecord
  BY ScopeOK DEF Typed, TablesOK, TasksOK, TaskOK
<1> QED
  BY <1>1 DEF Written, TaskState, ProjectRecord

(* So do the steps of the requests under way.                              *)
LEMMA TaskStepTyped ==
  ASSUME Typed, NEW t \in scope.tasks, TaskStep(t)
  PROVE  Typed'
<1>0. /\ t \in Task /\ task[t] \in TaskState
      /\ task[t].pc # "idle" => task[t].project \in Project
  BY ScopeOK DEF Typed, TasksOK, TaskOK
<1>1. CASE delete_non_member_tokens(t)
  <2>1. TasksOK'
    BY <1>1, GotoOK DEF delete_non_member_tokens
  <2> QED
    BY <1>1, <2>1 DEF delete_non_member_tokens, Typed, TablesOK
<1>2. CASE write_project(t)
  <2> DEFINE p == task[t].project
  <2>1. CASE projects[p] = None
    <3>1. TasksOK'
      BY <1>2, <2>1, IdleOK DEF write_project
    <3> QED
      BY <1>2, <2>1, <3>1 DEF write_project, Typed, TablesOK
  <2>2. CASE projects[p] # None
    <3>1. /\ Written(t, p) \in ProjectRecord /\ p \in Project
          /\ projects[p] \in ProjectRecord /\ task[t].pc = "write"
      BY <1>0, <1>2, <2>2, WrittenOK DEF write_project, Typed, TablesOK
    <3> DEFINE S == [task[t] EXCEPT !.pc = "notify", !.members = Written(t, p).members]
    <3>2. S \in TaskState /\ S.pc = "notify" /\ S.project = p
      BY <1>0, <3>1 DEF TaskState, ProjectRecord
    <3>3. task' = [task EXCEPT ![t] = S] /\ scope' = scope
      BY <1>2, <2>2 DEF write_project
    <3>4. TasksOK'
      BY <3>1, <3>2, <3>3, BecomeOK
    <3>5. untold' \in SUBSET (Project \X User) /\ unheard' \in SUBSET untold'
      BY <1>2, <2>2, <3>1 DEF write_project, Dropped, Typed, TablesOK, ProjectRecord
    <3>6. projects' \in [Project -> ProjectRecord \cup {None}]
      BY <1>2, <2>2, <3>1 DEF write_project, Typed, TablesOK
    <3> QED
      BY <1>2, <3>4, <3>5, <3>6 DEF write_project, Typed, TablesOK
  <2> QED
    BY <2>1, <2>2
<1>3. CASE notify_membership_change(t)
  <2>1. TasksOK'
    BY <1>3, IdleOK DEF notify_membership_change
  <2> QED
    BY <1>3, <2>1 DEF notify_membership_change, Typed, TablesOK
<1>4. CASE delete_project_tokens(t)
  <2>1. TasksOK'
    BY <1>4, GotoOK DEF delete_project_tokens
  <2> QED
    BY <1>4, <2>1 DEF delete_project_tokens, Typed, TablesOK
<1>5. CASE delete_from_projects(t)
  <2>1. TasksOK'
    BY <1>5, GotoOK DEF delete_from_projects
  <2> QED
    BY <1>0, <1>5, <2>1 DEF delete_from_projects, Typed, TablesOK
<1>6. CASE insert_deleted_project(t)
  <2>1. TasksOK'
    BY <1>6, IdleOK DEF insert_deleted_project
  <2>2. task[t].life \in Nat
    BY <1>0 DEF TaskState
  <2>3. deleted' \in [Project -> Nat]
    BY <1>6, <2>2 DEF insert_deleted_project, Typed, TablesOK
  <2> QED
    BY <1>6, <2>1, <2>3 DEF insert_deleted_project, Typed, TablesOK
<1>7. CASE insert_token(t)
  <2>1. TasksOK'
    BY <1>7, IdleOK DEF insert_token
  <2>2. task[t].user \in User
    BY <1>0, <1>7 DEF insert_token, Typed, TasksOK, TaskOK
  <2> QED
    BY <1>0, <1>7, <2>1, <2>2 DEF insert_token, Typed, TablesOK
<1>8. CASE insert_personal_project(t)
  <2> DEFINE p == task[t].project
             record == [admin |-> scope.owner[p], members |-> {scope.owner[p]}, active |-> TRUE]
  <2>1. TasksOK'
    BY <1>8, IdleOK DEF insert_personal_project
  <2>2. p \in Project /\ scope.owner[p] \in User
    BY <1>0, <1>8, ScopeOK DEF insert_personal_project, Typed, TasksOK, TaskOK
  <2>3. record \in ProjectRecord
    BY <2>2 DEF ProjectRecord
  <2>4. projects' \in [Project -> ProjectRecord \cup {None}] /\ creations' \in [Project -> Nat]
    BY <1>8, <2>2, <2>3 DEF insert_personal_project, Typed, TablesOK
  <2> QED
    BY <1>8, <2>1, <2>4 DEF insert_personal_project, Typed, TablesOK
<1> QED
  BY <1>1, <1>2, <1>3, <1>4, <1>5, <1>6, <1>7, <1>8 DEF TaskStep

(* So does every step.                                                     *)
LEMMA NextTyped ==
  ASSUME Typed, Next
  PROVE  Typed'
<1>0. scope.users \subseteq User /\ scope.tasks \subseteq Task
  BY ScopeOK DEF Typed
<1>1. ASSUME NEW t \in scope.tasks, NEW p \in Project, NEW admin \in scope.users,
             NEW members \in SUBSET scope.users, create_project(t, p, admin, members)
      PROVE  Typed'
  <2>1. [admin |-> admin, members |-> members \cup {admin}, active |-> TRUE] \in ProjectRecord
    BY <1>0 DEF ProjectRecord
  <2>2. projects' \in [Project -> ProjectRecord \cup {None}] /\ creations' \in [Project -> Nat]
    BY <1>1, <2>1 DEF create_project, Typed, TablesOK
  <2> QED
    BY <1>1, <2>2 DEF create_project, Change, Typed, TablesOK, TasksOK, TaskOK
<1>2. ASSUME NEW t \in scope.tasks, NEW p \in Project, NEW u \in scope.users, approve(t, p, u)
      PROVE  Typed'
  <2>1. projects[p] \in ProjectRecord
    BY <1>2 DEF approve, Typed, TablesOK
  <2>2. /\ [projects[p] EXCEPT !.members = @ \cup {u}] \in ProjectRecord
        /\ [projects[p] EXCEPT !.admin = u, !.members = @ \cup {u}] \in ProjectRecord
    BY <1>0, <2>1 DEF ProjectRecord
  <2>3. projects' \in [Project -> ProjectRecord \cup {None}]
    BY <1>2, <2>2 DEF approve, add_member, set_admin, Typed, TablesOK
  <2> QED
    BY <1>2, <2>3 DEF approve, Change, Typed, TablesOK, TasksOK, TaskOK
<1>3. ASSUME NEW t \in scope.tasks, NEW x \in Project \X scope.users, delete_app_token(t, x)
      PROVE  Typed'
  BY <1>3 DEF delete_app_token, Typed, TablesOK, TasksOK, TaskOK
<1>4. ASSUME NEW t \in scope.tasks, lose_task(t)
      PROVE  Typed'
  <2>1. TasksOK'
    BY <1>4, IdleOK DEF lose_task
  <2>2. task[t].project \in Project
    BY <1>0, <1>4 DEF lose_task, Typed, TasksOK, TaskOK
  <2>3. unheard' \in SUBSET untold' /\ orphans' \in SUBSET Project
    BY <1>4, <2>2 DEF lose_task, Typed, TablesOK
  <2> QED
    BY <1>4, <2>1, <2>3 DEF lose_task, Typed, TablesOK
<1> QED
  BY <1>1, <1>2, <1>3, <1>4, BeginTyped, TaskStepTyped DEF Next

(* Projects is type-correct, however many requests are served at a time:   *)
(* what the stages of auth/projects/service.py and app_tokens/service.py   *)
(* leave in the tables, and in their own variables, is well formed.        *)
THEOREM ProjectsTypeCorrect == Spec => []TypeOK
<1>1. Typed /\ [Next]_vars => Typed'
  BY NextTyped, UnchangedTyped
<1> QED
  BY <1>1, InitTyped, TypedIsTypeOK, PTL DEF Spec

---------------------------------------------------------------------------
(* Created projects, and the copies of those that are gone.                *)

LEMMA RecordIsSome == None \notin ProjectRecord
  BY ProjectsAssumption DEF ProjectRecord

(* A step of a task changes no other.                                      *)
LEMMA OthersStay ==
  ASSUME Typed, NEW t \in scope.tasks,
         \/ \E S : Become(t, S)
         \/ \E pc : Goto(t, pc)
         \/ task' = task
         \/ \E members : task' = [task EXCEPT ![t].pc = "notify", ![t].members = members]
  PROVE  \A u \in Task \ {t} : task'[u] = task[u]
  BY DEF Typed, TasksOK, Become, Goto

(* What each step does to the projects: unless it creates one, or is the   *)
(* deletion, none comes or goes.                                           *)
Stays == \A p \in Project : (projects'[p] = None) = (projects[p] = None)

(* A step that neither creates, deletes nor keeps a copy is another task's, *)
(* and leaves its own with what it read.                                   *)
Frame(t) ==
  /\ \A u \in Task \ {t} : task'[u] = task[u]
  /\ scope' = scope /\ deleted' = deleted /\ creations' = creations
  /\ orphans' = orphans /\ Stays

(* What a deletion read stays of a life there was.                         *)
LEMMA LivesStep ==
  ASSUME Typed, Lives, NEW t \in Task, \A u \in Task \ {t} : task'[u] = task[u],
         \A p \in Project : deleted'[p] = deleted[p],
         \A p \in Project : creations'[p] \in Nat /\ creations[p] <= creations'[p],
         LifeOK(t)'
  PROVE  Lives'
<1>1. ASSUME NEW u \in Task \ {t} PROVE LifeOK(u)'
  <2>1. /\ task'[u] = task[u] /\ LifeOK(u) /\ task[u].life \in Nat
        /\ task[u].pc # "idle" => task[u].project \in Project
    BY DEF Lives, Typed, TasksOK, TaskOK, TaskState
  <2>2. \A p \in Project : creations[p] \in Nat /\ creations'[p] \in Nat /\ creations[p] <= creations'[p]
    BY DEF Typed, TablesOK
  <2> QED
    BY <2>1, <2>2 DEF LifeOK
<1>2. \A p \in Project : deleted'[p] <= creations'[p]
  BY DEF Lives, Typed, TablesOK
<1> QED
  BY <1>1, <1>2 DEF Lives

LEMMA FrameKept ==
  ASSUME Typed, Kept, NEW t \in Task, Frame(t), task[t].pc # "keep_copy", LifeOK(t)'
  PROVE  Kept'
<1>1. Created' /\ GoneIsKept'
  BY DEF Kept, Created, GoneIsKept, Frame, Stays
<1>2. Lives'
  BY LivesStep DEF Kept, Frame, Typed, TablesOK
<1> QED
  BY <1>1, <1>2 DEF Kept

(* An approval, and an update that is written, leave a project one.        *)
LEMMA ApproveStays ==
  ASSUME Typed, NEW t, NEW p \in Project, NEW u \in User, approve(t, p, u)
  PROVE  Stays
<1>1. projects[p] \in ProjectRecord
  BY DEF approve, Typed, TablesOK
<1>2. /\ [projects[p] EXCEPT !.members = @ \cup {u}] \in ProjectRecord
      /\ [projects[p] EXCEPT !.admin = u, !.members = @ \cup {u}] \in ProjectRecord
  BY <1>1 DEF ProjectRecord
<1> QED
  BY <1>1, <1>2, RecordIsSome DEF approve, add_member, set_admin, Typed, TablesOK, Stays

LEMMA WriteStays ==
  ASSUME Typed, NEW t \in scope.tasks, write_project(t)
  PROVE  Stays
<1>1. CASE projects[task[t].project] = None
  BY <1>1 DEF write_project, Stays
<1>2. CASE projects[task[t].project] # None
  <2>1. Written(t, task[t].project) # None
    BY <1>2, WrittenOK, RecordIsSome DEF write_project
  <2> QED
    BY <1>2, <2>1 DEF write_project, Typed, TablesOK, Stays
<1> QED
  BY <1>1, <1>2

(* The steps that are done at once, or begin a request.                    *)
LEMMA BeginKept ==
  ASSUME Typed, Kept, NEW t \in scope.tasks, NEW p \in Project
  PROVE  /\ \A u \in scope.users : approve(t, p, u) => Kept'
         /\ \A u : remove_member(t, p, u) => Kept'
         /\ \A members, admin, active : update_project(t, p, members, admin, active) => Kept'
         /\ \A superuser : delete_project(t, p, superuser) => Kept'
         /\ \A u : create_app_token(t, p, u) => Kept'
         /\ ensure_personal_project(t, p) => Kept'
         /\ \A x : delete_app_token(t, x) => Kept'
<1>0. /\ scope.users \subseteq User /\ t \in Task /\ task \in [Task -> TaskState]
      /\ LifeOK(t) /\ creations[p] \in Nat
  BY ScopeOK DEF Typed, TablesOK, TasksOK, Kept, Lives
<1>1. ASSUME NEW u \in scope.users, approve(t, p, u) PROVE Kept'
  <2>1. LifeOK(t)' /\ Frame(t) /\ task[t].pc # "keep_copy"
    BY <1>0, <1>1, ApproveStays DEF approve, LifeOK, Frame
  <2> QED
    BY <1>0, <2>1, FrameKept
<1>2. ASSUME NEW u, remove_member(t, p, u) PROVE Kept'
  <2>1. LifeOK(t)'
    BY <1>0, <1>2 DEF remove_member, Become, Starting, Idle, LifeOK
  <2> QED
    BY <1>0, <1>2, <2>1, OthersStay, FrameKept DEF remove_member, Frame, Stays
<1>3. ASSUME NEW members, NEW admin, NEW active, update_project(t, p, members, admin, active)
      PROVE  Kept'
  <2>1. LifeOK(t)'
    BY <1>0, <1>3 DEF update_project, Become, Starting, Idle, LifeOK
  <2> QED
    BY <1>0, <1>3, <2>1, OthersStay, FrameKept DEF update_project, Frame, Stays
<1>4. ASSUME NEW superuser, delete_project(t, p, superuser) PROVE Kept'
  <2>1. /\ task'[t].project = p /\ task'[t].life = creations[p] /\ creations' = creations
        /\ creations[p] > 0
    BY <1>0, <1>4 DEF delete_project, Become, Starting, Idle, Kept, Created
  <2>2. LifeOK(t)'
    BY <1>0, <2>1 DEF LifeOK
  <2> QED
    BY <1>0, <1>4, <2>2, OthersStay, FrameKept DEF delete_project, Frame, Stays
<1>5. ASSUME NEW u, create_app_token(t, p, u) PROVE Kept'
  <2>1. LifeOK(t)'
    BY <1>0, <1>5 DEF create_app_token, Become, Starting, Idle, LifeOK
  <2> QED
    BY <1>0, <1>5, <2>1, OthersStay, FrameKept DEF create_app_token, Frame, Stays
<1>6. ASSUME ensure_personal_project(t, p) PROVE Kept'
  <2>1. LifeOK(t)'
    BY <1>0, <1>6 DEF ensure_personal_project, Become, Starting, Idle, LifeOK
  <2> QED
    BY <1>0, <1>6, <2>1, OthersStay, FrameKept DEF ensure_personal_project, Frame, Stays
<1>7. ASSUME NEW x, delete_app_token(t, x) PROVE Kept'
  <2>1. LifeOK(t)' /\ Frame(t) /\ task[t].pc # "keep_copy"
    BY <1>0, <1>7 DEF delete_app_token, LifeOK, Frame, Stays
  <2> QED
    BY <1>0, <2>1, FrameKept
<1> QED
  BY <1>1, <1>2, <1>3, <1>4, <1>5, <1>6, <1>7

LEMMA TaskStepKept ==
  ASSUME Typed, Kept, NEW t \in scope.tasks, TaskStep(t)
  PROVE  Kept'
<1>0. /\ t \in Task /\ task \in [Task -> TaskState]
      /\ task[t].pc # "idle" => task[t].project \in Project
      /\ LifeOK(t)
  BY ScopeOK DEF Typed, TasksOK, TaskOK, Kept, Lives
<1>1. CASE delete_non_member_tokens(t) \/ delete_project_tokens(t)
  <2>1. /\ task[t].pc \in {"revoke_tokens", "delete_tokens"}
        /\ task'[t].pc = (IF task[t].pc = "delete_tokens" THEN "delete_project" ELSE "write")
        /\ task'[t].project = task[t].project /\ task'[t].life = task[t].life
        /\ creations' = creations
    BY <1>0, <1>1 DEF delete_non_member_tokens, delete_project_tokens, Goto, TaskState
  <2>2. LifeOK(t)'
    BY <1>0, <2>1 DEF LifeOK
  <2> QED
    BY <1>0, <1>1, <2>1, <2>2, OthersStay, FrameKept
      DEF delete_non_member_tokens, delete_project_tokens, Frame, Stays
<1>2. CASE write_project(t)
  <2>1. task'[t].pc \in {"idle", "notify"} /\ \A u \in Task \ {t} : task'[u] = task[u]
    BY <1>0, <1>2, OthersStay DEF write_project, Become, Idle, TaskState
  <2>2. LifeOK(t)'
    BY <2>1 DEF LifeOK
  <2> QED
    BY <1>0, <1>2, <2>1, <2>2, WriteStays, FrameKept DEF write_project, Frame
<1>3. CASE notify_membership_change(t) \/ insert_token(t)
  <2>1. LifeOK(t)'
    BY <1>0, <1>3 DEF notify_membership_change, insert_token, Become, Idle, LifeOK
  <2> QED
    BY <1>0, <1>3, <2>1, OthersStay, FrameKept DEF notify_membership_change, insert_token, Frame, Stays
<1>4. CASE delete_from_projects(t)
  <2>1. /\ task'[t].pc = "keep_copy" /\ task'[t].project = task[t].project
        /\ task'[t].life = task[t].life
    BY <1>0, <1>4 DEF delete_from_projects, Goto, TaskState
  <2>2. \A u \in Task \ {t} : task'[u] = task[u]
    BY <1>4, OthersStay DEF delete_from_projects
  <2>3. /\ task[t].pc = "delete_project" /\ projects'[task[t].project] = None
        /\ \A q \in Project : q # task[t].project => projects'[q] = projects[q]
        /\ deleted' = deleted /\ creations' = creations /\ orphans' = orphans
    BY <1>0, <1>4 DEF delete_from_projects, Typed, TablesOK
  <2>4. Created'
    BY <2>3 DEF Kept, Created
  <2>5. LifeOK(t)'
    BY <1>0, <2>1, <2>3 DEF LifeOK
  <2>6. Lives'
    BY <1>0, <2>2, <2>3, <2>5, LivesStep DEF Kept, Typed, TablesOK
  <2>7. GoneIsKept'
    BY <1>0, <2>1, <2>2, <2>3 DEF Kept, GoneIsKept
  <2> QED
    BY <2>4, <2>6, <2>7 DEF Kept
<1>5. CASE insert_deleted_project(t)
  <2>1. PICK p \in Project : p = task[t].project
    BY <1>0, <1>5 DEF insert_deleted_project
  <2>2. /\ task[t].pc = "keep_copy" /\ task'[t].pc = "idle"
        /\ \A u \in Task \ {t} : task'[u] = task[u]
        /\ projects' = projects /\ creations' = creations /\ orphans' = orphans
    BY <1>0, <1>5, OthersStay DEF insert_deleted_project, Become, Idle
  <2>3. /\ 1 <= task[t].life /\ task[t].life <= creations[p] /\ deleted[p] <= creations[p]
        /\ task[t].life \in Nat /\ creations[p] \in Nat /\ deleted[p] \in Nat
    BY <1>0, <2>1, <2>2 DEF LifeOK, Kept, Lives, Typed, TablesOK, TaskState
  <2>4. /\ deleted'[p] = (IF deleted[p] # 0 THEN deleted[p] ELSE task[t].life)
        /\ \A q \in Project \ {p} : deleted'[q] = deleted[q]
    BY <1>5, <2>1 DEF insert_deleted_project, Typed, TablesOK
  <2>5. Created'
    BY <2>2 DEF Kept, Created
  <2>6. Lives'
    <3>1. \A q \in Project : deleted'[q] <= creations'[q]
      BY <2>2, <2>3, <2>4 DEF Kept, Lives
    <3>2. \A u \in Task : LifeOK(u)'
      BY <2>2 DEF Kept, Lives, LifeOK
    <3> QED
      BY <3>1, <3>2 DEF Lives
  <2>7. GoneIsKept'
    <3>1. creations[p] = 1 => deleted'[p] = 1
      BY <2>3, <2>4
    <3>2. ASSUME NEW q \in Project \ orphans, projects[q] = None, creations[q] = 1, q # p
          PROVE  \/ deleted'[q] = 1
                 \/ \E u \in Task : task'[u].pc = "keep_copy" /\ task'[u].project = q
      BY <2>1, <2>2, <2>4, <3>2 DEF Kept, GoneIsKept
    <3> QED
      BY <2>2, <3>1, <3>2 DEF GoneIsKept
  <2> QED
    BY <2>5, <2>6, <2>7 DEF Kept
<1>6. CASE insert_personal_project(t)
  <2> DEFINE p == task[t].project
  <2>0. /\ task[t].pc = "insert_personal" /\ p \in Project /\ scope.owner[p] \in User
        /\ deleted' = deleted /\ orphans' = orphans
    BY <1>0, <1>6, ScopeOK DEF insert_personal_project, Typed, TasksOK, TaskOK
  <2>1. (\A u \in Task \ {t} : task'[u] = task[u]) /\ LifeOK(t)'
    BY <1>0, <1>6, OthersStay DEF insert_personal_project, Become, Idle, LifeOK
  <2>2. CASE projects[p] = None
    <3>1. [admin |-> scope.owner[p], members |-> {scope.owner[p]}, active |-> TRUE] \in ProjectRecord
      BY <2>0 DEF ProjectRecord
    <3>2. /\ projects'[p] # None /\ creations'[p] = creations[p] + 1 /\ creations[p] \in Nat
          /\ \A q \in Project \ {p} : projects'[q] = projects[q] /\ creations'[q] = creations[q]
      BY <1>6, <2>0, <2>2, <3>1, RecordIsSome DEF insert_personal_project, Typed, TablesOK
    <3>3. Created'
      BY <3>2 DEF Kept, Created
    <3>4. \A q \in Project : creations'[q] \in Nat /\ creations[q] <= creations'[q]
      BY <3>2 DEF Typed, TablesOK
    <3>5. Lives'
      BY <1>0, <2>0, <2>1, <3>4, LivesStep DEF Kept
    <3>6. GoneIsKept'
      BY <1>0, <2>0, <2>1, <3>2 DEF Kept, GoneIsKept
    <3> QED
      BY <3>3, <3>5, <3>6 DEF Kept
  <2>3. CASE projects[p] # None
    BY <1>0, <1>6, <2>0, <2>1, <2>3, FrameKept DEF insert_personal_project, Frame, Stays
  <2> QED
    BY <2>2, <2>3
<1> QED
  BY <1>1, <1>2, <1>3, <1>4, <1>5, <1>6 DEF TaskStep

LEMMA NextKept ==
  ASSUME Typed, Kept, Next
  PROVE  Kept'
<1>0. scope.users \subseteq User /\ scope.tasks \subseteq Task
  BY ScopeOK DEF Typed
<1>1. ASSUME NEW t \in scope.tasks, NEW p \in Project, NEW admin \in scope.users,
             NEW members \in SUBSET scope.users, create_project(t, p, admin, members)
      PROVE  Kept'
  <2>1. [admin |-> admin, members |-> members \cup {admin}, active |-> TRUE] \in ProjectRecord
    BY <1>0 DEF ProjectRecord
  <2>2. /\ projects'[p] # None /\ creations[p] = 0 /\ creations'[p] = 1
        /\ \A q \in Project \ {p} : projects'[q] = projects[q] /\ creations'[q] = creations[q]
    BY <1>1, <2>1, RecordIsSome DEF create_project, Typed, TablesOK
  <2>3. Created'
    BY <2>2 DEF Kept, Created
  <2>4. task' = task /\ deleted' = deleted /\ orphans' = orphans /\ task[t].pc = "idle"
    BY <1>1 DEF create_project
  <2>5. \A q \in Project : creations'[q] \in Nat /\ creations[q] <= creations'[q]
    BY <2>2 DEF Typed, TablesOK
  <2>6. Lives'
    BY <1>0, <2>4, <2>5, LivesStep DEF Kept, LifeOK
  <2>7. GoneIsKept'
    BY <2>2, <2>4 DEF Kept, GoneIsKept
  <2> QED
    BY <2>3, <2>6, <2>7 DEF Kept
<1>2. ASSUME NEW t \in scope.tasks, lose_task(t)
      PROVE  Kept'
  <2>1. /\ t \in Task /\ task'[t].pc = "idle"
        /\ \A u \in Task \ {t} : task'[u] = task[u]
        /\ projects' = projects /\ creations' = creations /\ deleted' = deleted
    BY <1>0, <1>2, OthersStay DEF lose_task, Become, Idle, Typed, TasksOK
  <2>2. Created'
    BY <2>1 DEF Kept, Created
  <2>3. Lives'
    BY <2>1, LivesStep DEF Kept, LifeOK, Typed, TablesOK
  <2>4. /\ orphans \subseteq orphans'
        /\ task[t].pc = "keep_copy" => task[t].project \in orphans'
    BY <1>2 DEF lose_task
  <2>5. GoneIsKept'
    BY <2>1, <2>4 DEF Kept, GoneIsKept
  <2> QED
    BY <2>2, <2>3, <2>5 DEF Kept
<1> QED
  BY <1>1, <1>2, BeginKept, TaskStepKept DEF Next

LEMMA InitKept == Init => Kept
<1> SUFFICES ASSUME Init PROVE Kept
  OBVIOUS
<1>1. (\A t \in Task : task[t].pc = "idle") /\ \A p \in Project : deleted[p] = 0 /\ creations[p] = 0
  BY DEF Init, Idle
<1> QED
  BY <1>1 DEF Init, Kept, Created, Lives, LifeOK, GoneIsKept

LEMMA UnchangedKept ==
  ASSUME Kept, UNCHANGED vars
  PROVE  Kept'
  BY DEF vars, Kept, Created, Lives, LifeOK, GoneIsKept

(* delete_project of auth/projects/service.py deletes a project and then   *)
(* keeps its copy, a request in between, and insert raises when there is a *)
(* copy already: however many requests overlap, and whichever are lost, a  *)
(* project that was made once and is gone has a copy of itself, or a       *)
(* request is about to make it, or died with the copy.                     *)
THEOREM DeletedIsKept == Spec => []GoneIsKept
<1>1. Typed /\ Kept /\ [Next]_vars => (Typed /\ Kept)'
  BY NextTyped, UnchangedTyped, NextKept, UnchangedKept
<1>2. Kept => GoneIsKept
  BY DEF Kept
<1> QED
  BY <1>1, <1>2, InitKept, InitTyped, PTL DEF Spec

---------------------------------------------------------------------------
(* Allowances.                                                             *)

(* The deletions under way are finite in number.                           *)
LEMMA DeletingFinite ==
  ASSUME Typed, NEW p \in Project
  PROVE  IsFiniteSet(Deleting(p)) /\ Cardinality(Deleting(p)) \in Nat
<1>1. IsFiniteSet(scope.tasks) /\ Deleting(p) \in SUBSET scope.tasks
  BY ScopeOK DEF Typed, Deleting
<1>2. IsFiniteSet(Deleting(p))
  BY <1>1, FS_Subset
<1> QED
  BY <1>2, FS_CardinalityType

(* A task that does not begin a deletion leaves no more of them.           *)
LEMMA DeletingShrinks ==
  ASSUME Typed, NEW t \in scope.tasks, scope' = scope, \A u \in Task \ {t} : task'[u] = task[u],
         \/ task'[t].pc \notin {"delete_tokens", "delete_project"}
         \/ /\ task[t].pc \in {"delete_tokens", "delete_project"}
            /\ task'[t].project = task[t].project
  PROVE  \A p \in Project : Deleting(p)' \subseteq Deleting(p)
<1>1. scope.tasks \subseteq Task
  BY ScopeOK DEF Typed
<1> QED
  BY <1>1 DEF Deleting

(* A step that creates and deletes nothing, and begins no deletion.        *)
LEMMA FrameAllowances ==
  ASSUME Typed, Allowances, Stays, scope' = scope, creations' = creations, erasures' = erasures,
         \A p \in Project : Deleting(p)' \subseteq Deleting(p)
  PROVE  Allowances'
<1>1. ASSUME NEW p \in Project
      PROVE  /\ Cardinality(Deleting(p)') \in Nat /\ Cardinality(Deleting(p)) \in Nat
             /\ Cardinality(Deleting(p)') <= Cardinality(Deleting(p))
  <2>1. IsFiniteSet(Deleting(p)) /\ Deleting(p)' \in SUBSET Deleting(p)
    BY DeletingFinite
  <2>2. IsFiniteSet(Deleting(p)') /\ Cardinality(Deleting(p)') <= Cardinality(Deleting(p))
    BY <2>1, FS_Subset
  <2> QED
    BY <2>1, <2>2, FS_CardinalityType
<1>2. ASSUME NEW p \in Project
      PROVE  /\ (projects'[p] = None) = (projects[p] = None)
             /\ creations[p] \in Nat /\ erasures[p] \in Nat
  BY DEF Stays, Typed, TablesOK
<1> QED
  BY <1>1, <1>2 DEF Allowances

(* The requests that begin, but for a deletion.                            *)
LEMMA BeginAllowances ==
  ASSUME Typed, Allowances, NEW t \in scope.tasks, NEW p \in Project
  PROVE  /\ \A u : remove_member(t, p, u) => Allowances'
         /\ \A members, admin, active : update_project(t, p, members, admin, active) => Allowances'
         /\ \A u : create_app_token(t, p, u) => Allowances'
         /\ ensure_personal_project(t, p) => Allowances'
<1>0. t \in Task /\ task \in [Task -> TaskState]
  BY ScopeOK DEF Typed, TasksOK
<1>1. ASSUME NEW u, remove_member(t, p, u) PROVE Allowances'
  <2>1. task'[t].pc = "revoke_tokens"
    BY <1>0, <1>1 DEF remove_member, Become, Starting, Idle
  <2> QED
    BY <1>1, <2>1, OthersStay, DeletingShrinks, FrameAllowances DEF remove_member, Stays
<1>2. ASSUME NEW members, NEW admin, NEW active, update_project(t, p, members, admin, active)
      PROVE  Allowances'
  <2>1. task'[t].pc \in {"revoke_tokens", "write"}
    BY <1>0, <1>2 DEF update_project, Become, Starting, Idle
  <2> QED
    BY <1>2, <2>1, OthersStay, DeletingShrinks, FrameAllowances DEF update_project, Stays
<1>3. ASSUME NEW u, create_app_token(t, p, u) PROVE Allowances'
  <2>1. task'[t].pc = "insert_token"
    BY <1>0, <1>3 DEF create_app_token, Become, Starting, Idle
  <2> QED
    BY <1>3, <2>1, OthersStay, DeletingShrinks, FrameAllowances DEF create_app_token, Stays
<1>4. ASSUME ensure_personal_project(t, p) PROVE Allowances'
  <2>1. task'[t].pc = "insert_personal"
    BY <1>0, <1>4 DEF ensure_personal_project, Become, Starting, Idle
  <2> QED
    BY <1>4, <2>1, OthersStay, DeletingShrinks, FrameAllowances DEF ensure_personal_project, Stays
<1> QED
  BY <1>1, <1>2, <1>3, <1>4

(* A deletion that begins is counted, by a superuser's if it is of a       *)
(* personal project.                                                       *)
LEMMA DeleteAllowances ==
  ASSUME Typed, Allowances, NEW t \in scope.tasks, NEW p \in Project, NEW superuser \in BOOLEAN,
         delete_project(t, p, superuser)
  PROVE  Allowances'
<1>0. /\ t \in Task /\ scope.tasks \subseteq Task /\ task \in [Task -> TaskState]
      /\ scope' = scope /\ creations' = creations /\ projects' = projects
      /\ \A u \in Task \ {t} : task'[u] = task[u]
  BY ScopeOK, OthersStay DEF Typed, TasksOK, delete_project
<1>1. task[t].pc = "idle" /\ task'[t].pc = "delete_tokens" /\ task'[t].project = p
  BY <1>0 DEF delete_project, Become, Starting, Idle
<1>2. /\ Deleting(p)' = Deleting(p) \cup {t} /\ t \notin Deleting(p)
      /\ \A q \in Project \ {p} : Deleting(q)' = Deleting(q)
  BY <1>0, <1>1 DEF Deleting
<1>3. Cardinality(Deleting(p)') = Cardinality(Deleting(p)) + 1
  BY <1>2, DeletingFinite, FS_AddElement
<1>4. /\ \A q \in Project \ {p} : erasures'[q] = erasures[q]
      /\ scope.owner[p] # None => erasures'[p] = erasures[p] + 1
      /\ creations \in [Project -> Nat] /\ erasures \in [Project -> Nat]
      /\ creations[p] \in Nat /\ erasures[p] \in Nat
  BY DEF delete_project, Typed, TablesOK
<1>5. ASSUME NEW q \in Project, q # p
      PROVE  IF scope'.owner[q] = None THEN creations'[q] <= 1
             ELSE creations'[q] + (IF projects'[q] = None THEN 1 ELSE 0) + Cardinality(Deleting(q)')
                    <= 1 + erasures'[q]
  BY <1>0, <1>2, <1>4, <1>5 DEF Allowances
<1>6. IF scope'.owner[p] = None THEN creations'[p] <= 1
      ELSE creations'[p] + (IF projects'[p] = None THEN 1 ELSE 0) + Cardinality(Deleting(p)')
             <= 1 + erasures'[p]
  <2>1. Cardinality(Deleting(p)) \in Nat
    BY DeletingFinite
  <2> QED
    BY <1>0, <1>3, <1>4, <2>1 DEF Allowances
<1> QED
  BY <1>5, <1>6 DEF Allowances

(* A project that is taken away was counted as being deleted.              *)
LEMMA DeletedAllowances ==
  ASSUME Typed, Allowances, NEW t \in scope.tasks, delete_from_projects(t)
  PROVE  Allowances'
<1>p. PICK p \in Project : p = task[t].project
  BY ScopeOK DEF Typed, TasksOK, TaskOK, delete_from_projects
<1>0. /\ t \in Task /\ scope.tasks \subseteq Task
      /\ scope' = scope /\ creations' = creations /\ erasures' = erasures
      /\ \A u \in Task \ {t} : task'[u] = task[u]
      /\ \A q \in Project \ {p} : projects'[q] = projects[q]
  BY <1>p, ScopeOK, OthersStay DEF Typed, TablesOK, TasksOK, TaskOK, delete_from_projects
<1>1. task[t].pc = "delete_project" /\ task'[t].pc = "keep_copy" /\ task'[t].project = p
  BY <1>p, <1>0 DEF delete_from_projects, Goto, Typed, TasksOK, TaskState
<1>2. /\ Deleting(p)' = Deleting(p) \ {t} /\ t \in Deleting(p)
      /\ \A q \in Project \ {p} : Deleting(q)' = Deleting(q)
  BY <1>p, <1>0, <1>1 DEF Deleting
<1>3. Cardinality(Deleting(p)') = Cardinality(Deleting(p)) - 1
  BY <1>2, DeletingFinite, <1>0, FS_RemoveElement
<1>4. ASSUME NEW q \in Project, q # p
      PROVE  IF scope'.owner[q] = None THEN creations'[q] <= 1
             ELSE creations'[q] + (IF projects'[q] = None THEN 1 ELSE 0) + Cardinality(Deleting(q)')
                    <= 1 + erasures'[q]
  BY <1>0, <1>2, <1>4 DEF Allowances
<1>5. IF scope'.owner[p] = None THEN creations'[p] <= 1
      ELSE creations'[p] + (IF projects'[p] = None THEN 1 ELSE 0) + Cardinality(Deleting(p)')
             <= 1 + erasures'[p]
  <2>1. Cardinality(Deleting(p)) \in Nat /\ creations[p] \in Nat /\ erasures[p] \in Nat
    BY <1>0, DeletingFinite DEF Typed, TablesOK
  <2> QED
    BY <1>0, <1>3, <2>1 DEF Allowances
<1> QED
  BY <1>4, <1>5 DEF Allowances

(* A project that is created takes the place that was left for it.         *)
LEMMA CreateAllowances ==
  ASSUME Typed, Allowances, NEW t, NEW p \in Project, NEW admin, NEW members,
         create_project(t, p, admin, members)
  PROVE  Allowances'
<1>1. scope' = scope /\ erasures' = erasures /\ task' = task /\ scope.owner[p] = None
  BY DEF create_project
<1>2. /\ creations'[p] = 1
      /\ \A q \in Project \ {p} : creations'[q] = creations[q] /\ projects'[q] = projects[q]
  BY DEF create_project, Typed, TablesOK
<1>3. \A q \in Project : Deleting(q)' = Deleting(q)
  BY <1>1 DEF Deleting
<1> QED
  BY <1>1, <1>2, <1>3 DEF Allowances

LEMMA PersonalAllowances ==
  ASSUME Typed, Allowances, NEW t \in scope.tasks, insert_personal_project(t),
         projects[task[t].project] = None
  PROVE  Allowances'
<1>p. PICK p \in Project : p = task[t].project
  BY ScopeOK DEF Typed, TasksOK, TaskOK, insert_personal_project
<1>0. /\ t \in Task /\ scope.owner[p] # None /\ scope.owner[p] \in User
      /\ scope' = scope /\ erasures' = erasures
      /\ \A u \in Task \ {t} : task'[u] = task[u]
  BY <1>p, ScopeOK, OthersStay DEF Typed, TablesOK, TasksOK, TaskOK, insert_personal_project
<1>1. task[t].pc = "insert_personal" /\ task'[t].pc = "idle"
  BY <1>0 DEF insert_personal_project, Become, Idle, Typed, TasksOK
<1>2. \A q \in Project : Deleting(q)' = Deleting(q)
  BY <1>0, <1>1, ScopeOK DEF Deleting, Typed
<1>3. [admin |-> scope.owner[p], members |-> {scope.owner[p]}, active |-> TRUE] \in ProjectRecord
  BY <1>0 DEF ProjectRecord
<1>4. /\ projects[p] = None /\ projects'[p] # None /\ creations'[p] = creations[p] + 1
      /\ \A q \in Project \ {p} : creations'[q] = creations[q] /\ projects'[q] = projects[q]
  BY <1>p, <1>3, RecordIsSome DEF insert_personal_project, Typed, TablesOK
<1>5. Cardinality(Deleting(p)) \in Nat /\ creations[p] \in Nat /\ erasures[p] \in Nat
  BY DeletingFinite DEF Typed, TablesOK
<1>6. creations'[p] + (IF projects'[p] = None THEN 1 ELSE 0) + Cardinality(Deleting(p)')
        <= 1 + erasures'[p]
  BY <1>0, <1>2, <1>4, <1>5 DEF Allowances
<1> QED
  BY <1>0, <1>2, <1>4, <1>6 DEF Allowances

LEMMA TaskStepAllowances ==
  ASSUME Typed, Allowances, NEW t \in scope.tasks, TaskStep(t)
  PROVE  Allowances'
<1>0. t \in Task /\ task \in [Task -> TaskState]
  BY ScopeOK DEF Typed, TasksOK
<1>1. CASE delete_non_member_tokens(t) \/ delete_project_tokens(t)
  <2>1. \/ task'[t].pc = "write"
        \/ task[t].pc = "delete_tokens" /\ task'[t].project = task[t].project
    BY <1>0, <1>1 DEF delete_non_member_tokens, delete_project_tokens, Goto, TaskState
  <2> QED
    BY <1>1, <2>1, OthersStay, DeletingShrinks, FrameAllowances
      DEF delete_non_member_tokens, delete_project_tokens, Stays
<1>2. CASE write_project(t)
  <2>1. task'[t].pc \in {"idle", "notify"} /\ \A u \in Task \ {t} : task'[u] = task[u]
    BY <1>0, <1>2, OthersStay DEF write_project, Become, Idle, TaskState
  <2> QED
    BY <1>2, <2>1, WriteStays, DeletingShrinks, FrameAllowances DEF write_project
<1>3. CASE notify_membership_change(t) \/ insert_deleted_project(t) \/ insert_token(t)
  <2>1. task'[t].pc = "idle"
    BY <1>0, <1>3 DEF notify_membership_change, insert_deleted_project, insert_token, Become, Idle
  <2> QED
    BY <1>3, <2>1, OthersStay, DeletingShrinks, FrameAllowances
      DEF notify_membership_change, insert_deleted_project, insert_token, Stays
<1>4. CASE delete_from_projects(t)
  BY <1>4, DeletedAllowances
<1>5. CASE insert_personal_project(t)
  <2>1. CASE projects[task[t].project] = None
    BY <1>5, <2>1, PersonalAllowances
  <2>2. CASE projects[task[t].project] # None
    <3>1. task'[t].pc = "idle"
      BY <1>0, <1>5 DEF insert_personal_project, Become, Idle
    <3> QED
      BY <1>5, <2>2, <3>1, OthersStay, DeletingShrinks, FrameAllowances
        DEF insert_personal_project, Stays
  <2> QED
    BY <2>1, <2>2
<1> QED
  BY <1>1, <1>2, <1>3, <1>4, <1>5 DEF TaskStep

LEMMA NextAllowances ==
  ASSUME Typed, Allowances, Next
  PROVE  Allowances'
<1>0. scope.users \subseteq User
  BY ScopeOK DEF Typed
<1>1. ASSUME NEW t \in scope.tasks, NEW p \in Project, NEW u \in scope.users, approve(t, p, u)
      PROVE  Allowances'
  <2>1. task' = task /\ scope' = scope /\ creations' = creations /\ erasures' = erasures
    BY <1>1 DEF approve
  <2> QED
    BY <1>0, <1>1, <2>1, ApproveStays, FrameAllowances DEF Deleting
<1>2. ASSUME NEW t \in scope.tasks, NEW x, delete_app_token(t, x)
      PROVE  Allowances'
  BY <1>2 DEF delete_app_token, Allowances, Deleting
<1>3. ASSUME NEW t \in scope.tasks, lose_task(t)
      PROVE  Allowances'
  <2>1. task'[t].pc = "idle"
    BY <1>3, ScopeOK DEF lose_task, Become, Idle, Typed, TasksOK
  <2> QED
    BY <1>3, <2>1, OthersStay, DeletingShrinks, FrameAllowances DEF lose_task, Stays
<1> QED
  BY <1>1, <1>2, <1>3, CreateAllowances, BeginAllowances, DeleteAllowances, TaskStepAllowances DEF Next

(* ensure_personal_project and delete_project of auth/projects/service.py: *)
(* however many logins and deletions are served at a time, and whichever   *)
(* of them are lost, the allowance of a personal project is given at most  *)
(* once, and once more for each time a superuser deleted the project.      *)
THEOREM AllowanceIsGivenOnce == Spec => []AllowanceOnce
<1>1. Init => Allowances
  <2> SUFFICES ASSUME Init, NEW p \in Project PROVE Deleting(p) = {} /\ creations[p] = 0
        /\ projects[p] = None /\ erasures[p] = 0
    BY FS_EmptySet DEF Allowances
  <2> QED
    BY InitTyped, ScopeOK DEF Init, Deleting, Idle, Typed
<1>2. Typed /\ Allowances /\ [Next]_vars => (Typed /\ Allowances)'
  <2>1. ASSUME Allowances, UNCHANGED vars PROVE Allowances'
    BY <2>1 DEF vars, Allowances, Deleting
  <2> QED
    BY <2>1, NextTyped, UnchangedTyped, NextAllowances
<1>3. Typed /\ Allowances => AllowanceOnce
  <2> SUFFICES ASSUME Typed, Allowances, NEW p \in Project PROVE creations[p] <= 1 + erasures[p]
    BY DEF AllowanceOnce
  <2>1. Cardinality(Deleting(p)) \in Nat /\ creations[p] \in Nat /\ erasures[p] \in Nat
    BY DeletingFinite DEF Typed, TablesOK
  <2> QED
    BY <2>1 DEF Allowances
<1> QED
  BY <1>1, <1>2, <1>3, InitTyped, PTL DEF Spec

---------------------------------------------------------------------------
(* Requests served one at a time.                                          *)

(* The others are idle.                                                    *)
LEMMA Served ==
  ASSUME Typed, OneAtATime, NEW t \in scope.tasks
  PROVE  t \in Task /\ \A u \in Task \ {t} : task[u].pc = "idle"
<1>1. scope.tasks \subseteq Task /\ IsFiniteSet(scope.tasks)
  BY ScopeOK DEF Typed
<1>2. PICK x : scope.tasks = {x}
  BY <1>1, FS_Singleton DEF OneAtATime
<1> QED
  BY <1>1, <1>2 DEF Typed, TasksOK, TaskOK

(* So a step is that of the one request.                                   *)
LEMMA AloneStep ==
  ASSUME Typed, NEW t \in scope.tasks, scope' = scope, \A u \in Task \ {t} : task'[u] = task[u],
         OneAtATime => Admins' /\ Holders' /\ AloneOK(t)'
  PROVE  Alone'
<1> SUFFICES ASSUME OneAtATime PROVE Admins' /\ Holders' /\ \A u \in Task : AloneOK(u)'
  BY DEF Alone, OneAtATime
<1>1. \A u \in Task \ {t} : task'[u].pc = "idle"
  BY Served
<1>2. \A u \in Task \ {t} : AloneOK(u)'
  BY <1>1 DEF AloneOK
<1> QED
  BY <1>2

(* Nothing is left to tell but by the request that is about to tell it.    *)
LEMMA NothingUntold ==
  ASSUME Typed, StandingIsTold, OneAtATime, NEW t \in scope.tasks, task[t].pc # "notify"
  PROVE  untold \subseteq unheard
<1>1. \A u \in Task : task[u].pc # "notify"
  BY Served
<1> QED
  BY <1>1 DEF StandingIsTold

LEMMA NothingToTell ==
  ASSUME Typed, StandingIsTold, NEW t \in scope.tasks, task[t].pc # "notify", scope' = scope,
         untold' \ unheard' \in SUBSET (untold \ unheard)
  PROVE  StandingIsTold'
<1> SUFFICES ASSUME OneAtATime PROVE untold' \ unheard' = {}
  BY DEF StandingIsTold, OneAtATime
<1> QED
  BY NothingUntold

(* The requests that are done at once.                                     *)
LEMMA CreateAlone ==
  ASSUME Typed, Created, Alone, NEW t \in scope.tasks, NEW p \in Project, NEW admin, NEW members,
         create_project(t, p, admin, members)
  PROVE  Alone'
<1> SUFFICES ASSUME OneAtATime PROVE Admins' /\ Holders' /\ AloneOK(t)'
  BY AloneStep DEF create_project
<1>1. Admins /\ Holders
  BY DEF Alone
<1>2. projects[p] = None
  BY DEF create_project, Created, Typed, TablesOK
<1>3. /\ projects'[p] = [admin |-> admin, members |-> members \cup {admin}, active |-> TRUE]
      /\ \A q \in Project \ {p} : projects'[q] = projects[q]
  BY DEF create_project, Typed, TablesOK
<1>4. Admins'
  BY <1>1, <1>3 DEF Admins
<1>5. Holders'
  BY <1>1, <1>2, <1>3 DEF Holders, create_project, Typed, TablesOK
<1> QED
  BY <1>4, <1>5 DEF AloneOK, create_project

LEMMA ApproveAlone ==
  ASSUME Typed, Alone, NEW t \in scope.tasks, NEW p \in Project, NEW u \in scope.users,
         approve(t, p, u)
  PROVE  Alone'
<1> SUFFICES ASSUME OneAtATime PROVE Admins' /\ Holders' /\ AloneOK(t)'
  BY AloneStep DEF approve
<1>1. Admins /\ Holders
  BY DEF Alone
<1>2. projects[p] \in ProjectRecord /\ projects[p] # None
  BY DEF approve, Typed, TablesOK
<1>3. /\ projects'[p].members = projects[p].members \cup {u}
      /\ projects'[p].admin \in {projects[p].admin, u}
      /\ \A q \in Project \ {p} : projects'[q] = projects[q]
  BY <1>2 DEF approve, add_member, set_admin, Typed, TablesOK, ProjectRecord
<1>4. Admins'
  BY <1>1, <1>2, <1>3 DEF Admins
<1>5. Stays
  BY ScopeOK, ApproveStays DEF Typed
<1>6. Holders'
  BY <1>1, <1>3, <1>5 DEF Holders, approve, Typed, TablesOK, Stays
<1> QED
  BY <1>4, <1>6 DEF AloneOK, approve

(* The requests that begin: what they read is so.                          *)
LEMMA RemoveAlone ==
  ASSUME Typed, Alone, NEW t \in scope.tasks, NEW p \in Project, NEW u, remove_member(t, p, u)
  PROVE  Alone'
<1>0. t \in Task /\ \A v \in Task \ {t} : task'[v] = task[v]
  BY ScopeOK, OthersStay DEF Typed, remove_member
<1> SUFFICES ASSUME OneAtATime PROVE Admins' /\ Holders' /\ AloneOK(t)'
  BY <1>0, AloneStep DEF remove_member
<1>1. Admins /\ Holders /\ Admins' /\ Holders'
  BY DEF Alone, remove_member, Admins, Holders
<1>2. task'[t] = [Starting("revoke_tokens", p) EXCEPT
                    !.user = u, !.old = projects[p].members,
                    !.members = projects[p].members \ {u}, !.lists = TRUE]
  BY <1>0 DEF remove_member, Become, Typed, TasksOK
<1>3. /\ task'[t].pc = "revoke_tokens" /\ task'[t].project = p /\ task'[t].user = u
      /\ task'[t].old = projects[p].members /\ task'[t].members = projects[p].members \ {u}
      /\ task'[t].lists = TRUE /\ task'[t].admin = None
  BY <1>2 DEF Starting, Idle
<1>4. /\ projects' = projects /\ projects[p] # None /\ u # projects[p].admin
      /\ u \in projects[p].members /\ projects[p].admin \in projects[p].members
  BY <1>1 DEF remove_member, Admins
<1>5. UpdateOK(t)'
  BY <1>3, <1>4 DEF UpdateOK
<1> QED
  BY <1>1, <1>3, <1>5 DEF AloneOK

LEMMA UpdateAlone ==
  ASSUME Typed, Alone, NEW t \in scope.tasks, NEW p \in Project,
         NEW members, NEW admin \in scope.users \cup {None}, NEW active,
         update_project(t, p, members, admin, active)
  PROVE  Alone'
<1>0. t \in Task /\ \A v \in Task \ {t} : task'[v] = task[v]
  BY ScopeOK, OthersStay DEF Typed, update_project
<1> SUFFICES ASSUME OneAtATime PROVE Admins' /\ Holders' /\ AloneOK(t)'
  BY <1>0, AloneStep DEF update_project
<1> DEFINE old == projects[p].members
           newAdmin == IF admin = None THEN projects[p].admin ELSE admin
           new == (IF members = None THEN old ELSE members) \cup {newAdmin}
<1>1. Admins /\ Holders /\ Admins' /\ Holders'
  BY DEF Alone, update_project, Admins, Holders
<1>2. PICK lists \in BOOLEAN :
        /\ task' = [task EXCEPT ![t] = [Starting(IF lists THEN "revoke_tokens" ELSE "write", p)
                      EXCEPT !.old = old, !.members = new, !.lists = lists,
                             !.admin = newAdmin, !.active = active]]
        /\ ~lists => new = old
  BY DEF update_project, Become
<1>3. /\ task'[t].pc = (IF lists THEN "revoke_tokens" ELSE "write")
      /\ task'[t].project = p /\ task'[t].user = None /\ task'[t].old = old
      /\ task'[t].members = new /\ task'[t].lists = lists /\ task'[t].admin = newAdmin
  <2> HIDE DEF old, newAdmin, new
  <2> QED BY <1>0, <1>2 DEF Starting, Idle, Typed, TasksOK
<1>4. projects' = projects /\ tokens' = tokens /\ projects[p] # None /\ newAdmin # None
  BY ScopeOK, ProjectsAssumption DEF update_project, Typed, TablesOK, ProjectRecord
<1>5. newAdmin \in new
  OBVIOUS
<1>6. UpdateOK(t)'
  <2> HIDE DEF newAdmin, new
  <2> QED BY <1>2, <1>3, <1>4, <1>5 DEF UpdateOK
<1>7. ~lists => \A x \in tokens : x[1] = p => x[2] \in new
  BY <1>1, <1>2 DEF Holders
<1> QED
  <2> HIDE DEF newAdmin, new, old
  <2> QED BY <1>1, <1>3, <1>4, <1>6, <1>7 DEF AloneOK

LEMMA BeginAlone ==
  ASSUME Typed, Alone, NEW t \in scope.tasks, NEW p \in Project
  PROVE  /\ \A superuser : delete_project(t, p, superuser) => Alone'
         /\ \A u : create_app_token(t, p, u) => Alone'
         /\ ensure_personal_project(t, p) => Alone'
<1>0. t \in Task /\ task \in [Task -> TaskState]
  BY ScopeOK DEF Typed, TasksOK
<1>1. ASSUME NEW superuser, delete_project(t, p, superuser) PROVE Alone'
  <2>1. task'[t].pc = "delete_tokens"
    BY <1>0, <1>1 DEF delete_project, Become, Starting, Idle
  <2> SUFFICES ASSUME OneAtATime PROVE Admins' /\ Holders' /\ AloneOK(t)'
    BY <1>1, OthersStay, AloneStep DEF delete_project
  <2> QED
    BY <1>1, <2>1 DEF Alone, delete_project, Admins, Holders, AloneOK
<1>2. ASSUME NEW u, create_app_token(t, p, u) PROVE Alone'
  <2>1. task'[t].pc = "insert_token" /\ task'[t].project = p /\ task'[t].user = u
    BY <1>0, <1>2 DEF create_app_token, Become, Starting, Idle
  <2> SUFFICES ASSUME OneAtATime PROVE Admins' /\ Holders' /\ AloneOK(t)'
    BY <1>2, OthersStay, AloneStep DEF create_app_token
  <2> QED
    BY <1>2, <2>1 DEF Alone, create_app_token, Admins, Holders, AloneOK
<1>3. ASSUME ensure_personal_project(t, p) PROVE Alone'
  <2>1. task'[t].pc = "insert_personal"
    BY <1>0, <1>3 DEF ensure_personal_project, Become, Starting, Idle
  <2> SUFFICES ASSUME OneAtATime PROVE Admins' /\ Holders' /\ AloneOK(t)'
    BY <1>3, OthersStay, AloneStep DEF ensure_personal_project
  <2> QED
    BY <1>3, <2>1 DEF Alone, ensure_personal_project, Admins, Holders, AloneOK
<1> QED
  BY <1>1, <1>2, <1>3

(* An update leaves the members it meant to, and tells who is missing.     *)
LEMMA WriteAlone ==
  ASSUME Typed, Alone, StandingIsTold, NEW t \in scope.tasks, write_project(t)
  PROVE  Alone' /\ StandingIsTold'
<1>0. t \in Task /\ \A v \in Task \ {t} : task'[v] = task[v]
  BY ScopeOK, OthersStay DEF Typed, write_project
<1> SUFFICES ASSUME OneAtATime
             PROVE  Admins' /\ Holders' /\ AloneOK(t)' /\ StandingIsTold'
  BY <1>0, AloneStep DEF write_project, StandingIsTold, OneAtATime
<1>p. PICK p \in Project : p = task[t].project
  BY <1>0 DEF write_project, Typed, TasksOK, TaskOK
<1>1. /\ task[t].pc = "write" /\ Admins /\ Holders /\ UpdateOK(t)
      /\ \A x \in tokens : x[1] = p => x[2] \in task[t].members
  BY <1>0, <1>p DEF Alone, AloneOK, write_project
<1>2. projects[p] # None /\ Written(t, p) \in ProjectRecord
  BY <1>p, <1>1, WrittenOK DEF UpdateOK
<1>3. Written(t, p).members = task[t].members /\ Written(t, p).admin \in task[t].members
  BY <1>p, <1>1 DEF UpdateOK, Written
<1>4. /\ projects' = [projects EXCEPT ![p] = Written(t, p)]
      /\ Dropped(p, Written(t, p).members)
      /\ task' = [task EXCEPT ![t].pc = "notify", ![t].members = Written(t, p).members]
      /\ scope' = scope /\ tokens' = tokens
  BY <1>p, <1>2 DEF write_project
<1>5. projects'[p] = Written(t, p) /\ \A q \in Project \ {p} : projects'[q] = projects[q]
  BY <1>4 DEF Typed, TablesOK
<1>6. /\ task'[t].pc = "notify" /\ task'[t].members = task[t].members /\ task'[t].project = p
      /\ task'[t].old = task[t].old /\ task'[t].user = task[t].user
  BY <1>0, <1>p, <1>3, <1>4 DEF Typed, TasksOK, TaskState
<1>7. Admins'
  BY <1>1, <1>3, <1>5 DEF Admins
<1>8. Holders'
  BY <1>1, <1>2, <1>3, <1>4, <1>5, RecordIsSome DEF Holders, Typed, TablesOK
<1>9. AloneOK(t)'
  BY <1>6 DEF AloneOK
<1>10. StandingIsTold'
  <2>1. untold \subseteq unheard
    BY <1>1, NothingUntold
  <2>2. \A x \in untold' \ unheard' : x \in {<<p, u>> : u \in task[t].old \ task[t].members}
    BY <1>p, <1>1, <1>3, <1>4, <2>1 DEF Dropped, UpdateOK
  <2>3. revoked(t)' = {<<p, u>> : u \in task[t].old \ task[t].members}
    BY <1>1, <1>6 DEF revoked, UpdateOK
  <2> QED
    BY <1>0, <1>6, <2>2, <2>3 DEF StandingIsTold
<1> QED
  BY <1>7, <1>8, <1>9, <1>10

(* The other steps of a request.                                           *)
LEMMA TaskStepAlone ==
  ASSUME Typed, Alone, StandingIsTold, NEW t \in scope.tasks, TaskStep(t)
  PROVE  Alone' /\ StandingIsTold'
<1>0. /\ t \in Task /\ task \in [Task -> TaskState] /\ scope.tasks \subseteq Task
      /\ task[t].pc # "idle" => task[t].project \in Project
  BY ScopeOK DEF Typed, TasksOK, TaskOK
<1>1. CASE delete_non_member_tokens(t)
  <2>1. task[t].pc = "revoke_tokens" /\ task' = [task EXCEPT ![t].pc = "write"] /\ projects' = projects
        /\ tokens' = {x \in tokens : x[1] # task[t].project \/ x[2] \in task[t].members}
    BY <1>1 DEF delete_non_member_tokens, Goto
  <2>2. StandingIsTold'
    BY <1>1, <2>1, NothingToTell DEF delete_non_member_tokens
  <2> SUFFICES ASSUME OneAtATime PROVE Admins' /\ Holders' /\ AloneOK(t)'
    BY <1>1, <2>2, OthersStay, AloneStep DEF delete_non_member_tokens
  <2>3. task'[t].pc = "write" /\ task'[t] = [task[t] EXCEPT !.pc = "write"]
    BY <1>0, <2>1 DEF TaskState
  <2>4. /\ task'[t].project = task[t].project /\ task'[t].old = task[t].old
        /\ task'[t].members = task[t].members /\ task'[t].lists = task[t].lists
        /\ task'[t].admin = task[t].admin /\ task'[t].user = task[t].user
    BY <1>0, <2>3 DEF TaskState
  <2>5. Admins /\ Holders /\ UpdateOK(t)
    BY <1>0, <2>1 DEF Alone, AloneOK
  <2>6. UpdateOK(t)'
    BY <2>1, <2>4, <2>5 DEF UpdateOK
  <2> QED
    BY <2>1, <2>3, <2>4, <2>5, <2>6 DEF Admins, Holders, AloneOK
<1>2. CASE write_project(t)
  BY <1>2, WriteAlone
<1>3. CASE notify_membership_change(t)
  <2>1. task'[t].pc = "idle" /\ projects' = projects /\ tokens' = tokens /\ task[t].pc = "notify"
    BY <1>0, <1>3 DEF notify_membership_change, Become, Idle
  <2>2. ASSUME OneAtATime PROVE untold' \subseteq unheard'
    <3>1. \A u \in Task \ {t} : task[u].pc = "idle"
      BY <2>2, Served
    <3>2. \A x \in untold \ unheard : x \in revoked(t)
      BY <2>2, <3>1 DEF StandingIsTold
    <3> QED
      BY <1>3, <3>2 DEF notify_membership_change, Typed, TablesOK
  <2>3. StandingIsTold'
    BY <1>3, <2>2 DEF notify_membership_change, StandingIsTold, OneAtATime
  <2> SUFFICES ASSUME OneAtATime PROVE Admins' /\ Holders' /\ AloneOK(t)'
    BY <1>3, <2>3, OthersStay, AloneStep DEF notify_membership_change
  <2> QED
    BY <2>1 DEF Alone, Admins, Holders, AloneOK
<1>4. CASE delete_project_tokens(t)
  <2>1. /\ task'[t].pc = "delete_project" /\ task'[t].project = task[t].project
        /\ tokens' = {x \in tokens : x[1] # task[t].project} /\ projects' = projects
        /\ task[t].pc = "delete_tokens"
    BY <1>0, <1>4 DEF delete_project_tokens, Goto, TaskState
  <2>2. StandingIsTold'
    BY <1>4, <2>1, NothingToTell DEF delete_project_tokens
  <2> SUFFICES ASSUME OneAtATime PROVE Admins' /\ Holders' /\ AloneOK(t)'
    BY <1>4, <2>2, OthersStay, AloneStep DEF delete_project_tokens
  <2> QED
    BY <2>1 DEF Alone, Admins, Holders, AloneOK
<1>5. CASE delete_from_projects(t)
  <2>1. /\ task'[t].pc = "keep_copy" /\ task[t].pc = "delete_project" /\ tokens' = tokens
        /\ projects' = [projects EXCEPT ![task[t].project] = None]
    BY <1>0, <1>5 DEF delete_from_projects, Goto, TaskState
  <2>2. StandingIsTold'
    BY <1>5, <2>1, NothingToTell DEF delete_from_projects
  <2> SUFFICES ASSUME OneAtATime PROVE Admins' /\ Holders' /\ AloneOK(t)'
    BY <1>5, <2>2, OthersStay, AloneStep DEF delete_from_projects
  <2>3. \A x \in tokens : x[1] # task[t].project
    BY <1>0, <2>1 DEF Alone, AloneOK
  <2>4. /\ \A q \in Project : q # task[t].project => projects'[q] = projects[q]
        /\ projects'[task[t].project] = None
    BY <1>0, <2>1 DEF Typed, TablesOK
  <2> QED
    BY <2>1, <2>3, <2>4 DEF Alone, Admins, Holders, AloneOK, Typed, TablesOK
<1>6. CASE insert_deleted_project(t)
  <2>1. task'[t].pc = "idle" /\ task[t].pc = "keep_copy" /\ tokens' = tokens /\ projects' = projects
    BY <1>0, <1>6 DEF insert_deleted_project, Become, Idle
  <2>2. StandingIsTold'
    BY <1>6, <2>1, NothingToTell DEF insert_deleted_project
  <2> SUFFICES ASSUME OneAtATime PROVE Admins' /\ Holders' /\ AloneOK(t)'
    BY <1>6, <2>2, OthersStay, AloneStep DEF insert_deleted_project
  <2> QED
    BY <2>1 DEF Alone, Admins, Holders, AloneOK
<1>7. CASE insert_token(t)
  <2>1. /\ task'[t].pc = "idle" /\ task[t].pc = "insert_token" /\ projects' = projects
        /\ tokens' = tokens \cup {<<task[t].project, task[t].user>>}
    BY <1>0, <1>7 DEF insert_token, Become, Idle
  <2>2. StandingIsTold'
    BY <1>7, <2>1, NothingToTell DEF insert_token
  <2> SUFFICES ASSUME OneAtATime PROVE Admins' /\ Holders' /\ AloneOK(t)'
    BY <1>7, <2>2, OthersStay, AloneStep DEF insert_token
  <2>3. projects[task[t].project] # None /\ task[t].user \in projects[task[t].project].members
    BY <1>0, <2>1 DEF Alone, AloneOK
  <2> QED
    BY <2>1, <2>3 DEF Alone, Admins, Holders, AloneOK
<1>8. CASE insert_personal_project(t)
  <2>p. PICK p \in Project : p = task[t].project
    BY <1>0, <1>8 DEF insert_personal_project
  <2>1. task'[t].pc = "idle" /\ task[t].pc = "insert_personal" /\ tokens' = tokens
    BY <1>0, <1>8 DEF insert_personal_project, Become, Idle
  <2>2. StandingIsTold'
    BY <1>8, <2>1, NothingToTell DEF insert_personal_project
  <2> SUFFICES ASSUME OneAtATime PROVE Admins' /\ Holders' /\ AloneOK(t)'
    BY <1>8, <2>2, OthersStay, AloneStep DEF insert_personal_project
  <2>3. \/ projects' = projects
        \/ /\ projects[p] = None /\ \A q \in Project \ {p} : projects'[q] = projects[q]
           /\ projects'[p] = [admin |-> scope.owner[p], members |-> {scope.owner[p]}, active |-> TRUE]
    BY <1>8, <2>p DEF insert_personal_project, Typed, TablesOK
  <2>4. Admins'
    BY <2>3 DEF Alone, Admins
  <2>5. Holders'
    BY <2>1, <2>3 DEF Alone, Holders, Typed, TablesOK
  <2> QED
    BY <2>1, <2>4, <2>5 DEF AloneOK
<1> QED
  BY <1>1, <1>2, <1>3, <1>4, <1>5, <1>6, <1>7, <1>8 DEF TaskStep

(* Every step.                                                             *)
LEMMA NextAlone ==
  ASSUME Typed, Kept, Alone, StandingIsTold, Next
  PROVE  Alone' /\ StandingIsTold'
<1>1. ASSUME NEW t \in scope.tasks, NEW p \in Project, NEW admin, NEW members,
             create_project(t, p, admin, members)
      PROVE  Alone' /\ StandingIsTold'
  BY <1>1, CreateAlone, NothingToTell DEF Kept, create_project
<1>2. ASSUME NEW t \in scope.tasks, NEW p \in Project, NEW u \in scope.users, approve(t, p, u)
      PROVE  Alone' /\ StandingIsTold'
  BY <1>2, ApproveAlone, NothingToTell DEF approve
<1>3. ASSUME NEW t \in scope.tasks, NEW p \in Project, NEW u, remove_member(t, p, u)
      PROVE  Alone' /\ StandingIsTold'
  BY <1>3, RemoveAlone, NothingToTell DEF remove_member
<1>4. ASSUME NEW t \in scope.tasks, NEW p \in Project, NEW members,
             NEW admin \in scope.users \cup {None}, NEW active,
             update_project(t, p, members, admin, active)
      PROVE  Alone' /\ StandingIsTold'
  BY <1>4, UpdateAlone, NothingToTell DEF update_project
<1>5. ASSUME NEW t \in scope.tasks, NEW p \in Project, NEW superuser, delete_project(t, p, superuser)
      PROVE  Alone' /\ StandingIsTold'
  BY <1>5, BeginAlone, NothingToTell DEF delete_project
<1>6. ASSUME NEW t \in scope.tasks, NEW p \in Project, NEW u, create_app_token(t, p, u)
      PROVE  Alone' /\ StandingIsTold'
  BY <1>6, BeginAlone, NothingToTell DEF create_app_token
<1>7. ASSUME NEW t \in scope.tasks, NEW p \in Project, ensure_personal_project(t, p)
      PROVE  Alone' /\ StandingIsTold'
  BY <1>7, BeginAlone, NothingToTell DEF ensure_personal_project
<1>8. ASSUME NEW t \in scope.tasks, NEW x, delete_app_token(t, x)
      PROVE  Alone' /\ StandingIsTold'
  <2>1. StandingIsTold'
    BY <1>8, NothingToTell DEF delete_app_token
  <2>2. tokens' \subseteq tokens /\ task' = task /\ projects' = projects /\ task[t].pc = "idle"
    BY <1>8 DEF delete_app_token
  <2> SUFFICES ASSUME OneAtATime PROVE Admins' /\ Holders' /\ AloneOK(t)'
    BY <1>8, <2>1, <2>2, AloneStep DEF delete_app_token
  <2> QED
    BY <2>2 DEF Alone, Admins, Holders, AloneOK
<1>9. ASSUME NEW t \in scope.tasks, lose_task(t)
      PROVE  Alone' /\ StandingIsTold'
  <2>1. task'[t].pc = "idle" /\ tokens' = tokens /\ projects' = projects
    BY <1>9, ScopeOK DEF lose_task, Become, Idle, Typed, TasksOK
  <2>2. StandingIsTold'
    <3>1. CASE task[t].pc = "notify"
      <4>1. ASSUME OneAtATime PROVE untold' \subseteq unheard'
        <5>1. \A u \in Task \ {t} : task[u].pc = "idle"
          BY <4>1, Served
        <5>2. \A x \in untold \ unheard : x \in revoked(t)
          BY <4>1, <5>1 DEF StandingIsTold
        <5> QED
          BY <1>9, <3>1, <5>2 DEF lose_task
      <4> QED
        BY <1>9, <4>1 DEF lose_task, StandingIsTold, OneAtATime
    <3>2. CASE task[t].pc # "notify"
      BY <1>9, <3>2, NothingToTell DEF lose_task
    <3> QED
      BY <3>1, <3>2
  <2> SUFFICES ASSUME OneAtATime PROVE Admins' /\ Holders' /\ AloneOK(t)'
    BY <1>9, <2>1, <2>2, OthersStay, AloneStep DEF lose_task
  <2> QED
    BY <2>1 DEF Alone, Admins, Holders, AloneOK
<1> QED
  BY <1>1, <1>2, <1>3, <1>4, <1>5, <1>6, <1>7, <1>8, <1>9, TaskStepAlone DEF Next

LEMMA ProjectsInvariant == Spec => [](Typed /\ Alone /\ StandingIsTold)
<1>1. Init => Kept /\ Alone /\ StandingIsTold
  <2> SUFFICES ASSUME Init PROVE Kept /\ Alone /\ StandingIsTold
    OBVIOUS
  <2>1. \A t \in Task : task[t].pc = "idle"
    BY DEF Init, Idle
  <2>2. \A t \in Task : AloneOK(t)
    BY <2>1 DEF AloneOK
  <2> QED
    BY <2>2, InitKept DEF Init, Alone, Admins, Holders, StandingIsTold
<1>2. Typed /\ Kept /\ Alone /\ StandingIsTold /\ [Next]_vars
      => (Typed /\ Kept /\ Alone /\ StandingIsTold)'
  <2>1. ASSUME Kept, Alone, StandingIsTold, UNCHANGED vars
        PROVE  (Kept /\ Alone /\ StandingIsTold)'
    <3>1. Kept'
      BY <2>1, UnchangedKept
    <3>2. \A t \in Task : revoked(t)' = revoked(t) /\ AloneOK(t)' = AloneOK(t)
      BY <2>1 DEF vars, revoked, AloneOK, UpdateOK
    <3>3. (OneAtATime' <=> OneAtATime) /\ (Admins' <=> Admins) /\ (Holders' <=> Holders)
      BY <2>1 DEF vars, OneAtATime, Admins, Holders
    <3>4. Alone'
      BY <2>1, <3>2, <3>3 DEF Alone
    <3>5. StandingIsTold'
      BY <2>1, <3>2, <3>3 DEF vars, StandingIsTold
    <3> QED
      BY <3>1, <3>4, <3>5
  <2> QED
    BY <2>1, NextTyped, UnchangedTyped, NextKept, NextAlone
<1> QED
  BY <1>1, <1>2, InitTyped, PTL DEF Spec

(* update_project and remove_member of auth/projects/service.py: requests  *)
(* that are not interrupted by others leave every project with its admin   *)
(* among its members, even if a process dies with one.                     *)
THEOREM AdminsAreMembers == Spec => []AdminIsMember
<1>1. Alone => AdminIsMember
  BY DEF Alone, Admins, AdminIsMember
<1> QED
  BY <1>1, ProjectsInvariant, PTL

(* delete_non_member_tokens and delete_project_tokens: no token outlives   *)
(* the membership it was given for, at any point of any request.           *)
THEOREM TokensAreOfMembers == Spec => []TokensOfMembers
<1>1. Alone => TokensOfMembers
  BY DEF Alone, Holders, TokensOfMembers
<1> QED
  BY <1>1, ProjectsInvariant, PTL

(* notify_membership_change and notify_membership_revoked: who lost their  *)
(* membership is told, or is the one the request under way is about to     *)
(* tell, unless create_system_notice failed with, or a process died with,  *)
(* that very notice.                                                       *)
THEOREM FormerMembersAreTold == Spec => []StandingIsTold
  BY ProjectsInvariant, PTL
=============================================================================
