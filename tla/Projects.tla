------------------------------ MODULE Projects ------------------------------
(***************************************************************************)
(* Projects, their members and admin, and the app tokens by which members  *)
(* submit jobs on them.  A request to the API is a task; it may be         *)
(* interrupted at each database call, so what it read may be out of date   *)
(* when it writes.  Users are known by their ids: the emails of requests   *)
(* have been looked up.                                                    *)
(***************************************************************************)
EXTENDS Naturals, FiniteSets

CONSTANTS
  User,             \* user ids
  Project,          \* project ids
  Task,             \* requests in progress at the same time
  None,             \* Python's None
  Scopes            \* the instances: see the variable `scope`

(* A personal project's id is derived from its owner's.                    *)
ASSUME ProjectsAssumption ==
  /\ \A s \in Scopes :
       /\ s.owner \in [Project -> User \cup {None}]
       /\ \A p, q \in Project : s.owner[p] = s.owner[q] /\ s.owner[p] # None => p = q
       /\ s.users \subseteq User
       /\ s.tasks \subseteq Task /\ IsFiniteSet(s.tasks)
       /\ {s.changes, s.lost} \subseteq Nat
  /\ None \notin User \cup Project
  /\ None \notin [admin : User, members : SUBSET User, active : BOOLEAN]

VARIABLES
  scope,       \* the owner of each project, or None if it is shared; the users; the tasks,
               \* which are served at the same time; how many changes there are, and how
               \* many tasks and notices are lost.  Never changes.
  projects,    \* the auth_projects table: [Project -> ProjectRecord or None]
  deleted,     \* the deleted_projects table: which of a project's lives, counted by its
               \* creations, the copy is of that has its id, 0 if there is none
  tokens,      \* the app tokens: pairs of a project and a user
  task,        \* what each request is doing
  untold,      \* who lost their membership of what, and was not told
  unheard,     \* those among them whose notice was lost, or died with its process
  orphans,     \* the projects with which a process died after it deleted them
  creations,   \* how often each project was created
  erasures,    \* how often a superuser deleted each project
  changes, lost

vars == <<scope, projects, deleted, tokens, task, untold, unheard, orphans,
          creations, erasures, changes, lost>>

ProjectRecord == [admin : User, members : SUBSET User, active : BOOLEAN]

(* A task's place, and its local variables: the members of the project as  *)
(* it read them; what it means to write (no admin and no `active` where it *)
(* leaves them alone, and the members only if it `lists` them); the user   *)
(* it acts for or removes; and the life in which it read what it deletes.  *)
TaskState ==
  [pc : {"idle", "revoke_tokens", "write", "notify", "delete_tokens",
         "delete_project", "keep_copy", "insert_token", "insert_personal"},
   project : Project \cup {None}, user : User \cup {None},
   old : SUBSET User, members : SUBSET User, lists : BOOLEAN,
   admin : User \cup {None}, active : BOOLEAN \cup {None}, life : Nat]

Idle == [pc |-> "idle", project |-> None, user |-> None, old |-> {},
         members |-> {}, lists |-> FALSE, admin |-> None, active |-> None, life |-> 0]
Starting(pc, p) == [Idle EXCEPT !.pc = pc, !.project = p]

TypeOK ==
  /\ scope \in Scopes
  /\ projects \in [Project -> ProjectRecord \cup {None}]
  /\ deleted \in [Project -> Nat]
  /\ tokens \in SUBSET (Project \X User)
  /\ task \in [Task -> TaskState]
  /\ untold \in SUBSET (Project \X User) /\ unheard \in SUBSET untold
  /\ orphans \in SUBSET Project
  /\ creations \in [Project -> Nat] /\ erasures \in [Project -> Nat]
  /\ changes \in Nat /\ lost \in Nat
  /\ \A t \in Task : task[t].pc # "idle" => task[t].project \in Project

Init ==
  /\ scope \in Scopes
  /\ projects = [p \in Project |-> None]
  /\ deleted = [p \in Project |-> 0]
  /\ tokens = {} /\ untold = {} /\ unheard = {} /\ orphans = {}
  /\ task = [t \in Task |-> Idle]
  /\ creations = [p \in Project |-> 0] /\ erasures = [p \in Project |-> 0]
  /\ changes = 0 /\ lost = 0

Become(t, state) == task' = [task EXCEPT ![t] = state]
Goto(t, pc) == task' = [task EXCEPT ![t].pc = pc]
Change == changes < scope.changes /\ changes' = changes + 1

(* The members of p become those of the set: who is dropped is to be told. *)
Dropped(p, members) ==
  /\ untold' = {x \in untold : x[1] # p \/ x[2] \notin members}
                 \cup {<<p, u>> : u \in projects[p].members \ members}
  /\ unheard' = {x \in unheard : x[1] # p \/ x[2] \notin members}

---------------------------------------------------------------------------
(* A superuser creates a shared project, or approves a request for one.    *)
create_project(t, p, admin, members) ==
  /\ Change
  /\ task[t].pc = "idle"
  /\ scope.owner[p] = None
  /\ creations[p] = 0
  /\ projects' = [projects EXCEPT ![p] =
       [admin |-> admin, members |-> members \cup {admin}, active |-> TRUE]]
  /\ creations' = [creations EXCEPT ![p] = 1]
  /\ UNCHANGED <<scope, deleted, tokens, task, untold, unheard, orphans, erasures,
                 lost>>

(* Updates of one document, done for approved requests.                    *)

add_member(p, u) ==
  projects' = [projects EXCEPT ![p].members = @ \cup {u}]

set_admin(p, u) ==
  projects' = [projects EXCEPT ![p].admin = u, ![p].members = @ \cup {u}]

(* A request for access, or for a transfer, is approved.                   *)
approve(t, p, u) ==
  /\ Change
  /\ task[t].pc = "idle"
  /\ projects[p] # None
  /\ add_member(p, u) \/ set_admin(p, u)
  /\ untold' = untold \ {<<p, u>>} /\ unheard' = unheard \ {<<p, u>>}
  /\ UNCHANGED <<scope, deleted, tokens, task, orphans, creations, erasures, lost>>

---------------------------------------------------------------------------
(* Removing a member, and a superuser's update of a project.               *)

(* Mutant: the admin may be removed.                                       *)
remove_member_Any(t, p, u) ==
  /\ Change
  /\ task[t].pc = "idle"
  /\ projects[p] # None
  /\ u \in projects[p].members
  /\ Become(t, [Starting("revoke_tokens", p) EXCEPT
                  !.user = u, !.old = projects[p].members,
                  !.members = projects[p].members \ {u}, !.lists = TRUE])
  /\ UNCHANGED <<scope, projects, deleted, tokens, untold, unheard, orphans, creations,
                 erasures, lost>>

(* The project is read; its admin cannot be removed, nor who is no member. *)
remove_member(t, p, u) ==
  /\ Change
  /\ task[t].pc = "idle"
  /\ projects[p] # None
  /\ u # projects[p].admin
  /\ u \in projects[p].members
  /\ Become(t, [Starting("revoke_tokens", p) EXCEPT
                  !.user = u, !.old = projects[p].members,
                  !.members = projects[p].members \ {u}, !.lists = TRUE])
  /\ UNCHANGED <<scope, projects, deleted, tokens, untold, unheard, orphans, creations,
                 erasures, lost>>

(* The project is read.  Its members, its admin and whether it is active   *)
(* are replaced where they are given (not None), the admin is made a       *)
(* member, and is written in any case.  The list is written when it        *)
(* differs from the one read, if only in its order.                        *)
update_project(t, p, members, admin, active) ==
  /\ Change
  /\ task[t].pc = "idle"
  /\ projects[p] # None
  /\ LET old == projects[p].members
         newAdmin == IF admin = None THEN projects[p].admin ELSE admin
         new == (IF members = None THEN old ELSE members) \cup {newAdmin} IN
       \E lists \in {new # old} \cup (IF members = None THEN {} ELSE {TRUE}) :
         Become(t, [Starting(IF lists THEN "revoke_tokens" ELSE "write", p) EXCEPT
                      !.old = old, !.members = new, !.lists = lists,
                      !.admin = newAdmin, !.active = active])
  /\ UNCHANGED <<scope, projects, deleted, tokens, untold, unheard, orphans, creations,
                 erasures, lost>>

(* Mutant: the tokens of former members are left.                          *)
delete_non_member_tokens_None(t) ==
  /\ task[t].pc = "revoke_tokens"
  /\ Goto(t, "write")
  /\ UNCHANGED <<scope, projects, deleted, tokens, untold, unheard, orphans, creations,
                 erasures, changes, lost>>

delete_non_member_tokens(t) ==
  /\ task[t].pc = "revoke_tokens"
  /\ tokens' = {x \in tokens : x[1] # task[t].project \/ x[2] \in task[t].members}
  /\ Goto(t, "write")
  /\ UNCHANGED <<scope, projects, deleted, untold, unheard, orphans, creations,
                 erasures, changes, lost>>

(* The project p as the task's update leaves it.                           *)
Written(t, p) ==
  [admin |-> IF task[t].admin = None THEN projects[p].admin ELSE task[t].admin,
   members |-> IF task[t].lists THEN task[t].members ELSE projects[p].members,
   active |-> IF task[t].active = None THEN projects[p].active ELSE task[t].active]

(* The project is written; one that is gone makes the request fail.        *)
write_project(t) ==
  /\ task[t].pc = "write"
  /\ LET p == task[t].project IN
       IF projects[p] = None
       THEN Become(t, Idle) /\ UNCHANGED <<projects, untold, unheard>>
       ELSE /\ projects' = [projects EXCEPT ![p] = Written(t, p)]
            /\ Dropped(p, Written(t, p).members)
            /\ task' = [task EXCEPT ![t].pc = "notify",
                                    ![t].members = Written(t, p).members]
  /\ UNCHANGED <<scope, deleted, tokens, orphans, creations, erasures, changes, lost>>

(* Whom the task tells that they lost their membership: the member it      *)
(* removed, or who is missing compared to the project as it was read.      *)
(* (Who gained one is told likewise.)                                      *)
revoked(t) ==
  {<<task[t].project, u>> :
     u \in IF task[t].user # None THEN {task[t].user} ELSE task[t].old \ task[t].members}

(* Mutant: nobody is told.                                                 *)
notify_membership_change_Nobody(t) ==
  /\ task[t].pc = "notify"
  /\ Become(t, Idle)
  /\ UNCHANGED <<scope, projects, deleted, tokens, untold, unheard, orphans, creations,
                 erasures, changes, lost>>

(* create_system_notice catches what goes wrong: the request succeeds, but *)
(* its notice is lost.                                                     *)
notify_membership_change(t) ==
  /\ task[t].pc = "notify"
  /\ \/ untold' = untold \ revoked(t) /\ unheard' = unheard \ revoked(t) /\ UNCHANGED lost
     \/ /\ lost < scope.lost /\ lost' = lost + 1
        /\ unheard' = unheard \cup (untold \cap revoked(t))
        /\ UNCHANGED untold
  /\ Become(t, Idle)
  /\ UNCHANGED <<scope, projects, deleted, tokens, orphans, creations, erasures, changes>>

---------------------------------------------------------------------------
(* Deleting a project.                                                     *)

(* Mutant: an owner may delete their personal project.                     *)
delete_project_Any(t, p, superuser) ==
  /\ Change
  /\ task[t].pc = "idle" /\ projects[p] # None
  /\ erasures' = IF superuser THEN [erasures EXCEPT ![p] = @ + 1] ELSE erasures
  /\ Become(t, [Starting("delete_tokens", p) EXCEPT !.life = creations[p]])
  /\ UNCHANGED <<scope, projects, deleted, tokens, untold, unheard, orphans, creations,
                 lost>>

(* The project is read, by its admin or a superuser; only a superuser may  *)
(* delete a personal one.                                                  *)
delete_project(t, p, superuser) ==
  /\ Change
  /\ task[t].pc = "idle"
  /\ projects[p] # None
  /\ scope.owner[p] # None => superuser
  /\ erasures' = IF superuser THEN [erasures EXCEPT ![p] = @ + 1] ELSE erasures
  /\ Become(t, [Starting("delete_tokens", p) EXCEPT !.life = creations[p]])
  /\ UNCHANGED <<scope, projects, deleted, tokens, untold, unheard, orphans, creations,
                 lost>>

delete_project_tokens(t) ==
  /\ task[t].pc = "delete_tokens"
  /\ tokens' = {x \in tokens : x[1] # task[t].project}
  /\ Goto(t, "delete_project")
  /\ UNCHANGED <<scope, projects, deleted, untold, unheard, orphans, creations,
                 erasures, changes, lost>>

delete_from_projects(t) ==
  /\ task[t].pc = "delete_project"
  /\ projects' = [projects EXCEPT ![task[t].project] = None]
  /\ untold' = {x \in untold : x[1] # task[t].project}
  /\ unheard' = {x \in unheard : x[1] # task[t].project}
  /\ Goto(t, "keep_copy")
  /\ UNCHANGED <<scope, deleted, tokens, orphans, creations, erasures, changes, lost>>

(* Mutant: a personal project leaves no copy.                              *)
insert_deleted_project_Shared(t) ==
  /\ task[t].pc = "keep_copy"
  /\ LET p == task[t].project IN
       deleted' = IF scope.owner[p] # None \/ deleted[p] # 0 THEN deleted
                  ELSE [deleted EXCEPT ![p] = task[t].life]
  /\ Become(t, Idle)
  /\ UNCHANGED <<scope, projects, tokens, untold, unheard, orphans, creations, erasures,
                 changes, lost>>

(* The copy of what was read is kept.  When there is one of that id, of an *)
(* earlier life or by another request, it stays and the request fails.     *)
insert_deleted_project(t) ==
  /\ task[t].pc = "keep_copy"
  /\ LET p == task[t].project IN
       deleted' = IF deleted[p] # 0 THEN deleted ELSE [deleted EXCEPT ![p] = task[t].life]
  /\ Become(t, Idle)
  /\ UNCHANGED <<scope, projects, tokens, untold, unheard, orphans, creations, erasures,
                 changes, lost>>

---------------------------------------------------------------------------
(* App tokens, and personal projects.                                      *)

(* create_app_token reads the project, of which the user must be a member. *)
create_app_token(t, p, u) ==
  /\ task[t].pc = "idle"
  /\ projects[p] # None
  /\ u \in projects[p].members
  /\ projects[p].active
  /\ Become(t, [Starting("insert_token", p) EXCEPT !.user = u])
  /\ UNCHANGED <<scope, projects, deleted, tokens, untold, unheard, orphans, creations,
                 erasures, changes, lost>>

insert_token(t) ==
  /\ task[t].pc = "insert_token"
  /\ tokens' = tokens \cup {<<task[t].project, task[t].user>>}
  /\ Become(t, Idle)
  /\ UNCHANGED <<scope, projects, deleted, untold, unheard, orphans, creations,
                 erasures, changes, lost>>

(* A token is deleted by its user, or when it is found to have expired.    *)
delete_app_token(t, x) ==
  /\ task[t].pc = "idle"
  /\ x \in tokens
  /\ tokens' = tokens \ {x}
  /\ UNCHANGED <<scope, projects, deleted, task, untold, unheard, orphans, creations,
                 erasures, changes, lost>>

(* At a login, the user's personal project is looked for,                  *)
ensure_personal_project(t, p) ==
  /\ Change
  /\ task[t].pc = "idle"
  /\ scope.owner[p] # None
  /\ projects[p] = None
  /\ Become(t, Starting("insert_personal", p))
  /\ UNCHANGED <<scope, projects, deleted, tokens, untold, unheard, orphans, creations,
                 erasures, lost>>

(* and inserted, unless another login has done so meanwhile.               *)
insert_personal_project(t) ==
  /\ task[t].pc = "insert_personal"
  /\ LET p == task[t].project IN
       IF projects[p] = None
       THEN /\ projects' = [projects EXCEPT ![p] =
                 [admin |-> scope.owner[p], members |-> {scope.owner[p]}, active |-> TRUE]]
            /\ creations' = [creations EXCEPT ![p] = @ + 1]
       ELSE UNCHANGED <<projects, creations>>
  /\ Become(t, Idle)
  /\ UNCHANGED <<scope, deleted, tokens, untold, unheard, orphans, erasures, changes,
                 lost>>

(* A process dies with the request it was serving, or the request fails as *)
(* its next database call does.                                            *)
lose_task(t) ==
  /\ lost < scope.lost /\ lost' = lost + 1
  /\ task[t].pc # "idle"
  /\ unheard' = IF task[t].pc = "notify" THEN unheard \cup (untold \cap revoked(t)) ELSE unheard
  /\ orphans' = IF task[t].pc = "keep_copy" THEN orphans \cup {task[t].project} ELSE orphans
  /\ Become(t, Idle)
  /\ UNCHANGED <<scope, projects, deleted, tokens, untold, creations, erasures, changes>>

---------------------------------------------------------------------------
TaskStep(t) ==
  \/ delete_non_member_tokens(t)
  \/ write_project(t)
  \/ notify_membership_change(t)
  \/ delete_project_tokens(t)
  \/ delete_from_projects(t)
  \/ insert_deleted_project(t)
  \/ insert_token(t)
  \/ insert_personal_project(t)

Next ==
  \/ \E t \in scope.tasks, p \in Project, admin \in scope.users, members \in SUBSET scope.users :
       create_project(t, p, admin, members)
  \/ \E t \in scope.tasks, p \in Project, u \in scope.users : approve(t, p, u)
  \/ \E t \in scope.tasks, p \in Project, u \in scope.users : remove_member(t, p, u)
  \/ \E t \in scope.tasks, p \in Project, members \in (SUBSET scope.users) \cup {None},
        admin \in scope.users \cup {None}, active \in BOOLEAN \cup {None} :
       update_project(t, p, members, admin, active)
  \/ \E t \in scope.tasks, p \in Project, superuser \in BOOLEAN :
       delete_project(t, p, superuser)
  \/ \E t \in scope.tasks, p \in Project, u \in scope.users : create_app_token(t, p, u)
  \/ \E t \in scope.tasks, x \in Project \X scope.users : delete_app_token(t, x)
  \/ \E t \in scope.tasks, p \in Project : ensure_personal_project(t, p)
  \/ \E t \in scope.tasks : TaskStep(t)
  \/ \E t \in scope.tasks : lose_task(t)
Spec == Init /\ [][Next]_vars

---------------------------------------------------------------------------
(* Properties.                                                             *)

OneAtATime == Cardinality(scope.tasks) = 1

(* update_project: "The admin is always a member."                         *)
AdminIsMember ==
  OneAtATime =>
  \A p \in Project : projects[p] # None => projects[p].admin \in projects[p].members

(* update_project: "A member who leaves loses their app tokens for it",    *)
(* before the membership; and a deleted project has none left.             *)
TokensOfMembers ==
  OneAtATime =>
  \A x \in tokens : projects[x[1]] # None /\ x[2] \in projects[x[1]].members

(* notify_membership_change: "Tells users whose standing on a project      *)
(* changed".  Who lost their membership since they last had it is told, or *)
(* is about to be, but for those whose own notice was lost.                *)
StandingIsTold ==
  OneAtATime =>
  \A x \in untold \ unheard :
    \E t \in Task : task[t].pc = "notify" /\ x \in revoked(t)

(* ensure_personal_project: "two logins at once create it only once", and  *)
(* delete_project keeps a personal project from being "an allowance farm": *)
(* its allowance is given once, and once more for each time a superuser    *)
(* deletes it.                                                             *)
AllowanceOnce ==
  \A p \in Project : creations[p] <= 1 + erasures[p]

(* delete_project: a project that was made once, as every shared one is,   *)
(* and is gone has its copy among the deleted ones, or is about to; but    *)
(* for those with which a process died between the two writes.  It is not  *)
(* so of a personal project's later lives, whose copies are refused.       *)
GoneIsKept ==
  \A p \in Project \ orphans :
    projects[p] = None /\ creations[p] = 1 =>
      \/ deleted[p] = 1
      \/ \E t \in Task : task[t].pc = "keep_copy" /\ task[t].project = p
=============================================================================
