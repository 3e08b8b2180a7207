------------------------------- MODULE Jobs -------------------------------
(***************************************************************************)
(* The jobs service of MSS and the billing of QPU seconds: how a job is    *)
(* created (by the SDK or from the dashboard), uploaded, updated by the    *)
(* events its backend sends over websockets, cancelled and deleted, and    *)
(* how the QPU seconds it used are taken from its project.                 *)
(*                                                                         *)
(* Every await of the code is a point where another task may run, so each  *)
(* database call and each call to a backend is a step of its own.  A task  *)
(* is a websocket handler (one per socket, one frame at a time) or an HTTP *)
(* request.                                                                *)
(***************************************************************************)
EXTENDS Integers, Sequences, FiniteSets

CONSTANTS
  Job,              \* job ids
  Project,          \* project ids
  Socket,           \* websockets that backend processes hold open to MSS
  Request,          \* HTTP requests in progress at the same time
  None,             \* Python's None: no such record
  Usage,            \* [Job -> Nat], the seconds a job's execution takes
  InitialSeconds,   \* [Project -> Int], the QPU seconds a project starts with
  LowThreshold,     \* projects.qpu_seconds_low_threshold of the config
  Route,            \* [Job -> SUBSET Socket], where a job's events may be sent
  TopUpSeconds,     \* the QPU seconds an approved request adds
  MaxTopUps,        \* bound: approved requests for more QPU seconds
  MaxFailures,      \* bound: tasks lost to a crash, and sockets that break
  CanTimeOut        \* whether an answer of a backend may come too late

(* What the code guarantees of its parameters: QPU seconds are numbers, a  *)
(* job's events have somewhere to go and None is no id.                    *)
ASSUME JobsAssumption ==
  /\ Usage \in [Job -> Nat]
  /\ InitialSeconds \in [Project -> Int]
  /\ LowThreshold \in Int
  /\ Route \in [Job -> SUBSET Socket]
  /\ TopUpSeconds \in Nat
  /\ MaxTopUps \in Nat
  /\ MaxFailures \in Nat
  /\ CanTimeOut \in BOOLEAN
  /\ None \notin Job
  /\ None \notin Project

VARIABLES
  jobs,         \* the jobs table: [Job -> JobRecord or None]
  seconds,      \* the projects table: [Project -> qpu_seconds, or None]
  run,          \* the backends' view of each job
  executed,     \* the jobs whose execution has finished at the backend
  inbox,        \* the frames sent over each socket and not yet handled
  handler,      \* what each socket's handler is doing
  request,      \* what each HTTP request is doing
  created,      \* the job ids given out
  discarded,    \* the jobs that submit_job gave up on
  charges,      \* how often each job's usage was taken from its project
  alerts,       \* the depleted and low notices of each project
  topups,       \* the number of top-ups so far
  failures      \* the number of tasks and sockets lost so far

vars == <<jobs, seconds, run, executed, inbox, handler, request, created,
          discarded, charges, alerts, topups, failures>>

JobStatus == {"pending", "executing", "successful", "failed", "cancelled"}

(* What a job record keeps that matters here; `timed` says whether its     *)
(* timestamps hold both ends of the execution, i.e. whether                *)
(* duration_in_secs is a number.                                           *)
JobRecord ==
  [status : JobStatus, timed : BOOLEAN, project : Project, source : BOOLEAN]

(* The job_updated event.  Its timestamps are absent, or hold what is      *)
(* known so far: with the execution's end ("finished") or without.         *)
JobUpdate ==
  [job : Job, status : JobStatus,
   timestamps : {"absent", "unfinished", "finished"}]

Stage == {"none", "deleted"} \cup JobStatus
FinalStage == {"deleted", "successful", "failed", "cancelled"}

Idle == [pc |-> "idle", job |-> None, project |-> None]
HandlerState ==
  [pc : {"idle", "usage", "increment", "depleted", "low"},
   job : Job \cup {None}, project : Project \cup {None}]
NoRequest == [pc |-> "idle", job |-> None, project |-> None, dashboard |-> FALSE]
RequestState ==
  [pc : {"idle", "token", "insert", "upload", "source", "discard",
         "bcc_cancel", "mark_cancelled", "bcc_delete", "delete"},
   job : Job \cup {None}, project : Project \cup {None}, dashboard : BOOLEAN]

(* A task that has begun has the job, and where it needs one the project,  *)
(* that it is about.                                                       *)
TasksOK ==
  /\ \A s \in Socket :
       /\ handler[s].pc # "idle" => handler[s].job \in Job
       /\ handler[s].pc \in {"increment", "depleted", "low"} =>
            handler[s].project \in Project
  /\ \A r \in Request :
       /\ request[r].pc # "idle" => request[r].job \in Job
       /\ request[r].pc \in {"token", "insert"} => request[r].project \in Project

TypeOK ==
  /\ jobs \in [Job -> JobRecord \cup {None}]
  /\ seconds \in [Project -> Int \cup {None}]
  /\ run \in [Job -> Stage]
  /\ executed \in SUBSET Job
  /\ inbox \in [Socket -> Seq(JobUpdate)]
  /\ handler \in [Socket -> HandlerState]
  /\ request \in [Request -> RequestState]
  /\ created \in SUBSET Job
  /\ discarded \in SUBSET Job
  /\ charges \in [Job -> Nat]
  /\ alerts \in [Project -> [depleted : Nat, low : Nat]]
  /\ topups \in Nat
  /\ failures \in Nat
  /\ TasksOK

Init ==
  /\ jobs = [j \in Job |-> None]
  /\ seconds = InitialSeconds
  /\ run = [j \in Job |-> "none"]
  /\ executed = {}
  /\ inbox = [s \in Socket |-> <<>>]
  /\ handler = [s \in Socket |-> Idle]
  /\ request = [r \in Request |-> NoRequest]
  /\ created = {}
  /\ discarded = {}
  /\ charges = [j \in Job |-> 0]
  /\ alerts = [p \in Project |-> [depleted |-> 0, low |-> 0]]
  /\ topups = 0
  /\ failures = 0

---------------------------------------------------------------------------
(* HTTP requests.                                                          *)

Goto(r, pc) == request' = [request EXCEPT ![r].pc = pc]
Finish(r) == request' = [request EXCEPT ![r] = NoRequest]

(* check_project_access under the STRICT rule.                             *)
check_project_access(p) == seconds[p] # None /\ seconds[p] > 0

(* The dependency of create_one, or submit_job up to create_job: the       *)
(* project is checked, and a new job id is given out.                      *)
check_access(r, j, p, dashboard) ==
  /\ request[r].pc = "idle"
  /\ j \notin created
  /\ check_project_access(p)
  /\ created' = created \cup {j}
  /\ request' = [request EXCEPT ![r] =
       [pc |-> "token", job |-> j, project |-> p, dashboard |-> dashboard]]
  /\ UNCHANGED <<jobs, seconds, run, executed, inbox, handler, discarded,
                 charges, alerts, topups, failures>>

(* create_job asks the backend for the job's token; without it there is no *)
(* job.                                                                    *)
get_token(r) ==
  /\ request[r].pc = "token"
  /\ Goto(r, "insert") \/ Finish(r)
  /\ UNCHANGED <<jobs, seconds, run, executed, inbox, handler, created,
                 discarded, charges, alerts, topups, failures>>

(* create_job stores the job, pending.  The SDK gets the token and uploads *)
(* the job itself; submit_job goes on to upload it.                        *)
insert_job(r) ==
  /\ request[r].pc = "insert"
  /\ jobs' = [jobs EXCEPT ![request[r].job] =
       [status |-> "pending", timed |-> FALSE,
        project |-> request[r].project, source |-> FALSE]]
  /\ IF request[r].dashboard THEN Goto(r, "upload") ELSE Finish(r)
  /\ UNCHANGED <<seconds, run, executed, inbox, handler, created, discarded,
                 charges, alerts, topups, failures>>

(* The backend tells MSS of a job over one of the sockets it may use.      *)
Send(j, status, timestamps) ==
  \E s \in Route[j] :
    inbox' = [inbox EXCEPT ![s] =
      Append(@, [job |-> j, status |-> status, timestamps |-> timestamps])]

(* The backend takes an uploaded job.                                      *)
Take(j) ==
  /\ run[j] = "none"
  /\ run' = [run EXCEPT ![j] = "pending"]
  /\ Send(j, "pending", "unfinished")

(* The SDK uploads the job that it was given a token for.                  *)
sdk_upload(j) ==
  /\ jobs[j] # None
  /\ \A r \in Request : request[r].job # j
  /\ Take(j)
  /\ UNCHANGED <<jobs, seconds, executed, handler, request, created,
                 discarded, charges, alerts, topups, failures>>

(* upload_job: the backend takes the job and says so, refuses it, cannot   *)
(* be reached, or takes it and its answer does not come in time.           *)
upload_job(r) ==
  /\ request[r].pc = "upload"
  /\ \/ Take(request[r].job) /\ Goto(r, "source")
     \/ Goto(r, "discard") /\ UNCHANGED <<run, inbox>>
     \/ CanTimeOut /\ Take(request[r].job) /\ Goto(r, "discard")
  /\ UNCHANGED <<jobs, seconds, executed, handler, created, discarded,
                 charges, alerts, topups, failures>>

(* submit_job deletes the job that could not be uploaded.                  *)
discard_job(r) ==
  /\ request[r].pc = "discard"
  /\ jobs' = [jobs EXCEPT ![request[r].job] = None]
  /\ discarded' = discarded \cup {request[r].job}
  /\ Finish(r)
  /\ UNCHANGED <<seconds, run, executed, inbox, handler, created, charges,
                 alerts, topups, failures>>

(* submit_job keeps the job's source, and answers with the job, or not     *)
(* found when it was deleted meanwhile.                                    *)
set_source(r) ==
  /\ request[r].pc = "source"
  /\ LET j == request[r].job IN
       jobs' = IF jobs[j] = None THEN jobs
               ELSE [jobs EXCEPT ![j].source = TRUE]
  /\ Finish(r)
  /\ UNCHANGED <<seconds, run, executed, inbox, handler, created, discarded,
                 charges, alerts, topups, failures>>

(* The cancel and delete endpoints first get the job, or answer 404.       *)
get_job(r, j, next) ==
  /\ request[r].pc = "idle"
  /\ jobs[j] # None
  /\ request' = [request EXCEPT ![r] =
       [pc |-> next, job |-> j, project |-> None, dashboard |-> FALSE]]
  /\ UNCHANGED <<jobs, seconds, run, executed, inbox, handler, created,
                 discarded, charges, alerts, topups, failures>>

(* The timestamps a backend may send with a change of status alone.        *)
SentTimestamps(j) ==
  {"absent", IF j \in executed THEN "finished" ELSE "unfinished"}

(* Mutant: the answer's status is not looked at.                           *)
bcc_cancel_job_Unchecked(r) ==
  /\ request[r].pc = "bcc_cancel"
  /\ Goto(r, "mark_cancelled")
  /\ UNCHANGED <<jobs, seconds, run, executed, inbox, handler, created,
                 discarded, charges, alerts, topups, failures>>

(* BccClient.cancel_job: the backend cancels a job it has not ended, and   *)
(* says so in its answer and in an event; or it refuses, or the answer is  *)
(* an error.                                                               *)
bcc_cancel_job(r) ==
  /\ request[r].pc = "bcc_cancel"
  /\ LET j == request[r].job IN
     \/ /\ run[j] \notin FinalStage \cup {"none"}
        /\ run' = [run EXCEPT ![j] = "cancelled"]
        /\ \E t \in SentTimestamps(j) : Send(j, "cancelled", t)
        /\ Goto(r, "mark_cancelled") \/ (CanTimeOut /\ Finish(r))
     \/ Finish(r) /\ UNCHANGED <<run, inbox>>
  /\ UNCHANGED <<jobs, seconds, executed, handler, created, discarded,
                 charges, alerts, topups, failures>>

(* cancel_job marks the job cancelled, or answers not found.               *)
cancel_job(r) ==
  /\ request[r].pc = "mark_cancelled"
  /\ LET j == request[r].job IN
       jobs' = IF jobs[j] = None THEN jobs
               ELSE [jobs EXCEPT ![j].status = "cancelled"]
  /\ Finish(r)
  /\ UNCHANGED <<seconds, run, executed, inbox, handler, created, discarded,
                 charges, alerts, topups, failures>>

(* BccClient.delete_job: the backend forgets the job, or refuses, or its   *)
(* answer is an error.                                                     *)
bcc_delete_job(r) ==
  /\ request[r].pc = "bcc_delete"
  /\ LET j == request[r].job IN
     \/ /\ run[j] # "none"
        /\ run' = [run EXCEPT ![j] = "deleted"]
        /\ Goto(r, "delete") \/ (CanTimeOut /\ Finish(r))
     \/ Finish(r) /\ UNCHANGED run
  /\ UNCHANGED <<jobs, seconds, executed, inbox, handler, created, discarded,
                 charges, alerts, topups, failures>>

(* delete_job deletes the job, or answers not found.                       *)
delete_job(r) ==
  /\ request[r].pc = "delete"
  /\ jobs' = [jobs EXCEPT ![request[r].job] = None]
  /\ Finish(r)
  /\ UNCHANGED <<seconds, run, executed, inbox, handler, created, discarded,
                 charges, alerts, topups, failures>>

---------------------------------------------------------------------------
(* The backend runs the jobs it took.                                      *)

BackendStep(j, from, to, timestamps) ==
  /\ run[j] = from
  /\ run' = [run EXCEPT ![j] = to]
  /\ Send(j, to, timestamps)
  /\ UNCHANGED <<jobs, seconds, handler, request, created, discarded,
                 charges, alerts, topups, failures>>

(* The job's execution starts.                                             *)
bcc_start(j) ==
  /\ BackendStep(j, "pending", "executing", "unfinished")
  /\ UNCHANGED executed

(* Its execution ends; the results are yet to be processed.                *)
bcc_executed(j) ==
  /\ j \notin executed
  /\ executed' = executed \cup {j}
  /\ BackendStep(j, "executing", "executing", "finished")

(* The job is done, or fails, before or after its execution ended.         *)
bcc_end(j) ==
  /\ \/ /\ j \in executed
        /\ \E t \in SentTimestamps(j) :
             BackendStep(j, "executing", "successful", t)
     \/ \E t \in SentTimestamps(j), from \in {"pending", "executing"} :
          BackendStep(j, from, "failed", t)
  /\ UNCHANGED executed

---------------------------------------------------------------------------
(* The websocket handler of socket s: on_job_updated_event.                *)

(* update_job replaces the timestamps whole when the event has any.        *)
update_job(record, e) ==
  [record EXCEPT
     !.status = e.status,
     !.timed = IF e.timestamps = "absent" THEN @ ELSE e.timestamps = "finished"]

(* Mutants: every report bills; only the report of a success bills.        *)
IsFirstReport_Every(record, e) == e.timestamps = "finished"
IsFirstReport_Success(record, e) ==
  ~record.timed /\ e.timestamps = "finished" /\ e.status = "successful"

(* The usage is taken when the job as it was before the update had no      *)
(* duration and the event gives it one.                                    *)
IsFirstReport(record, e) == ~record.timed /\ e.timestamps = "finished"

(* The first step stores the update and decides whether to bill.  For a    *)
(* job that is not there the handler answers with an error.                *)
on_job_updated_event(s) ==
  /\ handler[s].pc = "idle"
  /\ inbox[s] # <<>>
  /\ inbox' = [inbox EXCEPT ![s] = Tail(@)]
  /\ LET e == Head(inbox[s])
         record == jobs[e.job] IN
       IF record = None
       THEN UNCHANGED <<jobs, handler>>
       ELSE /\ jobs' = [jobs EXCEPT ![e.job] = update_job(record, e)]
            /\ handler' =
                 IF IsFirstReport(record, e)
                 THEN [handler EXCEPT ![s] =
                         [pc |-> "usage", job |-> e.job, project |-> None]]
                 ELSE handler
  /\ UNCHANGED <<seconds, run, executed, request, created, discarded,
                 charges, alerts, topups, failures>>

(* Mutant: the handler gives up instead of going on to bill.               *)
update_qpu_usage_GivesUp(s) ==
  /\ handler[s].pc = "usage"
  /\ handler' = [handler EXCEPT ![s] = Idle]
  /\ UNCHANGED <<jobs, seconds, run, executed, inbox, request, created,
                 discarded, charges, alerts, topups, failures>>

(* Mutant: the job's project is not looked up.                             *)
update_qpu_usage_NoProject(s) ==
  /\ handler[s].pc = "usage"
  /\ handler' = [handler EXCEPT ![s].pc = "increment"]
  /\ UNCHANGED <<jobs, seconds, run, executed, inbox, request, created,
                 discarded, charges, alerts, topups, failures>>

(* update_qpu_usage gets the job again, for its project.                   *)
update_qpu_usage(s) ==
  /\ handler[s].pc = "usage"
  /\ LET record == jobs[handler[s].job] IN
       handler' = IF record = None
                  THEN [handler EXCEPT ![s] = Idle]
                  ELSE [handler EXCEPT ![s].pc = "increment",
                                       ![s].project = record.project]
  /\ UNCHANGED <<jobs, seconds, run, executed, inbox, request, created,
                 discarded, charges, alerts, topups, failures>>

(* Mutant: reaching zero exactly does not count as running out.            *)
_choose_qpu_notice_BelowZero(before, after) ==
  IF after < 0 /\ 0 < before THEN "depleted"
  ELSE IF after < LowThreshold /\ LowThreshold < before THEN "low"
  ELSE "idle"

(* Only crossing zero or the threshold alerts.                             *)
_choose_qpu_notice(before, after) ==
  IF after <= 0 /\ 0 < before THEN "depleted"
  ELSE IF after < LowThreshold /\ LowThreshold < before THEN "low"
  ELSE "idle"

(* Mutant: the seconds never go below zero.                                *)
increment_qpu_seconds_Floored(p, amount) ==
  seconds' = [seconds EXCEPT ![p] = IF @ + amount < 0 THEN 0 ELSE @ + amount]

(* increment_qpu_seconds is one atomic update.                             *)
increment_qpu_seconds(p, amount) ==
  seconds' = [seconds EXCEPT ![p] = @ + amount]

(* update_qpu_usage takes the usage from the project and looks at the      *)
(* project as the update left it to choose the notice to send.  A project  *)
(* that is gone makes it fail.                                             *)
take_usage(s) ==
  /\ handler[s].pc = "increment"
  /\ LET j == handler[s].job
         p == handler[s].project
         after == seconds[p] - Usage[j]
         notice == _choose_qpu_notice(after + Usage[j], after) IN
       IF seconds[p] = None
       THEN /\ handler' = [handler EXCEPT ![s] = Idle]
            /\ UNCHANGED <<seconds, charges>>
       ELSE /\ increment_qpu_seconds(p, -Usage[j])
            /\ charges' = [charges EXCEPT ![j] = @ + 1]
            /\ handler' = IF notice = "idle"
                          THEN [handler EXCEPT ![s] = Idle]
                          ELSE [handler EXCEPT ![s].pc = notice]
  /\ UNCHANGED <<jobs, run, executed, inbox, request, created, discarded,
                 alerts, topups, failures>>

(* The members are told that the project ran out, or its admin that it is  *)
(* running low.                                                            *)
_notify_project(s) ==
  /\ handler[s].pc \in {"depleted", "low"}
  /\ LET p == handler[s].project IN
       alerts' = IF handler[s].pc = "depleted"
                 THEN [alerts EXCEPT ![p].depleted = @ + 1]
                 ELSE [alerts EXCEPT ![p].low = @ + 1]
  /\ handler' = [handler EXCEPT ![s] = Idle]
  /\ UNCHANGED <<jobs, seconds, run, executed, inbox, request, created,
                 discarded, charges, topups, failures>>

---------------------------------------------------------------------------
(* What else changes the projects, and what goes wrong.                    *)

(* A request for more QPU seconds is approved.                             *)
top_up(p) ==
  /\ topups < MaxTopUps
  /\ seconds[p] # None
  /\ increment_qpu_seconds(p, TopUpSeconds)
  /\ topups' = topups + 1
  /\ UNCHANGED <<jobs, run, executed, inbox, handler, request, created,
                 discarded, charges, alerts, failures>>

(* A project is deleted, its jobs are not.                                 *)
delete_project(p) ==
  /\ seconds[p] # None
  /\ seconds' = [seconds EXCEPT ![p] = None]
  /\ UNCHANGED <<jobs, run, executed, inbox, handler, request, created,
                 discarded, charges, alerts, topups, failures>>

(* A process dies with the request it was serving.                         *)
lose_request(r) ==
  /\ failures < MaxFailures
  /\ request[r].pc # "idle"
  /\ Finish(r)
  /\ failures' = failures + 1
  /\ UNCHANGED <<jobs, seconds, run, executed, inbox, handler, created,
                 discarded, charges, alerts, topups>>

(* A socket breaks: its unread frames are lost, and what its handler was   *)
(* doing too when the process died.                                        *)
lose_socket(s) ==
  /\ failures < MaxFailures
  /\ inbox' = [inbox EXCEPT ![s] = <<>>]
  /\ handler' = [handler EXCEPT ![s] = Idle] \/ UNCHANGED handler
  /\ failures' = failures + 1
  /\ UNCHANGED <<jobs, seconds, run, executed, request, created, discarded,
                 charges, alerts, topups>>

---------------------------------------------------------------------------
HandlerStep(s) ==
  \/ on_job_updated_event(s)
  \/ update_qpu_usage(s)
  \/ take_usage(s)
  \/ _notify_project(s)

RequestStep(r) ==
  \/ get_token(r)
  \/ insert_job(r)
  \/ upload_job(r)
  \/ discard_job(r)
  \/ set_source(r)
  \/ bcc_cancel_job(r)
  \/ cancel_job(r)
  \/ bcc_delete_job(r)
  \/ delete_job(r)

BackendNext(j) == sdk_upload(j) \/ bcc_start(j) \/ bcc_executed(j) \/ bcc_end(j)

Next ==
  \/ \E r \in Request, j \in Job, p \in Project, d \in BOOLEAN :
       check_access(r, j, p, d)
  \/ \E r \in Request, j \in Job : get_job(r, j, "bcc_cancel")
  \/ \E r \in Request, j \in Job : get_job(r, j, "bcc_delete")
  \/ \E r \in Request : RequestStep(r)
  \/ \E j \in Job : BackendNext(j)
  \/ \E s \in Socket : HandlerStep(s)
  \/ \E p \in Project : top_up(p)
  \/ \E p \in Project : delete_project(p)
  \/ \E r \in Request : lose_request(r)
  \/ \E s \in Socket : lose_socket(s)

Spec == Init /\ [][Next]_vars

(* The event loop goes on serving a frame it has read and reading the next *)
(* one, and a request it has accepted: MSS's own steps are weakly fair,    *)
(* the users', the backends' and the failures are not.                     *)
Fairness ==
  /\ \A s \in Socket : WF_vars(HandlerStep(s))
  /\ \A r \in Request : WF_vars(RequestStep(r))

FairSpec == Spec /\ Fairness

---------------------------------------------------------------------------
(* Properties.                                                             *)

(* The events of each job reach MSS over one socket, in order.             *)
OneSocketPerJob == \A j \in Job : \A s, t \in Route[j] : s = t

(* A job's usage is taken from its project at most once, however often the *)
(* backend reports it and whatever fails on the way (docs/backends.md: "on *)
(* its first resource-usage report, take its QPU seconds").                *)
BilledAtMostOnce == \A j \in Job : charges[j] <= 1

(* Why it is billed once, as an inductive invariant.  A job is paid for    *)
(* when it was charged or a handler is about to.                           *)
Billing(s) == handler[s].pc \in {"usage", "increment"}
Paid(j) == charges[j] > 0 \/ \E s \in Socket : Billing(s) /\ handler[s].job = j
Creating(r) == request[r].pc \in {"token", "insert", "upload"}

(* A job id is given out once: it is being created by one request, before  *)
(* any backend took it.                                                    *)
CreationInv ==
  /\ \A j \in Job : jobs[j] # None \/ run[j] # "none" => j \in created
  /\ \A r \in Request : Creating(r) =>
       request[r].job \in created /\ run[request[r].job] = "none"
  /\ \A q, r \in Request :
       Creating(q) /\ Creating(r) /\ request[q].job = request[r].job => q = r

(* A job's frames are on its own socket, and once one reports the end of   *)
(* the execution no later one takes it back.                               *)
FramesInv ==
  /\ \A j \in executed : run[j] \notin {"none", "pending"}
  /\ \A s \in Socket : \A i \in 1..Len(inbox[s]) :
       /\ s \in Route[inbox[s][i].job]
       /\ run[inbox[s][i].job] # "none"
       /\ inbox[s][i].timestamps = "finished" => inbox[s][i].job \in executed
  /\ \A s \in Socket : \A i, k \in 1..Len(inbox[s]) :
       /\ i < k
       /\ inbox[s][i].job = inbox[s][k].job
       /\ inbox[s][i].timestamps = "finished"
       => inbox[s][k].timestamps # "unfinished"

(* A stored duration is not taken back by a frame that is still to come.   *)
TimedInv ==
  \A j \in Job : jobs[j] # None =>
    (jobs[j].timed =>
       /\ j \in executed
       /\ \A s \in Socket : \A i \in 1..Len(inbox[s]) :
            inbox[s][i].job = j => inbox[s][i].timestamps # "unfinished")

(* What is paid for stays recorded as such, and is billed by one handler.  *)
PaidInv ==
  /\ \A j \in Job : Paid(j) =>
       run[j] # "none" /\ (jobs[j] # None => jobs[j].timed)
  /\ \A s \in Socket : Billing(s) =>
       charges[handler[s].job] = 0 /\ s \in Route[handler[s].job]

BillingInv ==
  CreationInv /\ FramesInv /\ TimedInv /\ PaidInv /\ BilledAtMostOnce

Handling(j) == \E s \in Socket : handler[s].job = j

(* No run is free: a stored job with a duration has been billed, or is     *)
(* being billed by a handler, unless a process died or its project is      *)
(* deleted.  update_job and update_qpu_usage are two steps.                *)
RecordedDurationIsBilled ==
  \A j \in Job :
    jobs[j] # None /\ failures = 0 =>
      (jobs[j].timed /\ seconds[jobs[j].project] # None =>
         charges[j] >= 1 \/ Handling(j))

Depleting(p) ==
  Cardinality({s \in Socket : handler[s].pc = "depleted" /\ handler[s].project = p})

(* A project that runs out alerts its members exactly once, though several *)
(* handlers take seconds from it at the same time; topped up, it may       *)
(* alert again.                                                            *)
DepletedAlertOnce ==
  \A p \in Project :
    LET count == alerts[p].depleted + Depleting(p) IN
    /\ count <= topups + 1
    /\ seconds[p] # None /\ seconds[p] <= 0 /\ InitialSeconds[p] > 0
         /\ failures = 0 => count >= 1

(* Once all that was sent is handled, a stored job has the status its      *)
(* backend gave it last, although a cancellation is written both by the    *)
(* request and by the backend's event.                                     *)
SettledStatus ==
  /\ failures = 0
  /\ \A s \in Socket : inbox[s] = <<>>
  /\ \A r \in Request : request[r].pc = "idle"
  => \A j \in Job : jobs[j] # None /\ run[j] \notin {"none", "deleted"} =>
       jobs[j].status = run[j]

(* The report of a finished execution is not forgotten: the project is     *)
(* eventually charged, unless the job or the project is deleted, or        *)
(* something fails.                                                        *)
FinishedRunIsBilled ==
  \A j \in Job :
    j \in executed ~>
      \/ charges[j] >= 1
      \/ jobs[j] = None
      \/ seconds[jobs[j].project] = None
      \/ failures > 0

(* The balance of the projects as the ledger sees it.                      *)
Ledger == INSTANCE Ledger WITH
  balance <- seconds, billed <- {j \in Job : charges[j] > 0}

(* Billing implements the ledger: each job is paid once, in full, by one   *)
(* project, and nothing but a top-up gives seconds back.                   *)
LedgerSpec == Ledger!Spec
===========================================================================
