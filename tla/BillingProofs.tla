--------------------------- MODULE BillingProofs ----------------------------
(***************************************************************************)
(* Theorems about Jobs, for any jobs, projects, sockets and bounds: it is  *)
(* type-correct; a job's usage is taken at most once and its status        *)
(* settles, when its events come in order; a recorded duration is billed,  *)
(* and members are alerted of a depletion once, even when they do not.     *)
(***************************************************************************)
EXTENDS Jobs, FiniteSetTheorems, TLAPS

(* A backend's event is well formed and ends up in some socket's inbox.    *)
LEMMA SendType ==
  ASSUME NEW j \in Job, NEW status \in JobStatus,
         NEW t \in {"absent", "unfinished", "finished"},
         inbox \in [Socket -> Seq(JobUpdate)], Send(j, status, t)
  PROVE  inbox' \in [Socket -> Seq(JobUpdate)]
<1>1. PICK s \in Route[j] : inbox' = [inbox EXCEPT ![s] =
        Append(@, [job |-> j, status |-> status, timestamps |-> t])]
  BY DEF Send
<1>2. s \in Socket
  BY JobsAssumption
<1>3. [job |-> j, status |-> status, timestamps |-> t] \in JobUpdate
  BY DEF JobUpdate
<1> QED
  BY <1>1, <1>2, <1>3

(* The tasks' part of the type invariant, one for the requests and one for *)
(* the handlers.                                                           *)
RequestOK(r) ==
  /\ request[r] \in RequestState
  /\ request[r].pc # "idle" => request[r].job \in Job
  /\ request[r].pc \in {"token", "insert"} => request[r].project \in Project
HandlerOK(s) ==
  /\ handler[s] \in HandlerState
  /\ handler[s].pc # "idle" => handler[s].job \in Job
  /\ handler[s].pc \in {"increment", "depleted", "low"} =>
       handler[s].project \in Project

(* The tables' part of the type invariant.                                 *)
TablesOK ==
  /\ jobs \in [Job -> JobRecord \cup {None}]
  /\ seconds \in [Project -> Int \cup {None}]
  /\ run \in [Job -> Stage]
  /\ executed \in SUBSET Job
  /\ inbox \in [Socket -> Seq(JobUpdate)]
  /\ created \in SUBSET Job
  /\ discarded \in SUBSET Job
  /\ charges \in [Job -> Nat]
  /\ alerts \in [Project -> [depleted : Nat, low : Nat]]
  /\ topups \in Nat
  /\ failures \in Nat

RequestsOK ==
  request \in [Request -> RequestState] /\ \A r \in Request : RequestOK(r)
HandlersOK ==
  handler \in [Socket -> HandlerState] /\ \A s \in Socket : HandlerOK(s)

(* The type invariant is its three parts.                                  *)
LEMMA TypeParts == TypeOK <=> TablesOK /\ RequestsOK /\ HandlersOK
  BY DEF TypeOK, TablesOK, RequestsOK, HandlersOK, TasksOK, RequestOK, HandlerOK
LEMMA TypePartsPrime == TypeOK' <=> TablesOK' /\ RequestsOK' /\ HandlersOK'
  BY DEF TypeOK, TablesOK, RequestsOK, HandlersOK, TasksOK, RequestOK, HandlerOK

(* A request that ends is as one that has not begun.                       *)
LEMMA FinishType ==
  ASSUME RequestsOK, NEW r \in Request, Finish(r)
  PROVE  RequestsOK'
  BY DEF Finish, NoRequest, RequestState, RequestsOK, RequestOK

(* A request that has begun and goes on keeps its job.                     *)
LEMMA GotoType ==
  ASSUME RequestsOK, NEW r \in Request, request[r].pc # "idle",
         NEW pc \in {"insert", "upload", "source", "discard", "mark_cancelled", "delete"},
         pc = "insert" => request[r].pc = "token",
         Goto(r, pc)
  PROVE  RequestsOK'
<1>1. request[r] \in RequestState /\ request[r].job \in Job
  BY DEF RequestsOK, RequestOK
<1>2. request' \in [Request -> RequestState]
  BY DEF Goto, RequestState, RequestsOK
<1>3. /\ request'[r].pc = pc
      /\ request'[r].job = request[r].job
      /\ request'[r].project = request[r].project
      /\ \A q \in Request \ {r} : request'[q] = request[q]
  BY <1>1 DEF Goto, RequestState, RequestsOK
<1>4. pc = "insert" => request[r].project \in Project
  BY DEF RequestsOK, RequestOK
<1> QED
  BY <1>1, <1>2, <1>3, <1>4 DEF RequestsOK, RequestOK

(* Updating a field of a stored job leaves a well-formed record.           *)
LEMMA RecordType ==
  ASSUME NEW record \in JobRecord
  PROVE  /\ [record EXCEPT !.source = TRUE] \in JobRecord
         /\ [record EXCEPT !.status = "cancelled"] \in JobRecord
         /\ \A e \in JobUpdate : update_job(record, e) \in JobRecord
  BY DEF JobRecord, JobUpdate, update_job, JobStatus

(* A handler that goes idle is well formed.                                *)
LEMMA HandlerIdle ==
  ASSUME HandlersOK, NEW s \in Socket, handler' = [handler EXCEPT ![s] = Idle]
  PROVE  HandlersOK'
  BY DEF Idle, HandlersOK, HandlerOK, HandlerState

(* A handler of a job that goes on to another step is well formed.         *)
LEMMA HandlerGoto ==
  ASSUME HandlersOK, NEW s \in Socket,
         NEW pc \in {"increment", "depleted", "low"}, NEW p \in Project,
         handler[s].job \in Job,
         \/ handler' = [handler EXCEPT ![s].pc = pc] /\ handler[s].project = p
         \/ handler' = [handler EXCEPT ![s].pc = pc, ![s].project = p]
  PROVE  HandlersOK'
<1>1. handler' \in [Socket -> HandlerState]
  BY DEF HandlersOK, HandlerState
<1>2. /\ handler'[s].job \in Job /\ handler'[s].project \in Project
      /\ \A t \in Socket \ {s} : handler'[t] = handler[t]
  BY DEF HandlersOK, HandlerState
<1> QED
  BY <1>1, <1>2 DEF HandlersOK, HandlerOK

(* Each step of a request keeps the tables and tasks well formed.          *)
LEMMA RequestStepType ==
  ASSUME TypeOK, NEW r \in Request, RequestStep(r)
  PROVE  TypeOK'
<1> USE JobsAssumption
<1>a. TablesOK /\ RequestsOK /\ HandlersOK /\ RequestOK(r)
  BY TypeParts DEF RequestsOK
<1>b. UNCHANGED handler /\ UNCHANGED <<seconds, topups, failures>>
  BY DEF RequestStep, get_token, insert_job, upload_job, discard_job, set_source,
     bcc_cancel_job, cancel_job, bcc_delete_job, delete_job
<1>c. HandlersOK'
  BY <1>a, <1>b DEF HandlersOK, HandlerOK
<1>d. SUFFICES TablesOK' /\ RequestsOK'
  BY <1>c, TypePartsPrime
<1>1. CASE get_token(r)
  <2>1. RequestsOK'
    BY <1>1, <1>a, GotoType, FinishType DEF get_token
  <2> QED
    BY <1>1, <1>a, <2>1 DEF get_token, TablesOK
<1>2. CASE insert_job(r)
  <2>1. RequestsOK'
    BY <1>2, <1>a, GotoType, FinishType DEF insert_job
  <2>2. jobs' \in [Job -> JobRecord \cup {None}]
    BY <1>2, <1>a DEF insert_job, JobRecord, JobStatus, RequestOK, TablesOK
  <2> QED
    BY <1>2, <1>a, <2>1, <2>2 DEF insert_job, TablesOK
<1>3. CASE upload_job(r)
  <2>1. RequestsOK'
    BY <1>3, <1>a, GotoType DEF upload_job
  <2>2. request[r].job \in Job
    BY <1>3, <1>a DEF RequestOK, upload_job
  <2>3. Take(request[r].job) => inbox' \in [Socket -> Seq(JobUpdate)]
    BY <1>a, <2>2, SendType DEF Take, TablesOK, JobStatus
  <2> QED
    BY <1>3, <1>a, <2>1, <2>2, <2>3 DEF upload_job, Take, Stage, JobStatus, TablesOK
<1>4. CASE discard_job(r)
  <2>1. RequestsOK' /\ request[r].job \in Job
    BY <1>4, <1>a, FinishType DEF discard_job, RequestOK
  <2> QED
    BY <1>4, <1>a, <2>1 DEF discard_job, TablesOK
<1>5. CASE set_source(r)
  <2>1. RequestsOK' /\ request[r].job \in Job
    BY <1>5, <1>a, FinishType DEF set_source, RequestOK
  <2>2. jobs[request[r].job] # None =>
          [jobs[request[r].job] EXCEPT !.source = TRUE] \in JobRecord
    BY <1>a, <2>1, RecordType DEF TablesOK
  <2> QED
    BY <1>5, <1>a, <2>1, <2>2 DEF set_source, TablesOK
<1>6. CASE bcc_cancel_job(r)
  <2>1. RequestsOK'
    BY <1>6, <1>a, GotoType, FinishType DEF bcc_cancel_job
  <2>2. request[r].job \in Job
    BY <1>6, <1>a DEF RequestOK, bcc_cancel_job
  <2>3. inbox' \in [Socket -> Seq(JobUpdate)]
    BY <1>6, <1>a, <2>2, SendType DEF bcc_cancel_job, TablesOK, JobStatus, SentTimestamps
  <2> QED
    BY <1>6, <1>a, <2>1, <2>2, <2>3 DEF bcc_cancel_job, Stage, JobStatus, TablesOK
<1>7. CASE cancel_job(r)
  <2>1. RequestsOK' /\ request[r].job \in Job
    BY <1>7, <1>a, FinishType DEF cancel_job, RequestOK
  <2>2. jobs[request[r].job] # None =>
          [jobs[request[r].job] EXCEPT !.status = "cancelled"] \in JobRecord
    BY <1>a, <2>1, RecordType DEF TablesOK
  <2> QED
    BY <1>7, <1>a, <2>1, <2>2 DEF cancel_job, TablesOK
<1>8. CASE bcc_delete_job(r)
  <2>1. RequestsOK'
    BY <1>8, <1>a, GotoType, FinishType DEF bcc_delete_job
  <2> QED
    BY <1>8, <1>a, <2>1 DEF bcc_delete_job, Stage, TablesOK
<1>9. CASE delete_job(r)
  <2>1. RequestsOK'
    BY <1>9, <1>a, FinishType DEF delete_job
  <2> QED
    BY <1>9, <1>a, <2>1 DEF delete_job, TablesOK
<1> QED
  BY <1>1, <1>2, <1>3, <1>4, <1>5, <1>6, <1>7, <1>8, <1>9 DEF RequestStep

(* Each step of a websocket handler does too.                              *)
LEMMA HandlerStepType ==
  ASSUME TypeOK, NEW s \in Socket, HandlerStep(s)
  PROVE  TypeOK'
<1> USE JobsAssumption
<1>a. TablesOK /\ RequestsOK /\ HandlersOK /\ HandlerOK(s)
  BY TypeParts DEF HandlersOK
<1>b. UNCHANGED request
  BY DEF HandlerStep, on_job_updated_event, update_qpu_usage, take_usage, _notify_project
<1>c. RequestsOK'
  BY <1>a, <1>b DEF RequestsOK, RequestOK
<1>d. SUFFICES TablesOK' /\ HandlersOK'
  BY <1>c, TypePartsPrime
<1>1. CASE on_job_updated_event(s)
  <2> DEFINE e == Head(inbox[s])
  <2>1. e \in JobUpdate /\ Tail(inbox[s]) \in Seq(JobUpdate)
    BY <1>1, <1>a DEF on_job_updated_event, TablesOK
  <2>2. e.job \in Job
    BY <2>1 DEF JobUpdate
  <2>3. jobs[e.job] # None => update_job(jobs[e.job], e) \in JobRecord
    BY <1>a, <2>1, <2>2, RecordType DEF TablesOK
  <2>4. HandlersOK'
    <3>1. \/ UNCHANGED handler
          \/ handler' = [handler EXCEPT ![s] =
               [pc |-> "usage", job |-> e.job, project |-> None]]
      BY <1>1 DEF on_job_updated_event
    <3> HIDE DEF e
    <3> QED
      BY <1>a, <2>2, <3>1 DEF HandlersOK, HandlerOK, HandlerState
  <2>5. jobs' \in [Job -> JobRecord \cup {None}]
    BY <1>1, <1>a, <2>2, <2>3 DEF on_job_updated_event, TablesOK
  <2> QED
    BY <1>1, <1>a, <2>1, <2>4, <2>5 DEF on_job_updated_event, TablesOK
<1>2. CASE update_qpu_usage(s)
  <2>1. handler[s].job \in Job
    BY <1>2, <1>a DEF update_qpu_usage, HandlerOK
  <2>2. jobs[handler[s].job] # None => jobs[handler[s].job].project \in Project
    BY <1>a, <2>1 DEF TablesOK, JobRecord
  <2>3. HandlersOK'
    <3>1. CASE jobs[handler[s].job] = None
      BY <1>2, <1>a, <3>1, HandlerIdle DEF update_qpu_usage
    <3>2. CASE jobs[handler[s].job] # None
      <4>1. handler' = [handler EXCEPT ![s].pc = "increment",
                                       ![s].project = jobs[handler[s].job].project]
        BY <1>2, <3>2 DEF update_qpu_usage
      <4> QED
        BY <1>a, <2>1, <2>2, <3>2, <4>1, HandlerGoto
    <3> QED
      BY <3>1, <3>2
  <2> QED
    BY <1>2, <1>a, <2>3 DEF update_qpu_usage, TablesOK
<1>3. CASE take_usage(s)
  <2> DEFINE j == handler[s].job
             p == handler[s].project
  <2>1. j \in Job /\ p \in Project
    BY <1>3, <1>a DEF take_usage, HandlerOK
  <2>2. Usage[j] \in Nat /\ seconds[p] \in Int \cup {None}
    BY <1>a, <2>1 DEF TablesOK
  <2>3. CASE seconds[p] = None
    <3>1. HandlersOK' /\ UNCHANGED <<seconds, charges>>
      BY <1>3, <1>a, <2>1, <2>3, HandlerIdle DEF take_usage
    <3> QED
      BY <1>3, <1>a, <3>1 DEF take_usage, TablesOK
  <2>4. CASE seconds[p] # None
    <3> DEFINE after == seconds[p] - Usage[j]
               notice == _choose_qpu_notice(after + Usage[j], after)
    <3>1. notice \in {"idle", "depleted", "low"}
      BY DEF _choose_qpu_notice
    <3>2. handler' = IF notice = "idle" THEN [handler EXCEPT ![s] = Idle]
                     ELSE [handler EXCEPT ![s].pc = notice]
      BY <1>3, <2>4 DEF take_usage
    <3>3. HandlersOK'
      <4> HIDE DEF notice
      <4> QED
        BY <3>1, <3>2, <1>a, <2>1, HandlerIdle, HandlerGoto
    <3>4. seconds[p] \in Int /\ seconds[p] + (-Usage[j]) \in Int
      BY <2>2, <2>4
    <3>5. seconds' \in [Project -> Int \cup {None}]
      <4>1. seconds' = [seconds EXCEPT ![p] = @ + (-Usage[j])]
        BY <1>3, <2>4 DEF take_usage, increment_qpu_seconds
      <4>2. seconds \in [Project -> Int \cup {None}]
        BY <1>a DEF TablesOK
      <4> HIDE DEF j, p
      <4> QED
        BY <2>1, <3>4, <4>1, <4>2
    <3>6. charges' \in [Job -> Nat]
      <4>1. charges' = [charges EXCEPT ![j] = @ + 1]
        BY <1>3, <2>4 DEF take_usage
      <4>2. charges \in [Job -> Nat]
        BY <1>a DEF TablesOK
      <4> HIDE DEF j, p
      <4> QED
        BY <2>1, <4>1, <4>2
    <3> QED
      BY <1>3, <1>a, <3>3, <3>5, <3>6 DEF take_usage, TablesOK
  <2> QED
    BY <2>3, <2>4
<1>4. CASE _notify_project(s)
  <2>1. HandlersOK'
    BY <1>4, <1>a, HandlerIdle DEF _notify_project, HandlerOK
  <2>2. alerts' \in [Project -> [depleted : Nat, low : Nat]]
    <3>1. handler[s].project \in Project
      BY <1>4, <1>a DEF _notify_project, HandlerOK
    <3>2. alerts \in [Project -> [depleted : Nat, low : Nat]]
      BY <1>a DEF TablesOK
    <3> QED
      BY <1>4, <3>1, <3>2 DEF _notify_project
  <2> QED
    BY <1>4, <1>a, <2>1, <2>2 DEF _notify_project, TablesOK
<1> QED
  BY <1>1, <1>2, <1>3, <1>4 DEF HandlerStep

(* Nothing a task does, and no failure, leaves the tables, the frames or   *)
(* the tasks malformed.                                                    *)
LEMMA NextType == TypeOK /\ [Next]_vars => TypeOK'
<1> SUFFICES ASSUME TypeOK, [Next]_vars PROVE TypeOK'
  OBVIOUS
<1> USE JobsAssumption
<1>a. TablesOK /\ RequestsOK /\ HandlersOK
  BY TypeParts
<1>1. ASSUME NEW r \in Request, NEW j \in Job, NEW p \in Project, NEW d \in BOOLEAN,
             check_access(r, j, p, d)
      PROVE TypeOK'
  <2>1. RequestsOK'
    BY <1>1, <1>a DEF check_access, RequestsOK, RequestOK, RequestState
  <2>2. HandlersOK' /\ TablesOK'
    BY <1>1, <1>a DEF check_access, HandlersOK, HandlerOK, TablesOK
  <2> QED
    BY <2>1, <2>2, TypePartsPrime
<1>2. ASSUME NEW r \in Request, NEW j \in Job, NEW pc \in {"bcc_cancel", "bcc_delete"},
             get_job(r, j, pc)
      PROVE TypeOK'
  <2>1. RequestsOK'
    BY <1>2, <1>a DEF get_job, RequestsOK, RequestOK, RequestState
  <2>2. HandlersOK' /\ TablesOK'
    BY <1>2, <1>a DEF get_job, HandlersOK, HandlerOK, TablesOK
  <2> QED
    BY <2>1, <2>2, TypePartsPrime
<1>3. ASSUME NEW j \in Job, BackendNext(j)
      PROVE TypeOK'
  <2>1. HandlersOK' /\ RequestsOK'
    BY <1>3, <1>a DEF BackendNext, sdk_upload, bcc_start, bcc_executed, bcc_end,
       BackendStep, HandlersOK, HandlerOK, RequestsOK, RequestOK
  <2>2. inbox' \in [Socket -> Seq(JobUpdate)]
    BY <1>3, <1>a, SendType DEF BackendNext, sdk_upload, bcc_start, bcc_executed,
       bcc_end, BackendStep, Take, SentTimestamps, JobStatus, TablesOK
  <2>3. run' \in [Job -> Stage] /\ executed' \in SUBSET Job
    BY <1>3, <1>a DEF BackendNext, sdk_upload, bcc_start, bcc_executed, bcc_end,
       BackendStep, Take, Stage, JobStatus, TablesOK
  <2>4. UNCHANGED <<jobs, seconds, created, discarded, charges, alerts, topups, failures>>
    BY <1>3 DEF BackendNext, sdk_upload, bcc_start, bcc_executed, bcc_end, BackendStep
  <2>5. TablesOK'
    BY <1>a, <2>2, <2>3, <2>4 DEF TablesOK
  <2> QED
    BY <2>1, <2>5, TypePartsPrime
<1>4. ASSUME NEW p \in Project, top_up(p) \/ delete_project(p)
      PROVE TypeOK'
  <2>1. HandlersOK' /\ RequestsOK'
    BY <1>4, <1>a DEF top_up, delete_project, HandlersOK, HandlerOK, RequestsOK, RequestOK
  <2>2. seconds' \in [Project -> Int \cup {None}] /\ topups' \in Nat
    <3>1. seconds[p] \in Int \cup {None} /\ TopUpSeconds \in Int
      BY <1>a DEF TablesOK
    <3>2. CASE top_up(p)
      <4>1. seconds[p] + TopUpSeconds \in Int
        BY <3>1, <3>2 DEF top_up
      <4> QED
        BY <3>2, <1>a, <4>1 DEF top_up, increment_qpu_seconds, TablesOK
    <3>3. CASE delete_project(p)
      BY <3>3, <1>a DEF delete_project, TablesOK
    <3> QED
      BY <1>4, <3>2, <3>3
  <2>3. TablesOK'
    BY <1>4, <1>a, <2>2 DEF top_up, delete_project, TablesOK
  <2> QED
    BY <2>1, <2>3, TypePartsPrime
<1>5. ASSUME NEW r \in Request, lose_request(r)
      PROVE TypeOK'
  <2>1. RequestsOK'
    BY <1>5, <1>a, FinishType DEF lose_request
  <2>2. HandlersOK' /\ TablesOK'
    BY <1>5, <1>a DEF lose_request, HandlersOK, HandlerOK, TablesOK
  <2> QED
    BY <2>1, <2>2, TypePartsPrime
<1>6. ASSUME NEW s \in Socket, lose_socket(s)
      PROVE TypeOK'
  <2>1. HandlersOK'
    <3>1. CASE UNCHANGED handler
      BY <3>1, <1>a DEF HandlersOK, HandlerOK
    <3>2. CASE handler' = [handler EXCEPT ![s] = Idle]
      BY <3>2, <1>a DEF Idle, HandlersOK, HandlerOK, HandlerState
    <3> QED
      BY <1>6, <3>1, <3>2 DEF lose_socket
  <2>2. RequestsOK'
    BY <1>6, <1>a DEF lose_socket, RequestsOK, RequestOK
  <2>3. inbox' \in [Socket -> Seq(JobUpdate)] /\ failures' \in Nat
    BY <1>6, <1>a DEF lose_socket, TablesOK
  <2>4. TablesOK'
    BY <1>6, <1>a, <2>3 DEF lose_socket, TablesOK
  <2> QED
    BY <2>1, <2>2, <2>4, TypePartsPrime
<1>7. CASE UNCHANGED vars
  BY <1>7 DEF vars, TypeOK, TasksOK
<1> QED
  BY <1>1, <1>2, <1>3, <1>4, <1>5, <1>6, <1>7, RequestStepType, HandlerStepType DEF Next

(* The type invariant of the jobs service: every record, frame and task    *)
(* stays well formed in every behaviour.                                   *)
THEOREM TypeCorrect == Spec => []TypeOK
<1>1. Init => TypeOK
  BY JobsAssumption DEF Init, TypeOK, TasksOK, Idle, NoRequest, HandlerState,
     RequestState, Stage, JobStatus
<1> QED
  BY <1>1, NextType, PTL DEF Spec

---------------------------------------------------------------------------
(* What a job is billed, and when.                                         *)

(* A frame sent is one of those that were there, or the new last one.      *)
LEMMA SendFrames ==
  ASSUME inbox \in [Socket -> Seq(JobUpdate)],
         NEW j \in Job, NEW status, NEW t, Send(j, status, t)
  PROVE  \E s \in Route[j] : \A u \in Socket : \A i \in 1..Len(inbox'[u]) :
           \/ i \in 1..Len(inbox[u]) /\ inbox'[u][i] = inbox[u][i]
           \/ /\ u = s /\ i = Len(inbox[u]) + 1
              /\ inbox'[u][i].job = j /\ inbox'[u][i].timestamps = t
<1> DEFINE e == [job |-> j, status |-> status, timestamps |-> t]
<1>1. PICK s \in Route[j] : inbox' = [inbox EXCEPT ![s] = Append(@, e)]
  BY DEF Send
<1>2. s \in Socket /\ inbox[s] \in Seq(JobUpdate)
  BY JobsAssumption
<1>3. e.job = j /\ e.timestamps = t
  OBVIOUS
<1> HIDE DEF e
<1>4. inbox'[s] = Append(inbox[s], e) /\ \A u \in Socket \ {s} : inbox'[u] = inbox[u]
  BY <1>1, <1>2
<1>5. \A i \in 1..Len(inbox'[s]) :
        \/ i \in 1..Len(inbox[s]) /\ inbox'[s][i] = inbox[s][i]
        \/ i = Len(inbox[s]) + 1 /\ inbox'[s][i] = e
  BY <1>2, <1>4
<1> QED
  BY <1>3, <1>4, <1>5

(* The backend's sends keep a job's frames in order: it reports the end of *)
(* an execution only once it ended, and never takes it back.               *)
LEMMA SendKeepsOrder ==
  ASSUME TypeOK, FramesInv, TimedInv,
         NEW j \in Job, NEW status, NEW t, Send(j, status, t),
         t = "unfinished" => j \notin executed,
         t = "finished" => j \in executed',
         executed \subseteq executed', executed' \subseteq Job,
         \A k \in Job \ {j} : run'[k] = run[k] /\ (k \in executed' => k \in executed),
         run'[j] # "none", j \in executed' => run'[j] # "pending",
         UNCHANGED jobs
  PROVE  FramesInv' /\ TimedInv'
<1>1. PICK s \in Route[j] : \A u \in Socket : \A i \in 1..Len(inbox'[u]) :
        \/ i \in 1..Len(inbox[u]) /\ inbox'[u][i] = inbox[u][i]
        \/ /\ u = s /\ i = Len(inbox[u]) + 1
           /\ inbox'[u][i].job = j /\ inbox'[u][i].timestamps = t
  <2>1. inbox \in [Socket -> Seq(JobUpdate)]
    BY DEF TypeOK
  <2> QED
    BY <2>1, SendFrames
<1>2. s \in Socket
  BY JobsAssumption
<1>3. \A u \in Socket : \A i \in 1..Len(inbox[u]) : inbox[u][i] \in JobUpdate
  BY DEF TypeOK
<1>4. \A u \in Socket : Len(inbox[u]) \in Nat
  BY DEF TypeOK
<1>5. \A k \in executed' : run'[k] \notin {"none", "pending"}
  BY DEF FramesInv
<1>6. \A u \in Socket : \A i \in 1..Len(inbox'[u]) :
        /\ u \in Route[inbox'[u][i].job]
        /\ run'[inbox'[u][i].job] # "none"
        /\ inbox'[u][i].timestamps = "finished" => inbox'[u][i].job \in executed'
  BY <1>1, <1>3 DEF FramesInv, JobUpdate
<1>7. ASSUME NEW u \in Socket, NEW i \in 1..Len(inbox'[u]), NEW k \in 1..Len(inbox'[u]),
             i < k, inbox'[u][i].job = inbox'[u][k].job,
             inbox'[u][i].timestamps = "finished"
      PROVE  inbox'[u][k].timestamps # "unfinished"
  <2>1. i \in 1..Len(inbox[u]) /\ inbox'[u][i] = inbox[u][i]
    BY <1>1, <1>4, <1>7
  <2>2. CASE k \in 1..Len(inbox[u]) /\ inbox'[u][k] = inbox[u][k]
    BY <1>7, <2>1, <2>2 DEF FramesInv
  <2>3. CASE inbox'[u][k].job = j /\ inbox'[u][k].timestamps = t
    <3>1. j \in executed
      BY <1>7, <2>1, <2>3 DEF FramesInv
    <3> QED
      BY <2>3, <3>1
  <2> QED
    BY <1>1, <2>2, <2>3
<1>8. FramesInv'
  BY <1>5, <1>6, <1>7 DEF FramesInv
<1>9. TimedInv'
  <2> SUFFICES ASSUME NEW k \in Job, jobs[k] # None, jobs[k].timed,
                      NEW u \in Socket, NEW i \in 1..Len(inbox'[u]),
                      inbox'[u][i].job = k
               PROVE  k \in executed' /\ inbox'[u][i].timestamps # "unfinished"
    BY DEF TimedInv
  <2>1. k \in executed
    BY DEF TimedInv
  <2> QED
    BY <1>1, <2>1 DEF TimedInv
<1> QED
  BY <1>8, <1>9

(* What a step that creates nothing and takes no job must show for         *)
(* CreationInv.                                                            *)
LEMMA CreationUnchanged ==
  ASSUME CreationInv, created \subseteq created',
         \A j \in Job : run[j] = "none" => run'[j] = "none",
         \A j \in Job : jobs'[j] # None => jobs[j] # None \/ j \in created,
         \A r \in Request : Creating(r)' =>
           Creating(r) /\ request'[r].job = request[r].job /\ request[r].job \in Job
  PROVE  CreationInv'
  BY DEF CreationInv

(* Each step of an HTTP request keeps the billing invariant.               *)
LEMMA RequestStepBilling ==
  ASSUME TypeOK, BillingInv, NEW r \in Request, RequestStep(r)
  PROVE  BillingInv'
<1> DEFINE j == request[r].job
<1>a. RequestsOK /\ RequestOK(r) /\ jobs \in [Job -> JobRecord \cup {None}]
  BY TypeParts DEF RequestsOK, TablesOK
<1>b. /\ UNCHANGED <<handler, charges, executed>>
      /\ BilledAtMostOnce'
  BY DEF RequestStep, get_token, insert_job, upload_job, discard_job, set_source,
     bcc_cancel_job, cancel_job, bcc_delete_job, delete_job, BillingInv, BilledAtMostOnce
<1>c. request[r].pc # "idle" /\ j \in Job
  BY <1>a DEF RequestStep, get_token, insert_job, upload_job, discard_job, set_source,
     bcc_cancel_job, cancel_job, bcc_delete_job, delete_job, RequestOK
<1>d. CreationInv /\ FramesInv /\ TimedInv /\ PaidInv
  BY DEF BillingInv
<1>e. /\ \A k : Paid(k)' <=> Paid(k)
      /\ \A s : Billing(s)' <=> Billing(s)
  BY <1>b DEF Paid, Billing
<1>f. ASSUME NEW pc, Goto(r, pc)
      PROVE  /\ request'[r].pc = pc /\ request'[r].job = j
             /\ \A q \in Request \ {r} : request'[q] = request[q]
  BY <1>a, <1>f DEF Goto, RequestsOK, RequestState
<1>g. ASSUME Finish(r)
      PROVE  /\ request'[r].pc = "idle"
             /\ \A q \in Request \ {r} : request'[q] = request[q]
  BY <1>a, <1>g DEF Finish, NoRequest, RequestsOK, RequestState
<1>h. \A q \in Request : Creating(q) => request[q].job \in Job
  BY <1>a DEF Creating, RequestsOK, RequestOK
<1>i. ASSUME \A k \in Job : jobs'[k] # None =>
               jobs[k] # None /\ jobs'[k].timed = jobs[k].timed,
             UNCHANGED <<run, inbox>>
      PROVE  FramesInv' /\ TimedInv' /\ PaidInv'
  BY <1>b, <1>d, <1>e, <1>i DEF FramesInv, TimedInv, PaidInv
<1>j. ASSUME request'[r].pc \notin {"token", "insert", "upload"},
             \A q \in Request \ {r} : request'[q] = request[q],
             \A k \in Job : run[k] = "none" => run'[k] = "none",
             \A k \in Job : jobs'[k] # None => jobs[k] # None \/ k \in created,
             UNCHANGED created
      PROVE  CreationInv'
  BY <1>d, <1>h, <1>j, CreationUnchanged DEF Creating
<1>1. CASE get_token(r)
  <2>1. FramesInv' /\ TimedInv' /\ PaidInv'
    BY <1>1, <1>i DEF get_token
  <2>2. CreationInv'
    <3>1. CASE Goto(r, "insert")
      BY <1>1, <1>d, <1>f, <1>h, <3>1, CreationUnchanged DEF get_token, Creating
    <3>2. CASE Finish(r)
      BY <1>1, <1>g, <1>j, <3>2 DEF get_token
    <3> QED
      BY <1>1, <3>1, <3>2 DEF get_token
  <2> QED
    BY <1>b, <2>1, <2>2 DEF BillingInv
<1>2. CASE insert_job(r)
  <2>1. run[j] = "none" /\ ~Paid(j) /\ j \in created
    BY <1>2, <1>d, <1>c DEF CreationInv, Creating, insert_job, PaidInv
  <2>2. jobs'[j] # None => ~jobs'[j].timed
    BY <1>2, <1>a, <1>c DEF insert_job
  <2>3. \A k \in Job \ {j} : jobs'[k] = jobs[k]
    BY <1>2, <1>a, <1>c DEF insert_job
  <2>4. FramesInv' /\ TimedInv' /\ PaidInv'
    BY <1>2, <1>b, <1>d, <1>e, <2>1, <2>2, <2>3
    DEF insert_job, FramesInv, TimedInv, PaidInv
  <2>5. CreationInv'
    <3>1. CASE Goto(r, "upload")
      BY <1>2, <1>d, <1>f, <1>h, <2>1, <2>3, <3>1, CreationUnchanged DEF insert_job, Creating
    <3>2. CASE Finish(r)
      BY <1>2, <1>g, <1>j, <2>1, <2>3, <3>2 DEF insert_job
    <3> QED
      BY <1>2, <3>1, <3>2 DEF insert_job
  <2> QED
    BY <1>b, <2>4, <2>5 DEF BillingInv
<1>3. CASE upload_job(r)
  <2>1. request'[r].pc \notin {"token", "insert", "upload"}
        /\ \A q \in Request \ {r} : request'[q] = request[q]
    BY <1>3, <1>f DEF upload_job
  <2>2. CASE Take(j)
    <3>1. run[j] = "none" /\ run' = [run EXCEPT ![j] = "pending"]
          /\ Send(j, "pending", "unfinished")
      BY <2>2 DEF Take
    <3>2. j \notin executed /\ run \in [Job -> Stage]
      BY <3>1, <1>d DEF FramesInv, TypeOK
    <3>3. run'[j] = "pending" /\ \A k \in Job \ {j} : run'[k] = run[k]
      BY <1>c, <3>1, <3>2
    <3>4. FramesInv' /\ TimedInv'
      BY <1>3, <1>b, <1>c, <1>d, <3>1, <3>2, <3>3, SendKeepsOrder DEF upload_job, TypeOK
    <3>5. PaidInv'
      BY <1>3, <1>b, <1>d, <1>e, <3>3 DEF upload_job, PaidInv
    <3>6. CreationInv'
      <4>1. ASSUME NEW q \in Request, Creating(q)'
            PROVE  q # r /\ Creating(q) /\ request'[q] = request[q] /\ request[q].job # j
        BY <1>3, <1>d, <2>1, <4>1 DEF Creating, CreationInv, upload_job
      <4> QED
        BY <1>3, <1>c, <1>d, <1>h, <3>3, <4>1 DEF CreationInv, Creating, upload_job
    <3> QED
      BY <1>b, <3>4, <3>5, <3>6 DEF BillingInv
  <2>3. CASE UNCHANGED <<run, inbox>>
    <3>1. FramesInv' /\ TimedInv' /\ PaidInv'
      BY <1>3, <1>i, <2>3 DEF upload_job
    <3>2. CreationInv'
      BY <1>3, <1>j, <2>1, <2>3 DEF upload_job
    <3> QED
      BY <1>b, <3>1, <3>2 DEF BillingInv
  <2> QED
    BY <1>3, <2>2, <2>3 DEF upload_job
<1>4. CASE discard_job(r) \/ delete_job(r)
  <2>1. /\ jobs' = [jobs EXCEPT ![j] = None] /\ Finish(r)
        /\ UNCHANGED <<run, inbox, created>>
    BY <1>4 DEF discard_job, delete_job
  <2>2. FramesInv' /\ TimedInv' /\ PaidInv'
    BY <1>a, <1>c, <1>i, <2>1
  <2>3. CreationInv'
    BY <1>a, <1>c, <1>g, <1>j, <2>1
  <2> QED
    BY <1>b, <2>2, <2>3 DEF BillingInv
<1>5. CASE set_source(r) \/ cancel_job(r)
  <2>1. Finish(r) /\ UNCHANGED <<run, inbox, created>>
    BY <1>5 DEF set_source, cancel_job
  <2>2. \A k \in Job : jobs'[k] # None =>
          jobs[k] # None /\ jobs'[k].timed = jobs[k].timed
    <3>1. jobs[j] # None => jobs[j] \in JobRecord
      BY <1>a, <1>c
    <3>2. jobs[j] # None =>
            /\ [jobs[j] EXCEPT !.source = TRUE].timed = jobs[j].timed
            /\ [jobs[j] EXCEPT !.status = "cancelled"].timed = jobs[j].timed
      BY <3>1 DEF JobRecord
    <3>3. \/ jobs' = jobs
          \/ jobs[j] # None /\ jobs' = [jobs EXCEPT ![j].source = TRUE]
          \/ jobs[j] # None /\ jobs' = [jobs EXCEPT ![j].status = "cancelled"]
      BY <1>5 DEF set_source, cancel_job
    <3> QED
      BY <1>a, <1>c, <3>2, <3>3
  <2>3. FramesInv' /\ TimedInv' /\ PaidInv'
    BY <1>i, <2>1, <2>2
  <2>4. CreationInv'
    BY <1>g, <1>j, <2>1, <2>2
  <2> QED
    BY <1>b, <2>3, <2>4 DEF BillingInv
<1>6. CASE bcc_cancel_job(r)
  <2>1. request'[r].pc \notin {"token", "insert", "upload"}
        /\ \A q \in Request \ {r} : request'[q] = request[q]
    BY <1>6, <1>f, <1>g DEF bcc_cancel_job
  <2>2. ASSUME run[j] \notin FinalStage \cup {"none"},
               run' = [run EXCEPT ![j] = "cancelled"],
               NEW t \in SentTimestamps(j), Send(j, "cancelled", t)
        PROVE  BillingInv'
    <3>1. run \in [Job -> Stage] /\ executed \subseteq Job
      BY DEF TypeOK
    <3>2. run'[j] = "cancelled" /\ \A k \in Job \ {j} : run'[k] = run[k]
      BY <1>c, <2>2, <3>1
    <3>3. FramesInv' /\ TimedInv'
      BY <1>6, <1>b, <1>c, <1>d, <2>2, <3>1, <3>2, SendKeepsOrder
      DEF bcc_cancel_job, SentTimestamps
    <3>4. PaidInv'
      BY <1>6, <1>b, <1>d, <1>e, <3>2 DEF bcc_cancel_job, PaidInv
    <3>5. CreationInv'
      BY <1>6, <1>j, <2>1, <2>2, <3>2 DEF bcc_cancel_job
    <3> QED
      BY <1>b, <3>3, <3>4, <3>5 DEF BillingInv
  <2>3. CASE UNCHANGED <<run, inbox>>
    <3>1. FramesInv' /\ TimedInv' /\ PaidInv'
      BY <1>6, <1>i, <2>3 DEF bcc_cancel_job
    <3>2. CreationInv'
      BY <1>6, <1>j, <2>1, <2>3 DEF bcc_cancel_job
    <3> QED
      BY <1>b, <3>1, <3>2 DEF BillingInv
  <2> QED
    BY <1>6, <2>2, <2>3 DEF bcc_cancel_job
<1>7. CASE bcc_delete_job(r)
  <2>1. request'[r].pc \notin {"token", "insert", "upload"}
        /\ \A q \in Request \ {r} : request'[q] = request[q]
    BY <1>7, <1>f, <1>g DEF bcc_delete_job
  <2>2. \A k \in Job : \/ run'[k] = run[k]
                       \/ run[k] # "none" /\ run'[k] = "deleted"
    BY <1>7, <1>c DEF bcc_delete_job, TypeOK
  <2>3. FramesInv'
    <3>1. executed \subseteq Job
      BY DEF TypeOK
    <3>2. \A s \in Socket : \A i \in 1..Len(inbox[s]) : inbox[s][i].job \in Job
      <4>1. \A s \in Socket : \A i \in 1..Len(inbox[s]) : inbox[s][i] \in JobUpdate
        BY DEF TypeOK
      <4> QED
        BY <4>1 DEF JobUpdate
    <3> QED
      BY <1>7, <1>b, <1>d, <2>2, <3>1, <3>2 DEF bcc_delete_job, FramesInv
  <2>4. TimedInv' /\ PaidInv'
    BY <1>7, <1>b, <1>d, <1>e, <2>2 DEF bcc_delete_job, TimedInv, PaidInv
  <2>5. CreationInv'
    BY <1>7, <1>j, <2>1, <2>2 DEF bcc_delete_job
  <2> QED
    BY <1>b, <2>3, <2>4, <2>5 DEF BillingInv
<1> QED
  BY <1>1, <1>2, <1>3, <1>4, <1>5, <1>6, <1>7 DEF RequestStep

(* Each step of the backend keeps the billing invariant.                   *)
LEMMA BackendStepBilling ==
  ASSUME TypeOK, BillingInv, NEW j \in Job, BackendNext(j)
  PROVE  BillingInv'
<1>a. /\ UNCHANGED <<jobs, handler, request, created, charges>>
      /\ BilledAtMostOnce'
  BY DEF BackendNext, sdk_upload, bcc_start, bcc_executed, bcc_end, BackendStep,
     BillingInv, BilledAtMostOnce
<1>b. CreationInv /\ FramesInv /\ TimedInv /\ PaidInv /\ RequestsOK
  BY TypeParts DEF BillingInv
<1>c. run \in [Job -> Stage] /\ executed \subseteq Job
  BY DEF TypeOK
<1>d. /\ \A k : Paid(k)' <=> Paid(k)
      /\ \A s : Billing(s)' <=> Billing(s)
      /\ \A r : Creating(r)' <=> Creating(r)
  BY <1>a DEF Paid, Billing, Creating
<1>e. ASSUME NEW status, NEW stage, NEW t, Send(j, status, t),
             run' = [run EXCEPT ![j] = stage], stage \notin {"none"},
             stage = "pending" => j \notin executed',
             t = "unfinished" => j \notin executed,
             t = "finished" => j \in executed',
             executed' \in {executed, executed \cup {j}},
             \A r \in Request : Creating(r) => request[r].job # j,
             j \in created
      PROVE  BillingInv'
  <2>1. run'[j] = stage /\ \A k \in Job \ {j} : run'[k] = run[k]
    BY <1>c, <1>e
  <2>2. FramesInv' /\ TimedInv'
    BY <1>a, <1>b, <1>c, <1>e, <2>1, SendKeepsOrder
  <2>3. PaidInv'
    BY <1>a, <1>b, <1>d, <1>e, <2>1 DEF PaidInv
  <2>4. CreationInv'
    <3>1. \A r \in Request : Creating(r) => request[r].job \in Job
      BY <1>b DEF Creating, RequestsOK, RequestOK
    <3> QED
      BY <1>a, <1>b, <1>d, <1>e, <2>1, <3>1 DEF CreationInv
  <2> QED
    BY <1>a, <2>2, <2>3, <2>4 DEF BillingInv
<1>f. run[j] # "none" =>
        j \in created /\ \A r \in Request : Creating(r) => request[r].job # j
  BY <1>b DEF CreationInv
<1>1. CASE sdk_upload(j)
  <2>1. j \notin executed
    BY <1>1, <1>b DEF sdk_upload, Take, FramesInv
  <2> QED
    BY <1>1, <1>b, <1>e, <2>1 DEF sdk_upload, Take, CreationInv
<1>2. CASE bcc_start(j)
  <2>1. j \notin executed
    BY <1>2, <1>b DEF bcc_start, BackendStep, FramesInv
  <2> QED
    BY <1>2, <1>e, <1>f, <2>1 DEF bcc_start, BackendStep
<1>3. CASE bcc_executed(j)
  BY <1>3, <1>e, <1>f DEF bcc_executed, BackendStep
<1>4. CASE bcc_end(j)
  <2>1. PICK to \in {"successful", "failed"}, t \in SentTimestamps(j), from \in {"pending", "executing"} :
          BackendStep(j, from, to, t) /\ UNCHANGED executed
    BY <1>4 DEF bcc_end
  <2>2. /\ t = "unfinished" => j \notin executed
        /\ t = "finished" => j \in executed
    BY DEF SentTimestamps
  <2> QED
    BY <1>e, <1>f, <2>1, <2>2 DEF BackendStep
<1> QED
  BY <1>1, <1>2, <1>3, <1>4 DEF BackendNext

(* Handling a frame keeps the billing invariant, when a job's events all   *)
(* come over one socket.                                                   *)
LEMMA UpdateBilling ==
  ASSUME TypeOK, BillingInv, OneSocketPerJob, NEW s \in Socket, on_job_updated_event(s)
  PROVE  BillingInv'
<1> DEFINE e == Head(inbox[s])
           j == e.job
<1>a. /\ UNCHANGED <<run, executed, request, created, charges>>
      /\ BilledAtMostOnce'
  BY DEF on_job_updated_event, BillingInv, BilledAtMostOnce
<1>b. CreationInv /\ FramesInv /\ TimedInv /\ PaidInv
  BY DEF BillingInv
<1>c. (\A k \in Job : jobs'[k] # None => jobs[k] # None) => CreationInv'
  BY <1>a, <1>b DEF CreationInv, Creating
<1>d. /\ inbox[s] \in Seq(JobUpdate) /\ inbox[s] # <<>>
      /\ inbox \in [Socket -> Seq(JobUpdate)]
      /\ inbox' = [inbox EXCEPT ![s] = Tail(@)]
  BY DEF TypeOK, on_job_updated_event
<1>e. /\ e = inbox[s][1] /\ 1 \in 1..Len(inbox[s]) /\ e \in JobUpdate
      /\ \A i \in 1..Len(inbox'[s]) :
           /\ i + 1 \in 1..Len(inbox[s]) /\ 1 < i + 1
           /\ inbox'[s][i] = inbox[s][i + 1]
      /\ \A u \in Socket \ {s} : inbox'[u] = inbox[u]
  BY <1>d
<1>f. j \in Job /\ s \in Route[j] /\ run[j] # "none"
      /\ (e.timestamps = "finished" => j \in executed)
  BY <1>b, <1>e DEF FramesInv, JobUpdate
<1> HIDE DEF e
<1>g. FramesInv'
  <2>1. \A u \in Socket : \A i \in 1..Len(inbox'[u]) :
          \E k \in 1..Len(inbox[u]) : inbox'[u][i] = inbox[u][k]
    <3> TAKE u \in Socket
    <3> TAKE i \in 1..Len(inbox'[u])
    <3>1. CASE u = s
      <4>1. i + 1 \in 1..Len(inbox[s]) /\ inbox'[s][i] = inbox[s][i + 1]
        BY <1>e, <3>1
      <4> QED
        BY <3>1, <4>1
    <3>2. CASE u # s
      BY <1>e, <3>2
    <3> QED
      BY <3>1, <3>2
  <2>2. \A u \in Socket : \A i \in 1..Len(inbox'[u]) :
          /\ u \in Route[inbox'[u][i].job]
          /\ run[inbox'[u][i].job] # "none"
          /\ inbox'[u][i].timestamps = "finished" => inbox'[u][i].job \in executed
    <3> TAKE u \in Socket
    <3> TAKE i \in 1..Len(inbox'[u])
    <3>1. PICK k \in 1..Len(inbox[u]) : inbox'[u][i] = inbox[u][k]
      BY <2>1
    <3> QED
      BY <1>b, <3>1 DEF FramesInv
  <2>3. ASSUME NEW u \in Socket, NEW i \in 1..Len(inbox'[u]), NEW k \in 1..Len(inbox'[u]),
               i < k, inbox'[u][i].job = inbox'[u][k].job,
               inbox'[u][i].timestamps = "finished"
        PROVE  inbox'[u][k].timestamps # "unfinished"
    <3>1. CASE u = s
      <4>1. /\ i + 1 \in 1..Len(inbox[s]) /\ k + 1 \in 1..Len(inbox[s]) /\ i + 1 < k + 1
            /\ inbox'[s][i] = inbox[s][i + 1] /\ inbox'[s][k] = inbox[s][k + 1]
        BY <1>e, <2>3, <3>1
      <4> QED
        BY <1>b, <2>3, <3>1, <4>1 DEF FramesInv
    <3>2. CASE u # s
      BY <1>b, <1>e, <2>3, <3>2 DEF FramesInv
    <3> QED
      BY <3>1, <3>2
  <2> QED
    BY <1>a, <1>b, <2>2, <2>3 DEF FramesInv
<1>h. ASSUME e.timestamps = "finished"
      PROVE  \A u \in Socket : \A i \in 1..Len(inbox'[u]) :
               inbox'[u][i].job = j => inbox'[u][i].timestamps # "unfinished"
  <2> SUFFICES ASSUME NEW u \in Socket, NEW i \in 1..Len(inbox'[u]), inbox'[u][i].job = j
               PROVE  inbox'[u][i].timestamps # "unfinished"
    OBVIOUS
  <2>1. CASE u = s
    BY <1>b, <1>e, <1>h, <2>1 DEF FramesInv
  <2>2. CASE u # s
    BY <1>b, <1>e, <1>f, <2>2 DEF FramesInv, OneSocketPerJob
  <2> QED
    BY <2>1, <2>2
<1>i. \A k \in Job : jobs[k] # None =>
        (jobs[k].timed =>
           \A u \in Socket : \A i \in 1..Len(inbox'[u]) :
             inbox'[u][i].job = k => inbox'[u][i].timestamps # "unfinished")
  BY <1>b, <1>e DEF TimedInv
<1>j. jobs \in [Job -> JobRecord \cup {None}] /\ handler \in [Socket -> HandlerState]
  BY DEF TypeOK
<1>1. CASE jobs[j] = None
  <2>1. UNCHANGED <<jobs, handler>>
    BY <1>1 DEF on_job_updated_event, e
  <2>2. TimedInv' /\ PaidInv'
    BY <1>a, <1>b, <1>i, <2>1 DEF TimedInv, PaidInv, Paid, Billing
  <2> QED
    BY <1>a, <1>c, <1>g, <2>1, <2>2 DEF BillingInv
<1>2. CASE jobs[j] # None
  <2>1. jobs' = [jobs EXCEPT ![j] = update_job(jobs[j], e)]
    BY <1>2 DEF on_job_updated_event, e
  <2>2. jobs[j] \in JobRecord
    BY <1>2, <1>f, <1>j
  <2>3. update_job(jobs[j], e).timed =
          IF e.timestamps = "absent" THEN jobs[j].timed ELSE e.timestamps = "finished"
    BY <2>2 DEF update_job, JobRecord
  <2>4. /\ jobs'[j] = update_job(jobs[j], e)
        /\ \A k \in Job \ {j} : jobs'[k] = jobs[k]
    BY <1>f, <1>j, <2>1
  <2>5. TimedInv'
    <3> SUFFICES ASSUME NEW k \in Job, jobs'[k] # None, jobs'[k].timed
                 PROVE  /\ k \in executed
                        /\ \A u \in Socket : \A i \in 1..Len(inbox'[u]) :
                             inbox'[u][i].job = k => inbox'[u][i].timestamps # "unfinished"
      BY <1>a DEF TimedInv
    <3>1. CASE k # j
      BY <1>b, <1>i, <2>4, <3>1 DEF TimedInv
    <3>2. CASE k = j /\ e.timestamps = "finished"
      BY <1>f, <1>h, <3>2
    <3>3. CASE k = j /\ e.timestamps # "finished"
      <4>1. jobs[j].timed
        BY <2>3, <2>4, <3>3
      <4> QED
        BY <1>2, <1>b, <1>i, <3>3, <4>1 DEF TimedInv
    <3> QED
      BY <3>1, <3>2, <3>3
  <2>6. Paid(j) => jobs[j].timed /\ e.timestamps # "unfinished"
    BY <1>2, <1>b, <1>e, <1>f DEF PaidInv, TimedInv
  <2>7. e.timestamps \in {"absent", "unfinished", "finished"}
    BY <1>e DEF JobUpdate
  <2>8. Paid(j) => jobs'[j].timed
    BY <2>3, <2>4, <2>6, <2>7
  <2>9. CASE IsFirstReport(jobs[j], e)
    <3>1. ~Paid(j) /\ jobs'[j].timed
      BY <2>3, <2>4, <2>6, <2>9 DEF IsFirstReport
    <3>2. handler' = [handler EXCEPT ![s] = [pc |-> "usage", job |-> j, project |-> None]]
      BY <1>2, <2>9 DEF on_job_updated_event, e
    <3>3. ~Billing(s)
      BY DEF on_job_updated_event, Billing
    <3>4. /\ handler'[s].pc = "usage" /\ handler'[s].job = j
          /\ \A u \in Socket \ {s} : handler'[u] = handler[u]
      BY <1>j, <3>2
    <3>5. \A k \in Job : Paid(k)' => Paid(k) \/ k = j
      BY <1>a, <3>4 DEF Paid, Billing
    <3>6. charges[j] = 0
      BY <1>f, <3>1 DEF Paid, TypeOK
    <3>7. PaidInv'
      BY <1>a, <1>b, <1>f, <2>4, <3>1, <3>4, <3>5, <3>6 DEF PaidInv, Billing
    <3> QED
      BY <1>2, <1>a, <1>c, <1>g, <2>4, <2>5, <3>7 DEF BillingInv
  <2>10. CASE ~IsFirstReport(jobs[j], e)
    <3>1. UNCHANGED handler
      BY <1>2, <2>10 DEF on_job_updated_event, e
    <3>2. PaidInv'
      BY <1>a, <1>b, <2>4, <2>8, <3>1 DEF PaidInv, Paid, Billing
    <3> QED
      BY <1>2, <1>a, <1>c, <1>g, <2>4, <2>5, <3>2 DEF BillingInv
  <2> QED
    BY <2>9, <2>10
<1> QED
  BY <1>1, <1>2

(* Taking the usage keeps it: the handler is the only one to bill the job. *)
LEMMA TakeUsageBilling ==
  ASSUME TypeOK, BillingInv, OneSocketPerJob, NEW s \in Socket, take_usage(s)
  PROVE  BillingInv'
<1> DEFINE j == handler[s].job
<1>a. UNCHANGED <<jobs, run, executed, inbox, request, created>>
  BY DEF take_usage
<1>b. CreationInv /\ FramesInv /\ TimedInv /\ PaidInv /\ BilledAtMostOnce
  BY DEF BillingInv
<1>c. CreationInv' /\ FramesInv' /\ TimedInv'
  BY <1>a, <1>b DEF CreationInv, Creating, FramesInv, TimedInv
<1>d. /\ handler \in [Socket -> HandlerState] /\ charges \in [Job -> Nat]
      /\ j \in Job /\ Billing(s)
  BY DEF TypeOK, TasksOK, take_usage, Billing
<1>e. charges[j] = 0 /\ s \in Route[j] /\ run[j] # "none"
      /\ (jobs[j] # None => jobs[j].timed)
  BY <1>b, <1>d DEF PaidInv, Paid
<1>f. \A u \in Socket \ {s} : Billing(u) => handler[u].job # j
  BY <1>b, <1>d, <1>e DEF PaidInv, OneSocketPerJob
<1>g. /\ handler'[s].pc \in {"idle", "depleted", "low"}
      /\ \A u \in Socket \ {s} : handler'[u] = handler[u]
  <2>1. \A x, y : _choose_qpu_notice(x, y) \in {"idle", "depleted", "low"}
    BY DEF _choose_qpu_notice
  <2>2. \/ handler' = [handler EXCEPT ![s] = Idle]
        \/ \E notice \in {"depleted", "low"} : handler' = [handler EXCEPT ![s].pc = notice]
    BY <2>1 DEF take_usage
  <2>3. ASSUME NEW notice \in {"depleted", "low"},
               handler' = [handler EXCEPT ![s].pc = notice]
        PROVE  handler'[s].pc = notice /\ \A u \in Socket \ {s} : handler'[u] = handler[u]
    BY <1>d, <2>3 DEF HandlerState
  <2>4. CASE handler' = [handler EXCEPT ![s] = Idle]
    BY <1>d, <2>4 DEF Idle
  <2> QED
    BY <2>2, <2>3, <2>4
<1>h. charges' \in {charges, [charges EXCEPT ![j] = @ + 1]}
  BY DEF take_usage
<1>i. charges'[j] \in {0, 1} /\ \A k \in Job \ {j} : charges'[k] = charges[k]
  BY <1>d, <1>e, <1>h
<1>j. BilledAtMostOnce'
  BY <1>b, <1>i DEF BilledAtMostOnce
<1>k. \A u \in Socket : Billing(u)' => u # s /\ Billing(u) /\ handler'[u] = handler[u]
  BY <1>g DEF Billing
<1>l. \A k \in Job : Paid(k)' => Paid(k)
  BY <1>d, <1>i, <1>k DEF Paid
<1>m. PaidInv'
  <2>1. \A u \in Socket : Billing(u)' => handler[u].job \in Job
    BY <1>k DEF TypeOK, TasksOK, Billing
  <2> QED
    BY <1>a, <1>b, <1>f, <1>i, <1>k, <1>l, <2>1 DEF PaidInv
<1> QED
  BY <1>c, <1>j, <1>m DEF BillingInv

(* No step breaks the billing invariant.                                   *)
LEMMA NextBilling ==
  ASSUME OneSocketPerJob
  PROVE  TypeOK /\ BillingInv /\ [Next]_vars => BillingInv'
<1> SUFFICES ASSUME TypeOK, BillingInv, [Next]_vars PROVE BillingInv'
  OBVIOUS
<1>a. CreationInv /\ FramesInv /\ TimedInv /\ PaidInv /\ BilledAtMostOnce
  BY DEF BillingInv
<1>b. request \in [Request -> RequestState] /\ handler \in [Socket -> HandlerState]
  BY DEF TypeOK
<1>c. ASSUME UNCHANGED <<jobs, run, executed, inbox, handler, charges>>
      PROVE  FramesInv' /\ TimedInv' /\ PaidInv' /\ BilledAtMostOnce'
  BY <1>a, <1>c DEF FramesInv, TimedInv, PaidInv, BilledAtMostOnce, Paid, Billing
<1>d. ASSUME UNCHANGED <<jobs, run, executed, request, created, charges>>,
             \A s \in Socket : inbox'[s] = inbox[s] \/ inbox'[s] = <<>>,
             \A s \in Socket : Billing(s)' => Billing(s) /\ handler'[s].job = handler[s].job
      PROVE  BillingInv'
  <2>1. \A s \in Socket : \A i \in 1..Len(inbox'[s]) : inbox'[s] = inbox[s]
    BY <1>d
  <2>2. FramesInv' /\ TimedInv'
    BY <1>a, <1>d, <2>1 DEF FramesInv, TimedInv
  <2>3. \A j \in Job : Paid(j)' => Paid(j)
    BY <1>d DEF Paid
  <2>4. PaidInv' /\ CreationInv' /\ BilledAtMostOnce'
    BY <1>a, <1>d, <2>3 DEF PaidInv, CreationInv, Creating, BilledAtMostOnce
  <2> QED
    BY <2>2, <2>4 DEF BillingInv
<1>1. ASSUME NEW r \in Request, NEW j \in Job, NEW p \in Project, NEW d \in BOOLEAN,
             check_access(r, j, p, d)
      PROVE BillingInv'
  <2>1. FramesInv' /\ TimedInv' /\ PaidInv' /\ BilledAtMostOnce'
    BY <1>1, <1>c DEF check_access
  <2>2. /\ j \notin created /\ created' = created \cup {j} /\ run' = run
        /\ request'[r].job = j
        /\ \A q \in Request \ {r} : request'[q] = request[q]
    BY <1>1, <1>b DEF check_access
  <2>3. run[j] = "none"
    BY <1>a, <2>2 DEF CreationInv
  <2>4. \A q \in Request : Creating(q) => request[q].job # j
    BY <1>a, <2>2 DEF CreationInv
  <2>5. CreationInv'
    BY <1>1, <1>a, <2>2, <2>3, <2>4 DEF check_access, CreationInv, Creating
  <2> QED
    BY <2>1, <2>5 DEF BillingInv
<1>2. ASSUME NEW r \in Request, NEW j \in Job, NEW pc \in {"bcc_cancel", "bcc_delete"},
             get_job(r, j, pc)
      PROVE BillingInv'
  <2>1. FramesInv' /\ TimedInv' /\ PaidInv' /\ BilledAtMostOnce'
    BY <1>2, <1>c DEF get_job
  <2>2. request'[r].pc = pc /\ \A q \in Request \ {r} : request'[q] = request[q]
    BY <1>2, <1>b DEF get_job
  <2>3. CreationInv'
    BY <1>2, <1>a, <2>2 DEF get_job, CreationInv, Creating
  <2> QED
    BY <2>1, <2>3 DEF BillingInv
<1>3. ASSUME NEW s \in Socket, HandlerStep(s)
      PROVE BillingInv'
  <2>1. CASE update_qpu_usage(s)
    <3>1. /\ \A u \in Socket \ {s} : handler'[u] = handler[u]
          /\ handler'[s].pc \in {"idle", "increment"}
          /\ handler'[s].pc = "increment" => handler'[s].job = handler[s].job
      BY <1>b, <2>1 DEF update_qpu_usage, HandlerState, Idle
    <3> QED
      BY <1>d, <2>1, <3>1 DEF update_qpu_usage, Billing
  <2>2. CASE _notify_project(s)
    <3>1. /\ \A u \in Socket \ {s} : handler'[u] = handler[u]
          /\ handler'[s].pc = "idle"
      BY <1>b, <2>2 DEF _notify_project, Idle
    <3> QED
      BY <1>d, <2>2, <3>1 DEF _notify_project, Billing
  <2> QED
    BY <1>3, <2>1, <2>2, UpdateBilling, TakeUsageBilling DEF HandlerStep
<1>4. ASSUME NEW p \in Project, top_up(p) \/ delete_project(p)
      PROVE BillingInv'
  BY <1>4, <1>d DEF top_up, delete_project, Billing
<1>5. ASSUME NEW r \in Request, lose_request(r)
      PROVE BillingInv'
  <2>1. FramesInv' /\ TimedInv' /\ PaidInv' /\ BilledAtMostOnce'
    BY <1>5, <1>c DEF lose_request
  <2>2. request'[r].pc = "idle" /\ \A q \in Request \ {r} : request'[q] = request[q]
    BY <1>5, <1>b DEF lose_request, Finish, NoRequest
  <2>3. CreationInv'
    BY <1>5, <1>a, <2>2 DEF lose_request, CreationInv, Creating
  <2> QED
    BY <2>1, <2>3 DEF BillingInv
<1>6. ASSUME NEW s \in Socket, lose_socket(s)
      PROVE BillingInv'
  <2>1. \A u \in Socket : inbox'[u] = inbox[u] \/ inbox'[u] = <<>>
    BY <1>6 DEF lose_socket, TypeOK
  <2>2. \A u \in Socket : Billing(u)' => Billing(u) /\ handler'[u].job = handler[u].job
    BY <1>6, <1>b DEF lose_socket, Billing, Idle
  <2> QED
    BY <1>6, <1>d, <2>1, <2>2 DEF lose_socket
<1>7. CASE UNCHANGED vars
  BY <1>7, <1>d DEF vars, Billing
<1> QED
  BY <1>1, <1>2, <1>3, <1>4, <1>5, <1>6, <1>7, RequestStepBilling, BackendStepBilling DEF Next

(* However often a backend reports a job's usage, whatever fails and       *)
(* whoever cancels or deletes the job meanwhile, its project is charged at *)
(* most once, provided that the job's events come over one socket.         *)
THEOREM BilledOnce ==
  ASSUME OneSocketPerJob
  PROVE  Spec => []BilledAtMostOnce
<1>1. Init => BillingInv
  BY JobsAssumption DEF Init, BillingInv, CreationInv, FramesInv, TimedInv, PaidInv,
     BilledAtMostOnce, Paid, Billing, Creating, Idle, NoRequest
<1>2. BillingInv => BilledAtMostOnce
  BY DEF BillingInv
<1>3. TypeOK /\ BillingInv /\ [Next]_vars => BillingInv'
  BY NextBilling
<1> QED
  BY <1>1, <1>2, <1>3, TypeCorrect, PTL DEF Spec

(* A step of the jobs service is a step of the ledger: a charge for a job  *)
(* not paid for yet, a credit, a closed project, or nothing.               *)
LEMMA LedgerStep ==
  ASSUME TypeOK, BillingInv, [Next]_vars
  PROVE  [Ledger!Next]_<<seconds, {j \in Job : charges[j] > 0}>>
<1> DEFINE billed == {j \in Job : charges[j] > 0}
<1>1. ASSUME NEW s \in Socket, take_usage(s)
      PROVE  Ledger!Next \/ UNCHANGED <<seconds, billed>>
  <2>0. handler[s].job \in Job /\ handler[s].project \in Project
    BY <1>1 DEF TypeOK, TasksOK, take_usage
  <2>a. PICK j \in Job : j = handler[s].job
    BY <2>0
  <2>b. PICK p \in Project : p = handler[s].project
    BY <2>0
  <2>1. charges \in [Job -> Nat] /\ charges[j] = 0
    BY <1>1, <2>a DEF TypeOK, take_usage, BillingInv, PaidInv, Billing
  <2>2. CASE seconds[p] = None
    BY <1>1, <2>2, <2>a, <2>b DEF take_usage
  <2>3. CASE seconds[p] # None
    <3>1. /\ seconds' = [seconds EXCEPT ![p] = @ + (-Usage[j])]
          /\ charges' = [charges EXCEPT ![j] = @ + 1]
      BY <1>1, <2>3, <2>a, <2>b DEF take_usage, increment_qpu_seconds
    <3>2. Usage[j] \in Nat /\ seconds[p] \in Int /\ seconds \in [Project -> Int \cup {None}]
      BY <2>1, <2>3, JobsAssumption DEF TypeOK
    <3>3. seconds' = [seconds EXCEPT ![p] = @ - Usage[j]]
      BY <2>1, <3>1, <3>2
    <3>4. charges'[j] = 1 /\ \A k \in Job \ {j} : charges'[k] = charges[k]
      BY <2>1, <3>1
    <3>5. j \notin billed /\ billed' = billed \cup {j}
      BY <2>1, <3>4
    <3>6. Ledger!Charge(j, p)
      BY <2>3, <3>3, <3>5 DEF Ledger!Charge
    <3> QED
      BY <3>6 DEF Ledger!Next
  <2> QED
    BY <2>2, <2>3
<1>2. ASSUME NEW p \in Project, top_up(p)
      PROVE  Ledger!Next
  <2>1. Ledger!Credit(p)
    BY <1>2 DEF top_up, increment_qpu_seconds, Ledger!Credit
  <2> QED
    BY <2>1 DEF Ledger!Next
<1>3. ASSUME NEW p \in Project, delete_project(p)
      PROVE  Ledger!Next
  <2>1. Ledger!Close(p)
    BY <1>3 DEF delete_project, Ledger!Close
  <2> QED
    BY <2>1 DEF Ledger!Next
<1>4. ASSUME UNCHANGED <<seconds, charges>>
      PROVE  UNCHANGED <<seconds, billed>>
  BY <1>4
<1>5. \/ \E s \in Socket : take_usage(s)
      \/ \E p \in Project : top_up(p) \/ delete_project(p)
      \/ UNCHANGED <<seconds, charges>>
  BY DEF Next, vars, check_access, get_job, RequestStep, get_token, insert_job,
     upload_job, discard_job, set_source, bcc_cancel_job, cancel_job, bcc_delete_job,
     delete_job, BackendNext, sdk_upload, bcc_start, bcc_executed, bcc_end, BackendStep,
     HandlerStep, on_job_updated_event, update_qpu_usage, _notify_project, lose_request,
     lose_socket
<1> QED
  BY <1>1, <1>2, <1>3, <1>4, <1>5

(* The jobs service implements the ledger: each job is paid for once, in   *)
(* full and by one project, and only an approved request gives seconds     *)
(* back, provided that each job's events come over one socket.             *)
THEOREM BillingImplementsLedger ==
  ASSUME OneSocketPerJob
  PROVE  Spec => LedgerSpec
<1>1. Init => Ledger!Init
  BY DEF Init, Ledger!Init
<1>2. Init => BillingInv
  BY JobsAssumption DEF Init, BillingInv, CreationInv, FramesInv, TimedInv, PaidInv,
     BilledAtMostOnce, Paid, Billing, Creating, Idle, NoRequest
<1>3. TypeOK /\ BillingInv /\ [Next]_vars => BillingInv'
  BY NextBilling
<1>4. TypeOK /\ BillingInv /\ [Next]_vars =>
        [Ledger!Next]_<<seconds, {j \in Job : charges[j] > 0}>>
  BY LedgerStep
<1> QED
  BY <1>1, <1>2, <1>3, <1>4, TypeCorrect, PTL DEF Spec, LedgerSpec, Ledger!Spec

---------------------------------------------------------------------------
(* No run is free, over however many sockets a job's events come.          *)

(* What a handler is about: a job that a backend took, and the project the *)
(* job is stored with; by the time it sends notices it has charged the job. *)
HandlerInv(s) ==
  /\ handler[s].pc = "idle" => handler[s].job = None
  /\ Billing(s) => run[handler[s].job] # "none"
  /\ handler[s].pc = "increment" /\ jobs[handler[s].job] # None =>
       handler[s].project = jobs[handler[s].job].project
  /\ handler[s].pc \in {"depleted", "low"} => charges[handler[s].job] >= 1

(* The frames are of jobs that a backend took.                             *)
TakenInv == \A s \in Socket : \A i \in 1..Len(inbox[s]) : run[inbox[s][i].job] # "none"

UsageInv ==
  /\ CreationInv
  /\ TakenInv
  /\ \A s \in Socket : HandlerInv(s)
  /\ RecordedDurationIsBilled

(* A step that leaves the handlers alone keeps the invariant, if what it   *)
(* stores has no duration unless it had, and it brings no project back.    *)
LEMMA UsageKept ==
  ASSUME TypeOK, TypeOK', UsageInv, CreationInv', TakenInv',
         UNCHANGED <<handler, charges>>, failures <= failures',
         \A j \in Job : run[j] # "none" => run'[j] # "none",
         \A j \in Job : jobs'[j] # None =>
           \/ jobs[j] # None /\ jobs'[j].project = jobs[j].project /\ jobs'[j].timed = jobs[j].timed
           \/ ~jobs'[j].timed /\ run[j] = "none",
         \A p \in Project : seconds'[p] # None => seconds[p] # None
  PROVE  UsageInv'
<1>1. ASSUME NEW s \in Socket
      PROVE  HandlerInv(s)'
  <2>1. HandlerInv(s) /\ HandlerOK(s)
    BY TypeParts DEF UsageInv, HandlersOK
  <2>2. Billing(s) => handler[s].job \in Job /\ run[handler[s].job] # "none"
    BY <2>1 DEF HandlerInv, HandlerOK, Billing
  <2>3. handler[s].pc = "increment" /\ jobs'[handler[s].job] # None =>
          /\ jobs[handler[s].job] # None
          /\ jobs'[handler[s].job].project = jobs[handler[s].job].project
    BY <2>2 DEF Billing
  <2> QED
    BY <2>1, <2>2, <2>3 DEF HandlerInv, Billing
<1>2. RecordedDurationIsBilled'
  <2> SUFFICES ASSUME NEW j \in Job, jobs'[j] # None, failures' = 0, jobs'[j].timed,
                      seconds'[jobs'[j].project] # None
               PROVE  charges[j] >= 1 \/ Handling(j)
    BY DEF RecordedDurationIsBilled, Handling
  <2>1. jobs[j] # None /\ jobs'[j].project = jobs[j].project /\ jobs[j].timed
    OBVIOUS
  <2>2. failures = 0
    BY DEF TypeOK
  <2>3. jobs[j].project \in Project
    BY <2>1 DEF TypeOK, JobRecord
  <2> QED
    BY <2>1, <2>2, <2>3 DEF UsageInv, RecordedDurationIsBilled
<1> QED
  BY <1>1, <1>2 DEF UsageInv

LEMMA FrameJobs ==
  ASSUME TypeOK
  PROVE  \A u \in Socket : \A i \in 1..Len(inbox[u]) : inbox[u][i].job \in Job
<1>1. inbox \in [Socket -> Seq(JobUpdate)]
  BY DEF TypeOK
<1>2. \A u \in Socket : \A i \in 1..Len(inbox[u]) : inbox[u][i] \in JobUpdate
  BY <1>1
<1> QED
  BY <1>2 DEF JobUpdate

(* Sending a frame about a job that the backend has keeps TakenInv.        *)
LEMMA SendTaken ==
  ASSUME TypeOK, TakenInv, NEW j \in Job, NEW status, NEW t, Send(j, status, t),
         run'[j] # "none", \A k \in Job : run[k] # "none" => run'[k] # "none"
  PROVE  TakenInv'
<1>1. PICK s \in Route[j] : \A u \in Socket : \A i \in 1..Len(inbox'[u]) :
        \/ i \in 1..Len(inbox[u]) /\ inbox'[u][i] = inbox[u][i]
        \/ /\ u = s /\ i = Len(inbox[u]) + 1
           /\ inbox'[u][i].job = j /\ inbox'[u][i].timestamps = t
  <2>1. inbox \in [Socket -> Seq(JobUpdate)]
    BY DEF TypeOK
  <2> QED
    BY <2>1, SendFrames
<1>2. \A u \in Socket : \A i \in 1..Len(inbox[u]) : inbox[u][i].job \in Job
  BY FrameJobs
<1> QED
  BY <1>1, <1>2 DEF TakenInv

LEMMA TakenUnchanged ==
  ASSUME TypeOK, TakenInv, UNCHANGED inbox, \A k \in Job : run[k] # "none" => run'[k] # "none"
  PROVE  TakenInv'
<1>1. \A u \in Socket : \A i \in 1..Len(inbox[u]) : inbox[u][i].job \in Job
  BY FrameJobs
<1> QED
  BY <1>1 DEF TakenInv

(* A job is taken from its creator, or after its creator is done.          *)
LEMMA TakeCreation ==
  ASSUME TypeOK, CreationInv, NEW j \in Job, j \in created, Take(j), UNCHANGED <<jobs, created>>,
         \A q \in Request : Creating(q)' =>
           Creating(q) /\ request'[q].job = request[q].job /\ request[q].job # j
  PROVE  CreationInv'
<1>1. run'[j] # "none" /\ \A k \in Job \ {j} : run'[k] = run[k]
  BY DEF Take, TypeOK
<1>2. \A q \in Request : Creating(q) => request[q].job \in Job
  BY TypeParts DEF RequestsOK, RequestOK, Creating
<1> QED
  BY <1>1, <1>2 DEF CreationInv

LEMMA RequestStepUsage ==
  ASSUME TypeOK, TypeOK', UsageInv, NEW r \in Request, RequestStep(r)
  PROVE  UsageInv'
<1>a. /\ UNCHANGED <<handler, charges, seconds, failures, created>>
      /\ CreationInv /\ TakenInv
  BY DEF RequestStep, get_token, insert_job, upload_job, discard_job, set_source,
     bcc_cancel_job, cancel_job, bcc_delete_job, delete_job, UsageInv
<1>b. /\ request[r].job \in Job /\ request \in [Request -> RequestState]
      /\ run \in [Job -> Stage] /\ jobs \in [Job -> JobRecord \cup {None}]
      /\ failures <= failures'
  <2>1. request[r].pc # "idle"
    BY DEF RequestStep, get_token, insert_job, upload_job, discard_job, set_source,
       bcc_cancel_job, cancel_job, bcc_delete_job, delete_job
  <2> QED
    BY <1>a, <2>1 DEF TypeOK, TasksOK
<1>c. ASSUME NEW pc, Goto(r, pc) \/ Finish(r), pc \in {"token", "insert", "upload"} => Creating(r)
      PROVE  /\ \A q \in Request : Creating(q)' =>
                  Creating(q) /\ request'[q].job = request[q].job /\ request[q].job \in Job
             /\ pc \notin {"token", "insert", "upload"} => ~Creating(r)'
  <2>1. /\ \A q \in Request \ {r} : request'[q] = request[q]
        /\ \/ request'[r].pc = pc /\ request'[r].job = request[r].job
           \/ request'[r].pc = "idle"
    BY <1>b, <1>c DEF Goto, Finish, NoRequest, RequestState
  <2>2. \A q \in Request : Creating(q) => request[q].job \in Job
    BY TypeParts DEF RequestsOK, RequestOK, Creating
  <2> QED
    BY <1>c, <2>1, <2>2 DEF Creating
<1>d. ASSUME UNCHANGED <<jobs, inbox>>, NEW pc, Goto(r, pc) \/ Finish(r),
             pc \in {"token", "insert", "upload"} => Creating(r),
             \A j \in Job : run[j] = "none" <=> run'[j] = "none"
      PROVE  UsageInv'
  <2>1. CreationInv'
    BY <1>a, <1>c, <1>d, CreationUnchanged
  <2>2. TakenInv'
    BY <1>a, <1>d, TakenUnchanged
  <2> QED
    BY <1>a, <1>b, <1>d, <2>1, <2>2, UsageKept
<1>e. ASSUME UNCHANGED <<run, inbox>>, Finish(r),
             \/ jobs' = jobs
             \/ jobs' = [jobs EXCEPT ![request[r].job] = None]
             \/ /\ jobs[request[r].job] # None
                /\ \/ jobs' = [jobs EXCEPT ![request[r].job].source = TRUE]
                   \/ jobs' = [jobs EXCEPT ![request[r].job].status = "cancelled"]
      PROVE  UsageInv'
  <2>1. \A j \in Job : jobs'[j] # None =>
          jobs[j] # None /\ jobs'[j].project = jobs[j].project /\ jobs'[j].timed = jobs[j].timed
    BY <1>b, <1>e DEF JobRecord
  <2>2. CreationInv'
    <3>1. \A q \in Request : Creating(q)' =>
            Creating(q) /\ request'[q].job = request[q].job /\ request[q].job \in Job
      BY <1>c, <1>e
    <3> QED
      BY <1>a, <1>e, <2>1, <3>1, CreationUnchanged
  <2>3. TakenInv'
    BY <1>a, <1>e, TakenUnchanged
  <2> QED
    BY <1>a, <1>b, <1>e, <2>1, <2>2, <2>3, UsageKept
<1>1. CASE get_token(r)
  BY <1>1, <1>d DEF get_token, Creating
<1>2. CASE insert_job(r)
  <2>1. Creating(r) /\ request[r].job \in created /\ run[request[r].job] = "none"
    BY <1>2, <1>a DEF insert_job, Creating, CreationInv
  <2>2. /\ ~jobs'[request[r].job].timed
        /\ \A k \in Job \ {request[r].job} : jobs'[k] = jobs[k]
    BY <1>2, <1>b DEF insert_job
  <2>3. \A q \in Request : Creating(q)' =>
          Creating(q) /\ request'[q].job = request[q].job /\ request[q].job \in Job
    BY <1>2, <1>c, <2>1 DEF insert_job
  <2>4. CreationInv'
    BY <1>2, <1>a, <2>1, <2>2, <2>3, CreationUnchanged DEF insert_job
  <2>5. TakenInv'
    BY <1>2, <1>a, TakenUnchanged DEF insert_job
  <2> QED
    BY <1>2, <1>a, <1>b, <2>1, <2>2, <2>4, <2>5, UsageKept DEF insert_job
<1>3. CASE upload_job(r)
  <2>1. CASE Take(request[r].job) /\ (Goto(r, "source") \/ Goto(r, "discard"))
    <3>1. Creating(r) /\ request[r].job \in created
      BY <1>3, <1>a DEF upload_job, Creating, CreationInv
    <3>2. \A q \in Request : Creating(q)' =>
            Creating(q) /\ request'[q].job = request[q].job /\ request[q].job # request[r].job
      <4>1. /\ \A q \in Request : Creating(q)' => Creating(q) /\ request'[q].job = request[q].job
            /\ ~Creating(r)'
        BY <1>c, <2>1
      <4> QED
        BY <1>a, <3>1, <4>1 DEF CreationInv
    <3>3. UNCHANGED jobs
      BY <1>3 DEF upload_job
    <3>4. CreationInv'
      BY <1>a, <1>b, <2>1, <3>1, <3>2, <3>3, TakeCreation
    <3>5. run'[request[r].job] # "none" /\ \A k \in Job : run[k] # "none" => run'[k] # "none"
      BY <1>b, <2>1 DEF Take
    <3>6. TakenInv'
      BY <1>a, <1>b, <2>1, <3>5, SendTaken DEF Take
    <3> QED
      BY <1>a, <1>b, <3>3, <3>4, <3>5, <3>6, UsageKept
  <2>2. CASE Goto(r, "discard") /\ UNCHANGED <<run, inbox>>
    BY <1>3, <1>d, <2>2 DEF upload_job
  <2> QED
    BY <1>3, <2>1, <2>2 DEF upload_job
<1>4. CASE discard_job(r)
  BY <1>4, <1>e DEF discard_job
<1>5. CASE set_source(r)
  BY <1>5, <1>e DEF set_source
<1>6. CASE bcc_cancel_job(r)
  <2>1. CASE Finish(r) /\ UNCHANGED <<run, inbox>>
    BY <1>6, <1>d, <2>1 DEF bcc_cancel_job
  <2>2. CASE /\ run[request[r].job] \notin FinalStage \cup {"none"}
             /\ run' = [run EXCEPT ![request[r].job] = "cancelled"]
             /\ \E t \in SentTimestamps(request[r].job) : Send(request[r].job, "cancelled", t)
             /\ Goto(r, "mark_cancelled") \/ (CanTimeOut /\ Finish(r))
    <3>1. run'[request[r].job] # "none" /\ \A k \in Job : run[k] = "none" <=> run'[k] = "none"
      BY <1>b, <2>2
    <3>2. TakenInv'
      BY <1>a, <1>b, <2>2, <3>1, SendTaken
    <3>3. UNCHANGED jobs
      BY <1>6 DEF bcc_cancel_job
    <3>4. \A q \in Request : Creating(q)' =>
            Creating(q) /\ request'[q].job = request[q].job /\ request[q].job \in Job
      BY <1>c, <2>2
    <3>5. CreationInv'
      BY <1>a, <3>1, <3>3, <3>4, CreationUnchanged
    <3> QED
      BY <1>a, <1>b, <3>1, <3>2, <3>3, <3>5, UsageKept
  <2> QED
    BY <1>6, <2>1, <2>2 DEF bcc_cancel_job
<1>7. CASE cancel_job(r)
  BY <1>7, <1>e DEF cancel_job
<1>8. CASE bcc_delete_job(r)
  <2>1. \A j \in Job : run[j] = "none" <=> run'[j] = "none"
    BY <1>8, <1>b DEF bcc_delete_job
  <2> QED
    BY <1>8, <1>d, <2>1 DEF bcc_delete_job
<1>9. CASE delete_job(r)
  BY <1>9, <1>e DEF delete_job
<1> QED
  BY <1>1, <1>2, <1>3, <1>4, <1>5, <1>6, <1>7, <1>8, <1>9 DEF RequestStep

LEMMA BackendStepUsage ==
  ASSUME TypeOK, TypeOK', UsageInv, NEW j \in Job, BackendNext(j)
  PROVE  UsageInv'
<1>a. /\ UNCHANGED <<jobs, seconds, handler, request, created, charges, failures>>
      /\ CreationInv /\ TakenInv /\ run \in [Job -> Stage] /\ failures <= failures'
  BY DEF BackendNext, sdk_upload, bcc_start, bcc_executed, bcc_end, BackendStep, UsageInv, TypeOK
<1>b. PICK status, t, stage : Send(j, status, t) /\ run' = [run EXCEPT ![j] = stage] /\ stage # "none"
  BY DEF BackendNext, sdk_upload, Take, bcc_start, bcc_executed, bcc_end, BackendStep
<1>c. run'[j] # "none" /\ \A k \in Job : run[k] # "none" => run'[k] # "none"
  BY <1>a, <1>b
<1>d. TakenInv'
  BY <1>a, <1>b, <1>c, SendTaken
<1>e. CreationInv'
  <2>1. \A q \in Request : Creating(q) => request[q].job \in Job
    BY TypeParts DEF RequestsOK, RequestOK, Creating
  <2>2. CASE sdk_upload(j)
    <3>1. /\ \A q \in Request : Creating(q)' =>
               Creating(q) /\ request'[q].job = request[q].job /\ request[q].job # j
          /\ j \in created /\ Take(j)
      BY <1>a, <2>2 DEF sdk_upload, Creating, CreationInv
    <3> QED
      BY <1>a, <3>1, TakeCreation
  <2>3. CASE ~sdk_upload(j)
    <3>1. run[j] # "none"
      BY <2>3 DEF BackendNext, bcc_start, bcc_executed, bcc_end, BackendStep
    <3>2. \A k \in Job : run[k] = "none" => run'[k] = "none"
      BY <1>a, <1>b, <3>1
    <3>3. \A q \in Request : Creating(q)' =>
            Creating(q) /\ request'[q].job = request[q].job /\ request[q].job \in Job
      BY <1>a, <2>1 DEF Creating
    <3> QED
      BY <1>a, <3>2, <3>3, CreationUnchanged
  <2> QED
    BY <2>2, <2>3
<1> QED
  BY <1>a, <1>c, <1>d, <1>e, UsageKept

(* A step of a handler leaves the requests and the backends alone.         *)
LEMMA HandlerStepUsage ==
  ASSUME TypeOK, TypeOK', UsageInv, NEW s \in Socket, HandlerStep(s)
  PROVE  UsageInv'
<1> DEFINE h == handler[s]
<1>a. /\ UNCHANGED <<run, request, created, failures>>
      /\ CreationInv /\ TakenInv /\ HandlerInv(s) /\ HandlerOK(s)
      /\ handler \in [Socket -> HandlerState] /\ jobs \in [Job -> JobRecord \cup {None}]
  BY TypeParts DEF HandlerStep, on_job_updated_event, update_qpu_usage, take_usage, _notify_project,
     UsageInv, TypeOK, HandlersOK
<1>b. ASSUME \A j \in Job : jobs'[j] # None => jobs[j] # None
      PROVE  CreationInv'
  <2>1. \A q \in Request : Creating(q)' =>
          Creating(q) /\ request'[q].job = request[q].job /\ request[q].job \in Job
    BY <1>a, TypeParts DEF RequestsOK, RequestOK, Creating
  <2> QED
    BY <1>a, <1>b, <2>1, CreationUnchanged
<1>1. CASE on_job_updated_event(s)
  <2> DEFINE e == Head(inbox[s])
  <2>1. inbox[s] \in Seq(JobUpdate) /\ inbox[s] # <<>> /\ h.pc = "idle" /\ h.job = None
    BY <1>1, <1>a DEF on_job_updated_event, HandlerInv, TypeOK
  <2>2. /\ e \in JobUpdate /\ e = inbox[s][1] /\ 1 \in 1..Len(inbox[s])
        /\ Len(Tail(inbox[s])) = Len(inbox[s]) - 1 /\ Len(inbox[s]) \in Nat
        /\ \A i \in 1..Len(Tail(inbox[s])) : Tail(inbox[s])[i] = inbox[s][i + 1] /\ i + 1 \in 1..Len(inbox[s])
    BY <2>1
  <2>3. e.job \in Job /\ run[e.job] # "none"
    <3>1. e.job \in Job
      BY <2>2 DEF JobUpdate
    <3>2. run[inbox[s][1].job] # "none"
      BY <1>a, <2>2 DEF TakenInv
    <3> QED
      BY <2>2, <3>1, <3>2
  <2>4. inbox' = [inbox EXCEPT ![s] = Tail(inbox[s])]
    BY <1>1 DEF on_job_updated_event
  <2>5. TakenInv'
    <3>1. inbox'[s] = Tail(inbox[s]) /\ \A u \in Socket \ {s} : inbox'[u] = inbox[u]
      BY <2>4 DEF TypeOK
    <3> SUFFICES ASSUME NEW u \in Socket, NEW i \in 1..Len(inbox'[u])
                 PROVE  run[inbox'[u][i].job] # "none"
      BY <1>a DEF TakenInv
    <3>2. CASE u = s
      <4>1. inbox'[u][i] = inbox[s][i + 1] /\ i + 1 \in 1..Len(inbox[s])
        BY <2>2, <3>1, <3>2
      <4> QED
        BY <1>a, <4>1 DEF TakenInv
    <3>3. CASE u # s
      BY <1>a, <3>1, <3>3 DEF TakenInv
    <3> QED
      BY <3>2, <3>3
  <2>6. UNCHANGED <<seconds, charges>>
    BY <1>1 DEF on_job_updated_event
  <2>7. CASE jobs[e.job] = None
    <3>1. UNCHANGED <<jobs, handler>>
      BY <1>1, <2>7 DEF on_job_updated_event
    <3>2. CreationInv'
      BY <1>b, <3>1
    <3>3. failures <= failures'
      BY <1>a DEF TypeOK
    <3> QED
      BY <1>a, <2>5, <2>6, <3>1, <3>2, <3>3, UsageKept
  <2>8. CASE jobs[e.job] # None
    <3> DEFINE record == jobs[e.job]
               first == IsFirstReport(record, e)
    <3>1. /\ jobs' = [jobs EXCEPT ![e.job] = update_job(record, e)]
          /\ handler' = IF first THEN [handler EXCEPT ![s] =
                                         [pc |-> "usage", job |-> e.job, project |-> None]]
                        ELSE handler
      BY <1>1, <2>8 DEF on_job_updated_event
    <3>2. record \in JobRecord
      BY <1>a, <2>3, <2>8
    <3>3. /\ jobs'[e.job].project = record.project
          /\ jobs'[e.job].timed => record.timed \/ first
      <4>1. jobs'[e.job] = update_job(record, e)
        BY <1>a, <2>3, <3>1
      <4>2. /\ update_job(record, e).project = record.project
            /\ update_job(record, e).timed = IF e.timestamps = "absent" THEN record.timed
                                             ELSE e.timestamps = "finished"
        BY <3>2 DEF update_job, JobRecord
      <4>3. update_job(record, e).timed => record.timed \/ first
        BY <3>2, <4>2 DEF IsFirstReport, JobRecord
      <4> QED
        BY <4>1, <4>2, <4>3
    <3>4. \A k \in Job \ {e.job} : jobs'[k] = jobs[k]
      BY <1>a, <2>3, <3>1
    <3>5. \A k \in Job : jobs'[k] # None => jobs[k] # None /\ jobs'[k].project = jobs[k].project
      <4> HIDE DEF e
      <4> QED BY <2>8, <3>3, <3>4
    <3>6. /\ \A u \in Socket \ {s} : handler'[u] = handler[u]
          /\ \/ handler'[s] = handler[s] /\ ~first
             \/ handler'[s].pc = "usage" /\ handler'[s].job = e.job /\ first
      <4> HIDE DEF e, first
      <4> QED BY <1>a, <3>1
    <3>7. ASSUME NEW u \in Socket
          PROVE  HandlerInv(u)'
      <4>1. HandlerInv(u) /\ HandlerOK(u)
        BY TypeParts DEF UsageInv, HandlersOK
      <4>2. CASE handler'[u] = handler[u]
        <5>1. handler[u].pc = "increment" => handler[u].job \in Job
          BY <4>1 DEF HandlerOK
        <5> QED
          BY <1>a, <2>6, <3>5, <4>1, <4>2, <5>1 DEF HandlerInv, Billing
      <4>3. CASE u = s /\ handler'[s].pc = "usage" /\ handler'[s].job = e.job
        BY <1>a, <2>3, <4>3 DEF HandlerInv, Billing
      <4> QED
        BY <3>6, <4>2, <4>3
    <3>8. RecordedDurationIsBilled'
      <4> SUFFICES ASSUME NEW k \in Job, jobs'[k] # None, failures = 0, jobs'[k].timed,
                          seconds[jobs'[k].project] # None
                   PROVE  charges[k] >= 1 \/ Handling(k)'
        BY <1>a, <2>6 DEF RecordedDurationIsBilled
      <4>1. CASE k = e.job /\ first
        BY <3>6, <4>1 DEF Handling
      <4>2. CASE ~(k = e.job /\ first)
        <5>1. jobs[k] # None /\ jobs[k].timed /\ jobs'[k].project = jobs[k].project
          <6> HIDE DEF e, first
          <6> QED BY <3>3, <3>4, <3>5, <4>2
        <5>2. charges[k] >= 1 \/ Handling(k)
          BY <5>1 DEF UsageInv, RecordedDurationIsBilled
        <5>3. ASSUME NEW u \in Socket, handler[u].job = k
              PROVE  handler'[u].job = k
          <6>1. u # s
            BY <2>1, <5>3, JobsAssumption
          <6> QED
            BY <3>6, <5>3, <6>1
        <5> QED
          BY <5>2, <5>3 DEF Handling
      <4> QED
        BY <4>1, <4>2
    <3> QED
      BY <1>b, <2>5, <3>5, <3>7, <3>8 DEF UsageInv
  <2> QED
    BY <2>7, <2>8
<1>c. ASSUME UNCHANGED <<jobs, inbox>>, \A u \in Socket \ {s} : handler'[u] = handler[u],
             HandlerInv(s)', \A j \in Job : charges[j] <= charges'[j],
             \A p \in Project : seconds'[p] # None => seconds[p] # None,
             handler'[s].job = h.job \/ charges'[h.job] >= 1
               \/ jobs[h.job] = None \/ seconds[jobs[h.job].project] = None,
             h.job \in Job
      PROVE  UsageInv'
  <2>0. charges \in [Job -> Nat] /\ charges' \in [Job -> Nat]
    BY DEF TypeOK
  <2>1. CreationInv' /\ TakenInv'
    BY <1>a, <1>b, <1>c, TakenUnchanged
  <2>2. ASSUME NEW u \in Socket
        PROVE  HandlerInv(u)'
    <3>1. CASE u = s
      BY <1>c, <3>1
    <3>2. CASE u # s
      <4>1. HandlerInv(u) /\ HandlerOK(u) /\ handler'[u] = handler[u]
        BY <1>c, <3>2, TypeParts DEF UsageInv, HandlersOK
      <4>2. handler[u].pc # "idle" => charges[handler[u].job] <= charges'[handler[u].job] /\ handler[u].job \in Job
        BY <1>c, <4>1 DEF HandlerOK
      <4>3. handler[u].pc \in {"depleted", "low"} => charges'[handler[u].job] >= 1
        BY <2>0, <4>1, <4>2 DEF HandlerInv
      <4> QED
        BY <1>a, <1>c, <4>1, <4>3 DEF HandlerInv, Billing
    <3> QED
      BY <3>1, <3>2
  <2>3. RecordedDurationIsBilled'
    <3> SUFFICES ASSUME NEW k \in Job, jobs[k] # None, failures = 0, jobs[k].timed,
                        seconds'[jobs[k].project] # None
                 PROVE  charges'[k] >= 1 \/ Handling(k)'
      BY <1>a, <1>c DEF RecordedDurationIsBilled
    <3>0. seconds[jobs[k].project] # None
      BY <1>a, <1>c DEF JobRecord
    <3>1. charges[k] >= 1 \/ Handling(k)
      BY <3>0 DEF UsageInv, RecordedDurationIsBilled
    <3>2. CASE charges[k] >= 1
      <4>1. charges[k] <= charges'[k] /\ charges[k] \in Nat /\ charges'[k] \in Nat
        BY <1>c, <2>0
      <4> QED
        BY <3>2, <4>1
    <3>3. ASSUME NEW u \in Socket, handler[u].job = k
          PROVE  charges'[k] >= 1 \/ Handling(k)'
      <4>1. CASE u # s
        BY <1>c, <3>3, <4>1 DEF Handling
      <4>2. CASE u = s
        BY <1>c, <3>0, <3>3, <4>2 DEF Handling
      <4> QED
        BY <4>1, <4>2
    <3> QED
      BY <3>1, <3>2, <3>3 DEF Handling
  <2> QED
    BY <2>1, <2>2, <2>3 DEF UsageInv
<1>d. charges \in [Job -> Nat]
  BY DEF TypeOK
<1>2. CASE update_qpu_usage(s)
  <2>1. h.pc = "usage" /\ h.job \in Job /\ run[h.job] # "none"
    BY <1>2, <1>a DEF update_qpu_usage, HandlerOK, HandlerInv, Billing
  <2>2. UNCHANGED <<jobs, inbox, charges, seconds>>
    BY <1>2 DEF update_qpu_usage
  <2>3. \A u \in Socket \ {s} : handler'[u] = handler[u]
    BY <1>2, <1>a DEF update_qpu_usage
  <2>4. CASE jobs[h.job] = None
    <3>1. handler'[s] = Idle
      BY <1>2, <1>a, <2>4 DEF update_qpu_usage
    <3>2. HandlerInv(s)'
      BY <3>1 DEF HandlerInv, Idle, Billing
    <3> QED
      BY <1>c, <1>d, <2>1, <2>2, <2>3, <2>4, <3>2
  <2>5. CASE jobs[h.job] # None
    <3>1. /\ handler'[s].pc = "increment" /\ handler'[s].job = h.job
          /\ handler'[s].project = jobs[h.job].project
      BY <1>2, <1>a, <2>5 DEF update_qpu_usage, HandlerState
    <3>2. HandlerInv(s)'
      BY <1>a, <2>1, <2>2, <3>1 DEF HandlerInv, Billing
    <3> QED
      BY <1>c, <1>d, <2>1, <2>2, <2>3, <3>1, <3>2
  <2> QED
    BY <2>4, <2>5
<1>3. CASE take_usage(s)
  <2>1. /\ h.pc = "increment" /\ h.job \in Job /\ h.project \in Project
        /\ jobs[h.job] # None => h.project = jobs[h.job].project
    BY <1>3, <1>a DEF take_usage, HandlerOK, HandlerInv
  <2>2. UNCHANGED <<jobs, inbox>>
    BY <1>3 DEF take_usage
  <2>3. \A u \in Socket \ {s} : handler'[u] = handler[u]
    BY <1>3, <1>a DEF take_usage
  <2>4. CASE seconds[h.project] = None
    <3>1. handler'[s] = Idle /\ UNCHANGED <<seconds, charges>>
      BY <1>3, <1>a, <2>4 DEF take_usage
    <3>2. HandlerInv(s)'
      BY <3>1 DEF HandlerInv, Idle, Billing
    <3> QED
      BY <1>c, <1>d, <2>1, <2>2, <2>3, <2>4, <3>1, <3>2
  <2>5. CASE seconds[h.project] # None
    <3>1. /\ charges' = [charges EXCEPT ![h.job] = @ + 1]
          /\ seconds' = [seconds EXCEPT ![h.project] = @ + (-Usage[h.job])]
      BY <1>3, <2>5 DEF take_usage, increment_qpu_seconds
    <3>2. charges'[h.job] >= 1 /\ \A k \in Job : charges[k] <= charges'[k]
      <4>1. charges'[h.job] = charges[h.job] + 1 /\ charges[h.job] \in Nat
        BY <1>d, <2>1, <3>1
      <4>2. \A k \in Job : charges[k] \in Nat /\ (k # h.job => charges'[k] = charges[k])
        BY <1>d, <2>1, <3>1
      <4>3. ASSUME NEW k \in Job PROVE charges[k] <= charges'[k]
        BY <4>1, <4>2
      <4> QED
        BY <4>1, <4>3
    <3>3. \A p \in Project : seconds'[p] # None => seconds[p] # None
      BY <2>5, <3>1 DEF TypeOK
    <3>4. handler'[s] = Idle \/ (handler'[s].pc \in {"depleted", "low"} /\ handler'[s].job = h.job)
      <4> DEFINE after == seconds[h.project] - Usage[h.job]
                 notice == _choose_qpu_notice(after + Usage[h.job], after)
      <4>1. notice \in {"idle", "depleted", "low"}
        BY DEF _choose_qpu_notice
      <4>2. handler' = IF notice = "idle" THEN [handler EXCEPT ![s] = Idle]
                       ELSE [handler EXCEPT ![s].pc = notice]
        BY <1>3, <2>5 DEF take_usage
      <4> HIDE DEF notice
      <4> QED BY <1>a, <4>1, <4>2 DEF HandlerState
    <3>5. HandlerInv(s)'
      BY <3>2, <3>4 DEF HandlerInv, Idle, Billing
    <3> QED
      BY <1>c, <2>1, <2>2, <2>3, <3>2, <3>3, <3>5
  <2> QED
    BY <2>4, <2>5
<1>4. CASE _notify_project(s)
  <2>1. h.job \in Job /\ charges[h.job] >= 1
    BY <1>4, <1>a DEF _notify_project, HandlerOK, HandlerInv
  <2>2. UNCHANGED <<jobs, inbox, charges, seconds>>
    BY <1>4 DEF _notify_project
  <2>3. /\ handler'[s] = Idle
        /\ \A u \in Socket \ {s} : handler'[u] = handler[u]
    BY <1>4, <1>a DEF _notify_project
  <2>4. HandlerInv(s)'
    BY <2>3 DEF HandlerInv, Idle, Billing
  <2> QED
    BY <1>c, <1>d, <2>1, <2>2, <2>3, <2>4
<1> QED
  BY <1>1, <1>2, <1>3, <1>4 DEF HandlerStep

LEMMA NextUsage == TypeOK /\ TypeOK' /\ UsageInv /\ [Next]_vars => UsageInv'
<1> SUFFICES ASSUME TypeOK, TypeOK', UsageInv, [Next]_vars PROVE UsageInv'
  OBVIOUS
<1>a. /\ CreationInv /\ TakenInv /\ failures \in Nat
      /\ request \in [Request -> RequestState] /\ handler \in [Socket -> HandlerState]
  BY DEF UsageInv, TypeOK
<1>b. ASSUME UNCHANGED <<jobs, run, inbox, handler, charges>>, failures <= failures', CreationInv',
             \A p \in Project : seconds'[p] # None => seconds[p] # None
      PROVE  UsageInv'
  BY <1>a, <1>b, TakenUnchanged, UsageKept
<1>1. ASSUME NEW r \in Request, NEW j \in Job, NEW p \in Project, NEW d \in BOOLEAN,
             check_access(r, j, p, d)
      PROVE  UsageInv'
  <2>1. /\ j \notin created /\ created' = created \cup {j} /\ run' = run
        /\ request'[r].job = j
        /\ \A q \in Request \ {r} : request'[q] = request[q]
    BY <1>1, <1>a DEF check_access
  <2>2. run[j] = "none" /\ \A q \in Request : Creating(q) => request[q].job # j
    BY <1>a, <2>1 DEF CreationInv
  <2>3. CreationInv'
    BY <1>1, <1>a, <2>1, <2>2 DEF check_access, CreationInv, Creating
  <2> QED
    BY <1>1, <1>a, <1>b, <2>3 DEF check_access
<1>2. ASSUME NEW r \in Request, NEW j \in Job, NEW pc \in {"bcc_cancel", "bcc_delete"},
             get_job(r, j, pc)
      PROVE  UsageInv'
  <2>1. request'[r].pc = pc /\ \A q \in Request \ {r} : request'[q] = request[q]
    BY <1>2, <1>a DEF get_job
  <2>2. CreationInv'
    BY <1>2, <1>a, <2>1 DEF get_job, CreationInv, Creating
  <2> QED
    BY <1>2, <1>a, <1>b, <2>2 DEF get_job
<1>3. ASSUME NEW p \in Project, top_up(p) \/ delete_project(p)
      PROVE  UsageInv'
  <2>1. \A q \in Project : seconds'[q] # None => seconds[q] # None
    BY <1>3 DEF top_up, delete_project, increment_qpu_seconds, TypeOK
  <2>2. CreationInv'
    BY <1>3, <1>a DEF top_up, delete_project, CreationInv, Creating
  <2> QED
    BY <1>3, <1>a, <1>b, <2>1, <2>2 DEF top_up, delete_project
<1>4. ASSUME NEW r \in Request, lose_request(r)
      PROVE  UsageInv'
  <2>1. request'[r].pc = "idle" /\ \A q \in Request \ {r} : request'[q] = request[q]
    BY <1>4, <1>a DEF lose_request, Finish, NoRequest
  <2>2. CreationInv'
    BY <1>4, <1>a, <2>1 DEF lose_request, CreationInv, Creating
  <2> QED
    BY <1>4, <1>a, <1>b, <2>2 DEF lose_request
<1>5. ASSUME NEW s \in Socket, lose_socket(s)
      PROVE  UsageInv'
  <2>1. CreationInv'
    BY <1>5, <1>a DEF lose_socket, CreationInv, Creating
  <2>2. inbox'[s] = <<>> /\ \A u \in Socket \ {s} : inbox'[u] = inbox[u]
    BY <1>5 DEF lose_socket, TypeOK
  <2>3. TakenInv'
    BY <1>5, <1>a, <2>2 DEF lose_socket, TakenInv
  <2>4. \A u \in Socket : HandlerInv(u)'
    <3>1. \A u \in Socket : handler'[u] = handler[u] \/ handler'[u] = Idle
      BY <1>5, <1>a DEF lose_socket
    <3> QED
      BY <1>5, <3>1 DEF lose_socket, UsageInv, HandlerInv, Billing, Idle
  <2>5. failures' # 0
    BY <1>5, <1>a DEF lose_socket
  <2> QED
    BY <2>1, <2>3, <2>4, <2>5 DEF UsageInv, RecordedDurationIsBilled
<1>6. CASE UNCHANGED vars
  BY <1>6, <1>a, <1>b DEF vars, CreationInv, Creating
<1> QED
  BY <1>1, <1>2, <1>3, <1>4, <1>5, <1>6, RequestStepUsage, HandlerStepUsage, BackendStepUsage DEF Next

(* No run is free: over however many sockets and in whatever order the     *)
(* reports come, a stored job that has a duration was billed, or a handler *)
(* is at it, unless a process died or the project is deleted.              *)
THEOREM NoRunIsFree == Spec => []RecordedDurationIsBilled
<1>1. Init => UsageInv
  BY JobsAssumption DEF Init, UsageInv, CreationInv, TakenInv, HandlerInv, RecordedDurationIsBilled,
     Billing, Creating, Idle, NoRequest
<1>2. UsageInv => RecordedDurationIsBilled
  BY DEF UsageInv
<1> QED
  BY <1>1, <1>2, NextUsage, TypeCorrect, PTL DEF Spec

---------------------------------------------------------------------------
(* A project that runs out says so once.                                   *)

DepletingSet(p) == {s \in Socket : handler[s].pc = "depleted" /\ handler[s].project = p}

(* Each alert, sent or under way, is for seconds that were there at first  *)
(* or were topped up; a positive balance may still cause one.              *)
AlertInv(p) ==
  /\ IsFiniteSet(DepletingSet(p))
  /\ LET count == alerts[p].depleted + Depleting(p) IN
     /\ count + (IF seconds[p] # None /\ seconds[p] > 0 THEN 1 ELSE 0) <= topups + 1
     /\ seconds[p] # None /\ seconds[p] <= 0 /\ InitialSeconds[p] > 0 /\ failures = 0 => count >= 1

AlertsInv == \A p \in Project : AlertInv(p)

(* The alerts of a project, sent and under way, in terms of its handlers.  *)
LEMMA AlertFacts ==
  ASSUME TypeOK, NEW p \in Project, IsFiniteSet(DepletingSet(p))
  PROVE  /\ Depleting(p) = Cardinality(DepletingSet(p)) /\ Depleting(p) \in Nat
         /\ alerts[p].depleted \in Nat /\ topups \in Nat /\ failures \in Nat
         /\ seconds[p] \in Int \cup {None} /\ InitialSeconds[p] \in Int
<1>1. Depleting(p) = Cardinality(DepletingSet(p)) /\ Depleting(p) \in Nat
  BY FS_CardinalityType DEF Depleting, DepletingSet
<1>2. alerts[p] \in [depleted : Nat, low : Nat] /\ topups \in Nat /\ failures \in Nat
  BY DEF TypeOK
<1>3. seconds[p] \in Int \cup {None} /\ InitialSeconds[p] \in Int
  BY JobsAssumption DEF TypeOK
<1> QED
  BY <1>1, <1>2, <1>3

(* A step after which p is as before, with the same handlers about to      *)
(* alert its members, keeps the count.                                     *)
LEMMA AlertKept ==
  ASSUME TypeOK, TypeOK', NEW p \in Project, AlertInv(p),
         DepletingSet(p)' = DepletingSet(p), alerts'[p] = alerts[p], seconds'[p] = seconds[p],
         topups' = topups, failures <= failures'
  PROVE  AlertInv(p)'
<1>1. failures \in Nat /\ failures' \in Nat
  BY DEF TypeOK
<1>2. Depleting(p)' = Depleting(p)
  BY DEF Depleting, DepletingSet
<1> QED
  BY <1>1, <1>2 DEF AlertInv

(* The usage is taken from p: a balance that is used up alerts.            *)
LEMMA TakeUsageAlert ==
  ASSUME TypeOK, TypeOK', NEW s \in Socket, take_usage(s), NEW p \in Project, AlertInv(p)
  PROVE  AlertInv(p)'
<1> DEFINE j == handler[s].job
           q == handler[s].project
           D == DepletingSet(p)
           E == DepletingSet(p)'
<1>0. handler \in [Socket -> HandlerState] /\ HandlerOK(s) /\ handler[s].pc = "increment"
  BY TypeParts DEF HandlersOK, take_usage
<1>1. j \in Job /\ q \in Project /\ Usage[j] \in Nat /\ s \notin D
  BY <1>0, JobsAssumption DEF HandlerOK, DepletingSet
<1>2. UNCHANGED <<alerts, topups, failures>> /\ failures \in Nat
  BY DEF take_usage, TypeOK
<1>3. \A u \in Socket \ {s} : handler'[u] = handler[u]
  BY <1>0 DEF take_usage
<1>4. CASE handler'[s].pc # "depleted" /\ seconds'[p] = seconds[p]
  <2>1. E = D
    BY <1>1, <1>3, <1>4 DEF DepletingSet
  <2> QED
    BY <1>2, <1>4, <2>1, AlertKept
<1>5. CASE seconds[q] = None
  <2>1. handler'[s] = Idle /\ seconds' = seconds
    BY <1>0, <1>5 DEF take_usage
  <2> QED
    BY <1>4, <2>1 DEF Idle
<1>6. CASE seconds[q] # None
  <2> DEFINE after == seconds[q] - Usage[j]
             notice == _choose_qpu_notice(after + Usage[j], after)
  <2>1. /\ seconds' = [seconds EXCEPT ![q] = @ + (-Usage[j])]
        /\ handler' = IF notice = "idle" THEN [handler EXCEPT ![s] = Idle]
                      ELSE [handler EXCEPT ![s].pc = notice]
    BY <1>6 DEF take_usage, increment_qpu_seconds
  <2>2. /\ seconds[q] \in Int /\ seconds'[q] = after /\ after \in Int /\ after <= seconds[q]
        /\ after + Usage[j] = seconds[q]
    <3>1. seconds \in [Project -> Int \cup {None}]
      BY DEF TypeOK
    <3>2. seconds[q] \in Int
      BY <1>1, <1>6, <3>1
    <3>3. seconds'[q] = seconds[q] + (-Usage[j])
      BY <1>1, <2>1, <3>1
    <3> HIDE DEF j, q
    <3> QED BY <1>1, <3>2, <3>3
  <2>3. notice = "depleted" <=> after <= 0 /\ 0 < seconds[q]
    BY <2>2 DEF _choose_qpu_notice
  <2>4. notice \in {"idle", "depleted", "low"}
    BY DEF _choose_qpu_notice
  <2>5. /\ handler'[s].pc = notice
        /\ notice = "depleted" => handler'[s].project = q
    <3> HIDE DEF notice
    <3> QED BY <1>0, <2>1, <2>4 DEF HandlerState, Idle
  <2>6. CASE p # q
    <3>1. seconds'[p] = seconds[p]
      BY <1>1, <2>1, <2>6 DEF TypeOK
    <3>2. E = D
      BY <1>1, <1>3, <2>5, <2>6 DEF DepletingSet
    <3> QED
      BY <1>2, <3>1, <3>2, AlertKept
  <2>7. CASE p = q
    <3>2. IsFiniteSet(D) /\ Depleting(p) = Cardinality(D) /\ Depleting(p) \in Nat
          /\ alerts[p].depleted \in Nat /\ topups \in Nat
      BY AlertFacts DEF AlertInv
    <3>3. CASE notice = "depleted"
      <4>1. E = D \cup {s}
        BY <1>1, <1>3, <2>5, <2>7, <3>3 DEF DepletingSet
      <4>2. IsFiniteSet(E) /\ Cardinality(E) = Cardinality(D) + 1
        <5> HIDE DEF D, E
        <5> QED BY <1>1, <3>2, <4>1, FS_AddElement
      <4>3. Depleting(p)' = Cardinality(E)
        BY DEF Depleting, DepletingSet
      <4>4. after <= 0 /\ 0 < seconds[p]
        BY <2>3, <2>7, <3>3
      <4>5. ~(seconds'[p] # None /\ seconds'[p] > 0)
        BY <2>2, <2>7, <4>4
      <4>6. alerts[p].depleted + Depleting(p) + 1 <= topups + 1
        BY <1>6, <2>7, <4>4 DEF AlertInv
      <4>7. (alerts[p].depleted + Cardinality(E)) + 0 <= topups + 1 /\ alerts[p].depleted + Cardinality(E) >= 1
        <5> HIDE DEF D, E
        <5> QED BY <3>2, <4>2, <4>6
      <4> QED
        BY <1>2, <4>2, <4>3, <4>5, <4>7 DEF AlertInv
    <3>4. CASE notice # "depleted"
      <4>1. E = D
        BY <1>1, <1>3, <2>5, <3>4 DEF DepletingSet
      <4>2. Depleting(p)' = Depleting(p)
        BY <4>1 DEF Depleting, DepletingSet
      <4>3. /\ seconds'[p] > 0 => seconds[p] > 0
            /\ seconds'[p] <= 0 => seconds[p] <= 0
            /\ seconds[p] # None
        BY <1>6, <2>2, <2>3, <2>7, <3>4
      <4>4. /\ alerts[p].depleted + Depleting(p)
                 + (IF seconds'[p] # None /\ seconds'[p] > 0 THEN 1 ELSE 0) <= topups + 1
        <5>1. CASE seconds'[p] # None /\ seconds'[p] > 0
          BY <4>3, <5>1 DEF AlertInv
        <5>2. CASE ~(seconds'[p] # None /\ seconds'[p] > 0)
          <6>1. alerts[p].depleted + Depleting(p) + (IF seconds[p] # None /\ seconds[p] > 0 THEN 1 ELSE 0)
                  <= topups + 1
            BY DEF AlertInv
          <6>2. alerts[p].depleted + Depleting(p) + 0 <= topups + 1
            BY <3>2, <6>1
          <6> QED
            BY <5>2, <6>2
        <5> QED
          BY <5>1, <5>2
      <4>5. seconds'[p] <= 0 /\ InitialSeconds[p] > 0 /\ failures = 0 =>
              alerts[p].depleted + Depleting(p) >= 1
        BY <4>3 DEF AlertInv
      <4> QED
        BY <1>2, <3>2, <4>1, <4>2, <4>4, <4>5 DEF AlertInv
    <3> QED
      BY <3>3, <3>4
  <2> QED
    BY <2>6, <2>7
<1> QED
  BY <1>5, <1>6

(* An alert under way becomes one that was sent.                           *)
LEMMA NotifyAlert ==
  ASSUME TypeOK, TypeOK', NEW s \in Socket, _notify_project(s), NEW p \in Project, AlertInv(p)
  PROVE  AlertInv(p)'
<1> DEFINE q == handler[s].project
           D == DepletingSet(p)
           E == DepletingSet(p)'
<1>0. /\ handler \in [Socket -> HandlerState] /\ HandlerOK(s) /\ handler[s].pc \in {"depleted", "low"}
      /\ q \in Project /\ alerts \in [Project -> [depleted : Nat, low : Nat]]
  BY TypeParts DEF HandlersOK, HandlerOK, _notify_project, TypeOK
<1>1. /\ UNCHANGED <<seconds, topups, failures>> /\ failures \in Nat
      /\ handler'[s].pc = "idle"
      /\ \A u \in Socket \ {s} : handler'[u] = handler[u]
  BY <1>0 DEF _notify_project, TypeOK, Idle
<1>2. CASE handler[s].pc = "depleted" /\ q = p
  <2>1. E = D \ {s} /\ s \in D
    BY <1>0, <1>1, <1>2 DEF DepletingSet
  <2>2. IsFiniteSet(D) /\ Depleting(p) = Cardinality(D) /\ Depleting(p) \in Nat /\ alerts[p].depleted \in Nat
    BY AlertFacts DEF AlertInv
  <2>3. IsFiniteSet(E) /\ Cardinality(E) = Cardinality(D) - 1
    <3> HIDE DEF D, E
    <3> QED BY <2>1, <2>2, FS_RemoveElement
  <2>4. Depleting(p)' = Cardinality(E)
    BY DEF Depleting, DepletingSet
  <2>5. alerts'[p].depleted = alerts[p].depleted + 1
    BY <1>0, <1>2 DEF _notify_project
  <2>6. alerts'[p].depleted + Depleting(p)' = alerts[p].depleted + Depleting(p)
    <3> HIDE DEF D, E
    <3> QED BY <2>2, <2>3, <2>4, <2>5
  <2> QED
    BY <1>1, <2>3, <2>6 DEF AlertInv
<1>3. CASE ~(handler[s].pc = "depleted" /\ q = p)
  <2>1. E = D
    BY <1>1, <1>3 DEF DepletingSet
  <2>2. alerts'[p].depleted = alerts[p].depleted
    BY <1>0, <1>3 DEF _notify_project
  <2>3. Depleting(p)' = Depleting(p)
    BY <2>1 DEF Depleting, DepletingSet
  <2> QED
    BY <1>1, <2>1, <2>2, <2>3 DEF AlertInv
<1> QED
  BY <1>2, <1>3

(* A top-up may make the balance positive again; a deleted project has     *)
(* none.                                                                   *)
LEMMA BalanceAlert ==
  ASSUME TypeOK, TypeOK', NEW q \in Project, top_up(q) \/ delete_project(q), NEW p \in Project, AlertInv(p)
  PROVE  AlertInv(p)'
<1>1. UNCHANGED <<handler, alerts, failures>> /\ failures \in Nat
  BY DEF top_up, delete_project, TypeOK
<1>2. DepletingSet(p)' = DepletingSet(p) /\ Depleting(p)' = Depleting(p)
  BY <1>1 DEF DepletingSet, Depleting
<1>3. IsFiniteSet(DepletingSet(p)) /\ Depleting(p) \in Nat /\ alerts[p].depleted \in Nat /\ topups \in Nat
  BY AlertFacts DEF AlertInv
<1> DEFINE count == alerts[p].depleted + Depleting(p)
<1>4. count \in Nat /\ count <= topups + 1
  <2>1. count + (IF seconds[p] # None /\ seconds[p] > 0 THEN 1 ELSE 0) <= topups + 1
    BY DEF AlertInv
  <2> QED
    BY <1>3, <2>1
<1>5. CASE top_up(q)
  <2>1. topups' = topups + 1
    BY <1>5 DEF top_up
  <2>2. count + (IF seconds'[p] # None /\ seconds'[p] > 0 THEN 1 ELSE 0) <= topups' + 1
    <3> HIDE DEF count
    <3> QED BY <1>3, <1>4, <2>1
  <2>3. seconds'[p] # None /\ seconds'[p] <= 0 => seconds[p] # None /\ seconds[p] <= 0
    <3>1. CASE p = q
      <4>1. seconds'[p] = seconds[p] + TopUpSeconds /\ seconds[p] # None
        BY <1>5, <3>1 DEF top_up, increment_qpu_seconds, TypeOK
      <4>2. seconds[p] \in Int /\ TopUpSeconds \in Nat
        BY <4>1, JobsAssumption DEF TypeOK
      <4> QED
        BY <4>1, <4>2
    <3>2. CASE p # q
      BY <1>5, <3>2 DEF top_up, increment_qpu_seconds, TypeOK
    <3> QED
      BY <3>1, <3>2
  <2> QED
    BY <1>1, <1>2, <1>3, <2>2, <2>3 DEF AlertInv
<1>6. CASE delete_project(q)
  <2>1. topups' = topups
    BY <1>6 DEF delete_project
  <2>2. seconds'[p] = seconds[p] \/ seconds'[p] = None
    BY <1>6 DEF delete_project, TypeOK
  <2>3. CASE seconds'[p] = seconds[p]
    BY <1>1, <1>2, <2>1, <2>3, AlertKept
  <2>4. CASE seconds'[p] = None
    <3>1. count + 0 <= topups' + 1
      <4> HIDE DEF count
      <4> QED BY <1>3, <1>4, <2>1
    <3> QED
      BY <1>1, <1>2, <1>3, <2>4, <3>1 DEF AlertInv
  <2> QED
    BY <2>2, <2>3, <2>4
<1> QED
  BY <1>5, <1>6

(* A handler that is lost may take an alert with it.                       *)
LEMMA LoseAlert ==
  ASSUME TypeOK, TypeOK', NEW s \in Socket, lose_socket(s), NEW p \in Project, AlertInv(p)
  PROVE  AlertInv(p)'
<1>1. UNCHANGED <<seconds, alerts, topups>> /\ failures' # 0 /\ handler \in [Socket -> HandlerState]
  BY DEF lose_socket, TypeOK
<1>2. DepletingSet(p)' \subseteq DepletingSet(p)
  BY <1>1 DEF lose_socket, DepletingSet, Idle
<1>3. IsFiniteSet(DepletingSet(p)) /\ Depleting(p) \in Nat /\ alerts[p].depleted \in Nat /\ topups \in Nat
      /\ Depleting(p) = Cardinality(DepletingSet(p))
  BY AlertFacts DEF AlertInv
<1>4. /\ IsFiniteSet(DepletingSet(p)') /\ Cardinality(DepletingSet(p)') <= Cardinality(DepletingSet(p))
      /\ Cardinality(DepletingSet(p)') \in Nat
  BY <1>2, <1>3, FS_Subset, FS_CardinalityType
<1>5. Depleting(p)' = Cardinality(DepletingSet(p)')
  BY DEF Depleting, DepletingSet
<1>6. alerts[p].depleted + Depleting(p)' + (IF seconds[p] # None /\ seconds[p] > 0 THEN 1 ELSE 0)
        <= topups + 1
  <2> DEFINE k == IF seconds[p] # None /\ seconds[p] > 0 THEN 1 ELSE 0
  <2>1. alerts[p].depleted + Depleting(p) + k <= topups + 1 /\ k \in Nat
    BY DEF AlertInv
  <2> HIDE DEF k
  <2>2. alerts[p].depleted + Depleting(p)' + k <= topups + 1
    BY <1>3, <1>4, <1>5, <2>1
  <2> QED
    BY <2>2 DEF k
<1> QED
  BY <1>1, <1>4, <1>6 DEF AlertInv

LEMMA NextAlerts == TypeOK /\ TypeOK' /\ AlertsInv /\ [Next]_vars => AlertsInv'
<1> SUFFICES ASSUME TypeOK, TypeOK', AlertsInv, [Next]_vars, NEW p \in Project PROVE AlertInv(p)'
  BY DEF AlertsInv
<1>a. AlertInv(p) /\ handler \in [Socket -> HandlerState] /\ failures \in Nat
  BY DEF AlertsInv, TypeOK
<1>b. ASSUME UNCHANGED <<seconds, alerts, topups>>, failures <= failures',
             \A s \in Socket :
               \/ handler'[s] = handler[s]
               \/ handler[s].pc # "depleted" /\ handler'[s].pc # "depleted"
      PROVE  AlertInv(p)'
  <2>1. DepletingSet(p)' = DepletingSet(p)
    BY <1>b DEF DepletingSet
  <2> QED
    BY <1>a, <1>b, <2>1, AlertKept
<1>1. ASSUME NEW r \in Request, NEW j \in Job, NEW q \in Project, NEW d \in BOOLEAN, check_access(r, j, q, d)
      PROVE  AlertInv(p)'
  BY <1>1, <1>a, <1>b DEF check_access
<1>2. ASSUME NEW r \in Request, NEW j \in Job, NEW pc \in {"bcc_cancel", "bcc_delete"}, get_job(r, j, pc)
      PROVE  AlertInv(p)'
  BY <1>2, <1>a, <1>b DEF get_job
<1>3. ASSUME NEW r \in Request, RequestStep(r)
      PROVE  AlertInv(p)'
  <2>1. UNCHANGED <<seconds, alerts, topups, failures, handler>>
    BY <1>3 DEF RequestStep, get_token, insert_job, upload_job, discard_job, set_source,
       bcc_cancel_job, cancel_job, bcc_delete_job, delete_job
  <2> QED
    BY <1>a, <1>b, <2>1
<1>4. ASSUME NEW j \in Job, BackendNext(j)
      PROVE  AlertInv(p)'
  <2>1. UNCHANGED <<seconds, alerts, topups, failures, handler>>
    BY <1>4 DEF BackendNext, sdk_upload, bcc_start, bcc_executed, bcc_end, BackendStep
  <2> QED
    BY <1>a, <1>b, <2>1
<1>5. ASSUME NEW s \in Socket, HandlerStep(s)
      PROVE  AlertInv(p)'
  <2>1. CASE on_job_updated_event(s)
    <3>1. /\ \A u \in Socket \ {s} : handler'[u] = handler[u]
          /\ handler[s].pc = "idle"
          /\ handler'[s] = handler[s] \/ handler'[s].pc = "usage"
      BY <1>a, <2>1 DEF on_job_updated_event
    <3>2. \A u \in Socket : handler'[u] = handler[u] \/ (handler[u].pc # "depleted" /\ handler'[u].pc # "depleted")
      BY <3>1
    <3> QED
      BY <1>a, <1>b, <2>1, <3>2 DEF on_job_updated_event
  <2>2. CASE update_qpu_usage(s)
    <3>1. /\ \A u \in Socket \ {s} : handler'[u] = handler[u]
          /\ handler[s].pc = "usage" /\ handler'[s].pc \in {"idle", "increment"}
      BY <1>a, <2>2 DEF update_qpu_usage, HandlerState, Idle
    <3>2. \A u \in Socket : handler'[u] = handler[u] \/ (handler[u].pc # "depleted" /\ handler'[u].pc # "depleted")
      BY <3>1
    <3> QED
      BY <1>a, <1>b, <2>2, <3>2 DEF update_qpu_usage
  <2> QED
    BY <1>5, <1>a, <2>1, <2>2, TakeUsageAlert, NotifyAlert DEF HandlerStep
<1>6. ASSUME NEW q \in Project, top_up(q) \/ delete_project(q)
      PROVE  AlertInv(p)'
  BY <1>6, <1>a, BalanceAlert
<1>7. ASSUME NEW r \in Request, lose_request(r)
      PROVE  AlertInv(p)'
  BY <1>7, <1>a, <1>b DEF lose_request
<1>8. ASSUME NEW s \in Socket, lose_socket(s)
      PROVE  AlertInv(p)'
  BY <1>8, <1>a, LoseAlert
<1>9. CASE UNCHANGED vars
  BY <1>9, <1>a, <1>b DEF vars
<1> QED
  BY <1>1, <1>2, <1>3, <1>4, <1>5, <1>6, <1>7, <1>8, <1>9 DEF Next

(* However many handlers take seconds from a project at once, its members  *)
(* are told that it ran out once for the seconds it had at first and at    *)
(* most once for each top-up, and they are told if nothing fails.          *)
THEOREM MembersAreAlertedOnce == Spec => []DepletedAlertOnce
<1>1. Init => AlertsInv
  <2> SUFFICES ASSUME Init, NEW p \in Project PROVE AlertInv(p)
    BY DEF AlertsInv
  <2>1. DepletingSet(p) = {} /\ IsFiniteSet({}) /\ Cardinality({}) = 0
    BY FS_EmptySet DEF Init, DepletingSet, Idle
  <2>2. Depleting(p) = 0
    BY <2>1 DEF Depleting, DepletingSet
  <2>3. alerts[p].depleted = 0 /\ topups = 0 /\ seconds[p] = InitialSeconds[p] /\ InitialSeconds[p] \in Int
    BY JobsAssumption DEF Init
  <2> QED
    BY <2>1, <2>2, <2>3 DEF AlertInv
<1>2. TypeOK /\ AlertsInv => DepletedAlertOnce
  <2> SUFFICES ASSUME TypeOK, AlertsInv, NEW p \in Project
               PROVE  LET count == alerts[p].depleted + Depleting(p) IN
                      /\ count <= topups + 1
                      /\ seconds[p] # None /\ seconds[p] <= 0 /\ InitialSeconds[p] > 0
                           /\ failures = 0 => count >= 1
    BY DEF DepletedAlertOnce
  <2>1. AlertInv(p)
    BY DEF AlertsInv
  <2>2. Depleting(p) \in Nat /\ alerts[p].depleted \in Nat /\ topups \in Nat
    BY <2>1, AlertFacts DEF AlertInv
  <2>3. alerts[p].depleted + Depleting(p) <= topups + 1
    <3>1. alerts[p].depleted + Depleting(p) + (IF seconds[p] # None /\ seconds[p] > 0 THEN 1 ELSE 0)
            <= topups + 1
      BY <2>1 DEF AlertInv
    <3> QED
      BY <2>2, <3>1
  <2> QED
    BY <2>1, <2>3 DEF AlertInv
<1> QED
  BY <1>1, <1>2, NextAlerts, TypeCorrect, PTL DEF Spec

---------------------------------------------------------------------------
(* A job settles on the status its backend gave it last.                   *)

(* The i-th frame of socket s is the last one of its job.                  *)
IsLast(s, i) == \A k \in 1..Len(inbox[s]) : inbox[s][k].job = inbox[s][i].job => k <= i

(* What is about to be marked cancelled was cancelled.                     *)
MarkedInv ==
  \A r \in Request : request[r].pc = "mark_cancelled" =>
    run[request[r].job] \in {"cancelled", "deleted"}

(* The last frame of a job brings its status, and a stored job with no     *)
(* frames left has it.                                                     *)
LastInv ==
  \A s \in Socket : \A i \in 1..Len(inbox[s]) :
    IsLast(s, i) /\ run[inbox[s][i].job] # "deleted" =>
      inbox[s][i].status = run[inbox[s][i].job]

NoFrames(j) == \A s \in Socket : \A i \in 1..Len(inbox[s]) : inbox[s][i].job # j

StoredInv ==
  \A j \in Job :
    jobs[j] # None /\ run[j] \notin {"none", "deleted"} /\ NoFrames(j) =>
      jobs[j].status = run[j]

LatestInv == failures = 0 => MarkedInv /\ LastInv /\ StoredInv

(* A backend that changes a job's status sends it, as the job's last frame. *)
LEMMA SendLatest ==
  ASSUME TypeOK, OneSocketPerJob, FramesInv, LastInv, StoredInv,
         NEW j \in Job, NEW status, NEW t, Send(j, status, t),
         run' = [run EXCEPT ![j] = status], UNCHANGED jobs
  PROVE  LastInv' /\ StoredInv'
<1> DEFINE e == [job |-> j, status |-> status, timestamps |-> t]
<1>1. PICK s \in Route[j] : inbox' = [inbox EXCEPT ![s] = Append(@, e)]
  BY DEF Send
<1>2. s \in Socket /\ inbox \in [Socket -> Seq(JobUpdate)] /\ inbox[s] \in Seq(JobUpdate)
  BY JobsAssumption DEF TypeOK
<1>3. e.job = j /\ e.status = status
  OBVIOUS
<1> HIDE DEF e
<1>4. inbox'[s] = Append(inbox[s], e) /\ \A u \in Socket \ {s} : inbox'[u] = inbox[u]
  BY <1>1, <1>2
<1>5. /\ Len(inbox'[s]) = Len(inbox[s]) + 1 /\ Len(inbox[s]) \in Nat
      /\ inbox'[s][Len(inbox[s]) + 1] = e
      /\ \A i \in 1..Len(inbox[s]) : inbox'[s][i] = inbox[s][i]
  BY <1>2, <1>4
<1>6. run'[j] = status /\ \A k \in Job \ {j} : run'[k] = run[k]
  BY DEF TypeOK
<1>7. \A u \in Socket : \A i \in 1..Len(inbox[u]) :
        /\ i \in 1..Len(inbox'[u]) /\ inbox'[u][i] = inbox[u][i]
        /\ inbox[u][i].job \in Job
        /\ inbox[u][i].job = j => u = s
  <2>1. \A u \in Socket : \A i \in 1..Len(inbox[u]) : i \in 1..Len(inbox'[u]) /\ inbox'[u][i] = inbox[u][i]
    BY <1>4, <1>5
  <2>2. \A u \in Socket : \A i \in 1..Len(inbox[u]) : inbox[u][i].job = j => u = s
    BY <1>1 DEF FramesInv, OneSocketPerJob
  <2> QED
    BY <2>1, <2>2, FrameJobs
<1>8. LastInv'
  <2> SUFFICES ASSUME NEW u \in Socket, NEW i \in 1..Len(inbox'[u]), IsLast(u, i)',
                      run'[inbox'[u][i].job] # "deleted"
               PROVE  inbox'[u][i].status = run'[inbox'[u][i].job]
    BY DEF LastInv
  <2>1. CASE u = s /\ i = Len(inbox[s]) + 1
    BY <1>3, <1>5, <1>6, <2>1
  <2>2. CASE i \in 1..Len(inbox[u])
    <3>1. inbox'[u][i] = inbox[u][i] /\ inbox[u][i].job \in Job
      BY <1>7, <2>2
    <3>2. inbox[u][i].job # j
      <4> SUFFICES ASSUME inbox[u][i].job = j PROVE FALSE
        OBVIOUS
      <4>1. u = s
        BY <1>7, <2>2
      <4>2. Len(inbox[s]) + 1 \in 1..Len(inbox'[s]) /\ inbox'[s][Len(inbox[s]) + 1].job = inbox'[s][i].job
        BY <1>3, <1>5, <3>1, <4>1
      <4>3. Len(inbox[s]) + 1 <= i
        BY <4>1, <4>2 DEF IsLast
      <4> QED
        BY <1>5, <2>2, <4>1, <4>3
    <3>3. IsLast(u, i)
      <4> SUFFICES ASSUME NEW k \in 1..Len(inbox[u]), inbox[u][k].job = inbox[u][i].job
                   PROVE  k <= i
        BY DEF IsLast
      <4>1. k \in 1..Len(inbox'[u]) /\ inbox'[u][k].job = inbox'[u][i].job
        BY <1>7, <3>1
      <4> QED
        BY <4>1 DEF IsLast
    <3> QED
      BY <1>6, <2>2, <3>1, <3>2, <3>3 DEF LastInv
  <2>3. i \in 1..Len(inbox[u]) \/ (u = s /\ i = Len(inbox[s]) + 1)
    BY <1>4, <1>5
  <2> QED
    BY <2>1, <2>2, <2>3
<1>9. StoredInv'
  <2> SUFFICES ASSUME NEW k \in Job, jobs[k] # None, run'[k] \notin {"none", "deleted"}, NoFrames(k)'
               PROVE  jobs[k].status = run'[k]
    BY DEF StoredInv
  <2>1. k # j
    <3>1. Len(inbox[s]) + 1 \in 1..Len(inbox'[s]) /\ inbox'[s][Len(inbox[s]) + 1].job = j
      BY <1>3, <1>5
    <3> QED
      BY <1>2, <3>1 DEF NoFrames
  <2>2. NoFrames(k)
    BY <1>7 DEF NoFrames
  <2> QED
    BY <1>6, <2>1, <2>2 DEF StoredInv
<1> QED
  BY <1>8, <1>9

(* A step that sends nothing and handles no frame keeps the statuses, if   *)
(* it stores only jobs nobody took, or the status they have.               *)
LEMMA LatestKept ==
  ASSUME TypeOK, LastInv, StoredInv, UNCHANGED inbox,
         \A j \in Job : run'[j] = run[j] \/ run'[j] = "deleted",
         \A j \in Job : jobs'[j] # None /\ run'[j] \notin {"none", "deleted"} =>
           jobs[j] # None /\ (jobs'[j].status = jobs[j].status \/ jobs'[j].status = run'[j])
  PROVE  LastInv' /\ StoredInv'
<1>1. \A u \in Socket : \A i \in 1..Len(inbox[u]) : inbox[u][i].job \in Job
  BY FrameJobs
<1>2. LastInv'
  BY <1>1 DEF LastInv, IsLast
<1>3. StoredInv'
  BY DEF StoredInv, NoFrames
<1> QED
  BY <1>2, <1>3

LEMMA RequestStepLatest ==
  ASSUME TypeOK, OneSocketPerJob, BillingInv, MarkedInv, LastInv, StoredInv,
         NEW r \in Request, RequestStep(r)
  PROVE  MarkedInv' /\ LastInv' /\ StoredInv'
<1>a. /\ request[r].job \in Job /\ request \in [Request -> RequestState]
      /\ run \in [Job -> Stage] /\ jobs \in [Job -> JobRecord \cup {None}]
      /\ \A q \in Request : request[q].pc = "mark_cancelled" => request[q].job \in Job
  <2>1. request[r].pc # "idle"
    BY DEF RequestStep, get_token, insert_job, upload_job, discard_job, set_source,
       bcc_cancel_job, cancel_job, bcc_delete_job, delete_job
  <2> QED
    BY <2>1 DEF TypeOK, TasksOK
<1>b. CreationInv /\ FramesInv
  BY DEF BillingInv
<1>c. ASSUME NEW pc, Goto(r, pc) \/ Finish(r),
             pc = "mark_cancelled" => run'[request[r].job] = "cancelled",
             \A j \in Job : run[j] \in {"cancelled", "deleted"} => run'[j] \in {"cancelled", "deleted"}
      PROVE  MarkedInv'
  <2>1. /\ \A q \in Request \ {r} : request'[q] = request[q]
        /\ \/ request'[r].pc = pc /\ request'[r].job = request[r].job
           \/ request'[r].pc = "idle"
    BY <1>a, <1>c DEF Goto, Finish, NoRequest, RequestState
  <2>2. ASSUME NEW q \in Request, request'[q].pc = "mark_cancelled"
        PROVE  run'[request'[q].job] \in {"cancelled", "deleted"}
    <3>1. CASE q = r
      BY <1>c, <2>1, <2>2, <3>1
    <3>2. CASE q # r
      BY <1>a, <1>c, <2>1, <2>2, <3>2 DEF MarkedInv
    <3> QED
      BY <3>1, <3>2
  <2> QED
    BY <2>2 DEF MarkedInv
<1>d. ASSUME UNCHANGED <<jobs, inbox>>, NEW pc, Goto(r, pc) \/ Finish(r), pc # "mark_cancelled",
             \A j \in Job : run'[j] = run[j] \/ run'[j] = "deleted"
      PROVE  MarkedInv' /\ LastInv' /\ StoredInv'
  <2>1. MarkedInv'
    BY <1>c, <1>d
  <2>2. LastInv' /\ StoredInv'
    BY <1>d, LatestKept
  <2> QED
    BY <2>1, <2>2
<1>e. ASSUME UNCHANGED <<run, inbox>>, NEW pc, Goto(r, pc) \/ Finish(r), pc # "mark_cancelled",
             \A j \in Job \ {request[r].job} : jobs'[j] = jobs[j],
             \/ jobs'[request[r].job] = None
             \/ run[request[r].job] \in {"none", "deleted"}
             \/ /\ jobs[request[r].job] # None
                /\ \/ jobs'[request[r].job].status = jobs[request[r].job].status
                   \/ jobs'[request[r].job].status = run[request[r].job]
      PROVE  MarkedInv' /\ LastInv' /\ StoredInv'
  <2>1. MarkedInv'
    BY <1>c, <1>e
  <2>2. LastInv' /\ StoredInv'
    BY <1>e, LatestKept
  <2> QED
    BY <2>1, <2>2
<1>f. ASSUME Take(request[r].job), UNCHANGED jobs, NEW pc, Goto(r, pc), pc # "mark_cancelled"
      PROVE  MarkedInv' /\ LastInv' /\ StoredInv'
  <2>1. LastInv' /\ StoredInv'
    BY <1>a, <1>b, <1>f, SendLatest DEF Take
  <2>2. MarkedInv'
    BY <1>a, <1>c, <1>f DEF Take
  <2> QED
    BY <2>1, <2>2
<1>1. CASE get_token(r)
  BY <1>1, <1>d DEF get_token
<1>2. CASE insert_job(r)
  <2>1. run[request[r].job] = "none"
    BY <1>2, <1>b DEF insert_job, Creating, CreationInv
  <2>2. \A j \in Job \ {request[r].job} : jobs'[j] = jobs[j]
    BY <1>2, <1>a DEF insert_job
  <2> QED
    BY <1>2, <1>e, <2>1, <2>2 DEF insert_job
<1>3. CASE upload_job(r)
  BY <1>3, <1>d, <1>f DEF upload_job
<1>4. CASE discard_job(r)
  <2>1. jobs'[request[r].job] = None /\ \A j \in Job \ {request[r].job} : jobs'[j] = jobs[j]
    BY <1>4, <1>a DEF discard_job
  <2> QED
    BY <1>4, <1>e, <2>1 DEF discard_job
<1>5. CASE set_source(r)
  <2>1. CASE jobs[request[r].job] = None
    BY <1>5, <1>d, <2>1 DEF set_source
  <2>2. CASE jobs[request[r].job] # None
    <3>1. /\ jobs'[request[r].job].status = jobs[request[r].job].status
          /\ \A j \in Job \ {request[r].job} : jobs'[j] = jobs[j]
      BY <1>5, <1>a, <2>2 DEF set_source, JobRecord
    <3> QED
      BY <1>5, <1>e, <2>2, <3>1 DEF set_source
  <2> QED
    BY <2>1, <2>2
<1>6. CASE bcc_cancel_job(r)
  <2>1. CASE Finish(r) /\ UNCHANGED <<run, inbox>>
    BY <1>6, <1>d, <2>1 DEF bcc_cancel_job
  <2>2. CASE /\ run[request[r].job] \notin FinalStage \cup {"none"}
             /\ run' = [run EXCEPT ![request[r].job] = "cancelled"]
             /\ \E t \in SentTimestamps(request[r].job) : Send(request[r].job, "cancelled", t)
             /\ Goto(r, "mark_cancelled") \/ (CanTimeOut /\ Finish(r))
    <3>1. UNCHANGED jobs
      BY <1>6 DEF bcc_cancel_job
    <3>2. LastInv' /\ StoredInv'
      BY <1>a, <1>b, <2>2, <3>1, SendLatest
    <3>3. MarkedInv'
      BY <1>a, <1>c, <2>2
    <3> QED
      BY <3>2, <3>3
  <2> QED
    BY <1>6, <2>1, <2>2 DEF bcc_cancel_job
<1>7. CASE cancel_job(r)
  <2>1. CASE jobs[request[r].job] = None
    BY <1>7, <1>d, <2>1 DEF cancel_job
  <2>2. CASE jobs[request[r].job] # None
    <3>1. /\ jobs'[request[r].job].status = "cancelled"
          /\ \A j \in Job \ {request[r].job} : jobs'[j] = jobs[j]
      BY <1>7, <1>a, <2>2 DEF cancel_job, JobRecord
    <3>2. run[request[r].job] \in {"cancelled", "deleted"}
      BY <1>7 DEF cancel_job, MarkedInv
    <3> QED
      BY <1>7, <1>e, <2>2, <3>1, <3>2 DEF cancel_job
  <2> QED
    BY <2>1, <2>2
<1>8. CASE bcc_delete_job(r)
  <2>1. \A j \in Job : run'[j] = run[j] \/ run'[j] = "deleted"
    BY <1>8, <1>a DEF bcc_delete_job
  <2> QED
    BY <1>8, <1>d, <2>1 DEF bcc_delete_job
<1>9. CASE delete_job(r)
  <2>1. jobs'[request[r].job] = None /\ \A j \in Job \ {request[r].job} : jobs'[j] = jobs[j]
    BY <1>9, <1>a DEF delete_job
  <2> QED
    BY <1>9, <1>e, <2>1 DEF delete_job
<1> QED
  BY <1>1, <1>2, <1>3, <1>4, <1>5, <1>6, <1>7, <1>8, <1>9 DEF RequestStep

LEMMA BackendStepLatest ==
  ASSUME TypeOK, OneSocketPerJob, BillingInv, MarkedInv, LastInv, StoredInv,
         NEW j \in Job, BackendNext(j)
  PROVE  MarkedInv' /\ LastInv' /\ StoredInv'
<1>1. /\ UNCHANGED <<jobs, request>> /\ FramesInv /\ run \in [Job -> Stage]
      /\ run[j] \in {"none", "pending", "executing"}
      /\ \A q \in Request : request[q].pc = "mark_cancelled" => request[q].job \in Job
  BY DEF BackendNext, sdk_upload, Take, bcc_start, bcc_executed, bcc_end, BackendStep, BillingInv,
     TypeOK, TasksOK
<1>2. PICK status, t : Send(j, status, t) /\ run' = [run EXCEPT ![j] = status]
  BY DEF BackendNext, sdk_upload, Take, bcc_start, bcc_executed, bcc_end, BackendStep
<1>3. LastInv' /\ StoredInv'
  BY <1>1, <1>2, SendLatest
<1>4. MarkedInv'
  BY <1>1, <1>2 DEF MarkedInv
<1> QED
  BY <1>3, <1>4

(* The frame that is handled first gives the job its status, if it is the  *)
(* only one.                                                               *)
LEMMA UpdateLatest ==
  ASSUME TypeOK, MarkedInv, LastInv, StoredInv, NEW s \in Socket, on_job_updated_event(s)
  PROVE  MarkedInv' /\ LastInv' /\ StoredInv'
<1> DEFINE e == Head(inbox[s])
           in == inbox[s]
<1>1. in \in Seq(JobUpdate) /\ in # <<>> /\ inbox' = [inbox EXCEPT ![s] = Tail(in)]
      /\ UNCHANGED <<run, request>>
  BY DEF on_job_updated_event, TypeOK
<1>2. /\ e \in JobUpdate /\ e = in[1] /\ 1 \in 1..Len(in)
      /\ Len(Tail(in)) = Len(in) - 1 /\ Len(in) \in Nat
      /\ \A i \in 1..Len(Tail(in)) : Tail(in)[i] = in[i + 1] /\ i + 1 \in 1..Len(in)
  BY <1>1
<1>3. inbox'[s] = Tail(in) /\ \A u \in Socket \ {s} : inbox'[u] = inbox[u]
  BY <1>1 DEF TypeOK
<1>4. e.job \in Job
  BY <1>2 DEF JobUpdate
<1>5. \A k \in 1..Len(in) : k # 1 => k - 1 \in 1..Len(Tail(in)) /\ Tail(in)[k - 1] = in[k]
  <2> SUFFICES ASSUME NEW k \in 1..Len(in), k # 1
               PROVE  k - 1 \in 1..Len(Tail(in)) /\ Tail(in)[k - 1] = in[k]
    OBVIOUS
  <2>1. k - 1 \in 1..Len(Tail(in)) /\ (k - 1) + 1 = k
    BY <1>2
  <2> QED
    BY <1>2, <2>1
<1>6. LastInv'
  <2> SUFFICES ASSUME NEW u \in Socket, NEW i \in 1..Len(inbox'[u]), IsLast(u, i)',
                      run[inbox'[u][i].job] # "deleted"
               PROVE  inbox'[u][i].status = run[inbox'[u][i].job]
    BY <1>1 DEF LastInv
  <2>1. CASE u # s
    BY <1>3, <2>1 DEF LastInv, IsLast
  <2>2. CASE u = s
    <3>a. i \in 1..Len(Tail(in)) /\ i \in Nat /\ inbox'[s] = Tail(in)
      <4>1. i \in 1..Len(inbox'[s])
        BY <2>2
      <4>2. inbox'[s] = Tail(in)
        BY <1>3
      <4> HIDE DEF in
      <4>3. Len(inbox'[s]) = Len(Tail(in)) /\ Len(Tail(in)) \in Int
        BY <1>2, <4>2
      <4> QED
        BY <4>1, <4>2, <4>3
    <3>1. inbox'[s][i] = in[i + 1] /\ i + 1 \in 1..Len(in) /\ i \in Nat
      <4> HIDE DEF in
      <4>1. inbox'[s][i] = Tail(in)[i]
        BY <3>a
      <4> QED
        BY <1>2, <3>a, <4>1
    <3>2. IsLast(s, i + 1)
      <4> SUFFICES ASSUME NEW k \in 1..Len(in), in[k].job = in[i + 1].job
                   PROVE  k <= i + 1
        BY DEF IsLast
      <4>1. CASE k = 1
        BY <3>1, <4>1
      <4>2. CASE k # 1
        <5>1. k - 1 \in 1..Len(inbox'[s]) /\ inbox'[s][k - 1].job = inbox'[s][i].job
          BY <1>3, <1>5, <3>1, <4>2
        <5>2. k - 1 <= i
          BY <2>2, <5>1 DEF IsLast
        <5> QED
          BY <3>1, <5>2
      <4> QED
        BY <4>1, <4>2
    <3> QED
      BY <2>2, <3>1, <3>2 DEF LastInv
  <2> QED
    BY <2>1, <2>2
<1>7. StoredInv'
  <2> SUFFICES ASSUME NEW j \in Job, jobs'[j] # None, run[j] \notin {"none", "deleted"}, NoFrames(j)'
               PROVE  jobs'[j].status = run[j]
    BY <1>1 DEF StoredInv
  <2>1. \A k \in 1..Len(in) : k # 1 => in[k].job # j
    <3> SUFFICES ASSUME NEW k \in 1..Len(in), k # 1 PROVE in[k].job # j
      OBVIOUS
    <3>a. \A i \in 1..Len(inbox'[s]) : inbox'[s][i].job # j
      BY DEF NoFrames
    <3> HIDE DEF in
    <3>1. k - 1 \in 1..Len(Tail(in)) /\ Tail(in)[k - 1] = in[k]
      BY <1>5
    <3>2. \A i \in 1..Len(Tail(in)) : Tail(in)[i].job # j
      BY <1>3, <3>a
    <3>3. Tail(in)[k - 1].job # j
      BY <3>1, <3>2
    <3> QED
      BY <3>1, <3>3
  <2>2. CASE j # e.job
    <3>1. NoFrames(j)
      <4> SUFFICES ASSUME NEW u \in Socket, NEW i \in 1..Len(inbox[u]) PROVE inbox[u][i].job # j
        BY DEF NoFrames
      <4>1. CASE u = s
        <5> HIDE DEF e
        <5> QED BY <1>2, <2>1, <2>2, <4>1
      <4>2. CASE u # s
        BY <1>3, <4>2 DEF NoFrames
      <4> QED
        BY <4>1, <4>2
    <3>2. jobs'[j] = jobs[j]
      BY <1>4, <2>2 DEF on_job_updated_event, TypeOK
    <3> QED
      BY <3>1, <3>2 DEF StoredInv
  <2>3. CASE j = e.job
    <3>1. jobs[j] # None
      BY <2>3 DEF on_job_updated_event
    <3>2. jobs' = [jobs EXCEPT ![j] = update_job(jobs[j], e)]
      BY <2>3, <3>1 DEF on_job_updated_event
    <3>3. jobs[j] \in JobRecord /\ jobs'[j] = update_job(jobs[j], e)
      BY <3>1, <3>2 DEF TypeOK
    <3>4. jobs'[j].status = e.status
      BY <3>3 DEF update_job, JobRecord
    <3>5. IsLast(s, 1)
      <4> SUFFICES ASSUME NEW k \in 1..Len(in), in[k].job = in[1].job PROVE k <= 1
        BY DEF IsLast
      <4> HIDE DEF e
      <4> QED BY <1>2, <2>1, <2>3
    <3>6. in[1].status = run[in[1].job]
      <4>1. run[inbox[s][1].job] # "deleted" /\ 1 \in 1..Len(inbox[s])
        <5> HIDE DEF e
        <5> QED BY <1>2, <2>3
      <4> QED
        BY <3>5, <4>1 DEF LastInv
    <3> HIDE DEF e
    <3> QED BY <1>2, <2>3, <3>4, <3>6
  <2> QED
    BY <2>2, <2>3
<1>8. MarkedInv'
  BY <1>1 DEF MarkedInv
<1> QED
  BY <1>6, <1>7, <1>8

LEMMA NextLatest ==
  ASSUME OneSocketPerJob
  PROVE  TypeOK /\ TypeOK' /\ BillingInv /\ LatestInv /\ [Next]_vars => LatestInv'
<1> SUFFICES ASSUME TypeOK, TypeOK', BillingInv, LatestInv, [Next]_vars, failures' = 0
             PROVE  MarkedInv' /\ LastInv' /\ StoredInv'
  BY DEF LatestInv
<1>a. failures \in Nat /\ request \in [Request -> RequestState]
  BY DEF TypeOK
<1>b. failures' = failures \/ failures' = failures + 1
  BY DEF Next, vars, check_access, get_job, RequestStep, get_token, insert_job, upload_job, discard_job,
     set_source, bcc_cancel_job, cancel_job, bcc_delete_job, delete_job, BackendNext, sdk_upload,
     bcc_start, bcc_executed, bcc_end, BackendStep, HandlerStep, on_job_updated_event,
     update_qpu_usage, take_usage, _notify_project, top_up, delete_project, lose_request, lose_socket
<1>c. failures = 0 /\ failures' = failures
  BY <1>a, <1>b
<1>d. MarkedInv /\ LastInv /\ StoredInv
  BY <1>c DEF LatestInv
<1>e. ASSUME UNCHANGED <<jobs, run, inbox>>,
             \A q \in Request : request'[q] = request[q] \/ request'[q].pc # "mark_cancelled"
      PROVE  MarkedInv' /\ LastInv' /\ StoredInv'
  <2>1. MarkedInv'
    BY <1>d, <1>e DEF MarkedInv
  <2>2. LastInv' /\ StoredInv'
    BY <1>d, <1>e, LatestKept
  <2> QED
    BY <2>1, <2>2
<1>1. ASSUME NEW r \in Request, NEW j \in Job, NEW q \in Project, NEW d \in BOOLEAN, check_access(r, j, q, d)
      PROVE  MarkedInv' /\ LastInv' /\ StoredInv'
  BY <1>1, <1>a, <1>e DEF check_access
<1>2. ASSUME NEW r \in Request, NEW j \in Job, NEW pc \in {"bcc_cancel", "bcc_delete"}, get_job(r, j, pc)
      PROVE  MarkedInv' /\ LastInv' /\ StoredInv'
  BY <1>2, <1>a, <1>e DEF get_job
<1>3. ASSUME NEW s \in Socket, HandlerStep(s)
      PROVE  MarkedInv' /\ LastInv' /\ StoredInv'
  BY <1>3, <1>d, <1>e, UpdateLatest DEF HandlerStep, update_qpu_usage, take_usage, _notify_project
<1>4. ASSUME NEW q \in Project, top_up(q) \/ delete_project(q)
      PROVE  MarkedInv' /\ LastInv' /\ StoredInv'
  BY <1>4, <1>e DEF top_up, delete_project
<1>5. ASSUME NEW r \in Request, lose_request(r)
      PROVE  FALSE
  BY <1>5, <1>a, <1>c DEF lose_request
<1>6. ASSUME NEW s \in Socket, lose_socket(s)
      PROVE  FALSE
  BY <1>6, <1>a, <1>c DEF lose_socket
<1>7. CASE UNCHANGED vars
  BY <1>7, <1>e DEF vars
<1> QED
  BY <1>1, <1>2, <1>3, <1>4, <1>5, <1>6, <1>7, <1>d, RequestStepLatest, BackendStepLatest DEF Next

(* A cancellation is written by the request and again by the backend's     *)
(* event, and the events of a job are handled long after they are sent;    *)
(* yet once all is handled a stored job has the status its backend gave it *)
(* last, answers that come too late included, provided that its events     *)
(* come over one socket.                                                   *)
THEOREM StatusesSettle ==
  ASSUME OneSocketPerJob
  PROVE  Spec => []SettledStatus
<1>1. Init => BillingInv /\ LatestInv
  <2>1. Init => BillingInv
    BY JobsAssumption DEF Init, BillingInv, CreationInv, FramesInv, TimedInv, PaidInv,
       BilledAtMostOnce, Paid, Billing, Creating, Idle, NoRequest
  <2>2. Init => LatestInv
    BY DEF Init, LatestInv, MarkedInv, LastInv, StoredInv, NoRequest
  <2> QED
    BY <2>1, <2>2
<1>2. LatestInv => SettledStatus
  BY DEF LatestInv, StoredInv, NoFrames, SettledStatus
<1>3. TypeOK /\ BillingInv /\ [Next]_vars => BillingInv'
  BY NextBilling
<1>4. TypeOK /\ TypeOK' /\ BillingInv /\ LatestInv /\ [Next]_vars => LatestInv'
  BY NextLatest
<1> QED
  BY <1>1, <1>2, <1>3, <1>4, TypeCorrect, PTL DEF Spec
=============================================================================
