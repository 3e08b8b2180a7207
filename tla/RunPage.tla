------------------------------- MODULE RunPage -------------------------------
(***************************************************************************)
(* The dashboard's Run page: a circuit is written, submitted to MSS and    *)
(* followed; past runs are opened, submitted again and cancelled.  The     *)
(* selected run is in the URL, and selecting one is a navigation, which    *)
(* awaits its loader.  useMutation shows one submission, but each one that *)
(* was begun is answered.                                                  *)
(***************************************************************************)
EXTENDS Integers, FiniteSets, Query

CONSTANTS
    MaxSub,         \* how many submissions there may be in a visit
    MaxJob,         \* how many jobs there may ever be
    MaxActs,        \* how many things the user does
    MaxRunFailures  \* how many requests and fetches fail

ASSUME RunAssumption ==
    {MaxSub, MaxJob, MaxActs, MaxRunFailures} \subseteq Nat /\ MaxJob >= 1

VARIABLES
    jobs,      \* MSS's jobs: status and circuit of each, "none" for a job that is not
    draft,     \* the circuit in the editor
    selected,  \* the job in the URL, 0 for none
    opening,   \* the job of the navigation whose loader is awaited, 0 for none
    list,      \* the query of the project's jobs: their statuses
    one,       \* the query of each single job: its status
    sub,       \* the mutation of each submission
    shown,     \* the submission that useMutation shows, 0 for none
    edited,    \* the draft was changed while the shown submission was pending
    cancel,    \* the mutation of a cancellation
    acts,      \* what the user has done, counted
    runFailures,  \* requests and fetches that failed so far
    runBroken  \* an error was thrown, and stands instead of the page: there the instance ends

runVars == <<jobs, draft, selected, opening, list, one, sub, shown, edited, cancel, acts,
             runFailures, runBroken>>

-----------------------------------------------------------------------------
Submission == 1..MaxSub
Job     == 1..MaxJob
Status  == {"none", "pending", "successful", "cancelled"}
\* A draft: "faulty" is refused with an error at a line, "blank" has no circuit or a device
\* that is offline
Circuit == {"good", "faulty", "blank"}
Source  == Circuit \cup {"sdk"}         \* "sdk": the job was not sent from the dashboard

isFinal(status) == status \in {"successful", "cancelled"}

NoSub == [stage |-> "idle", circuit |-> "blank", job |-> 0]
Done  == [NoSub EXCEPT !.stage = "done"]
Pending == {"sent", "accepted", "refused", "refreshing"}

\* A type invariant: every variable of the page is of its type.
RunTypeOK ==
    /\ jobs \in [Job -> [status : Status, source : Source]]
    /\ draft \in Circuit
    /\ {selected, opening} \subseteq 0..MaxJob
    /\ list \in QueryOf([Job -> Status])
    /\ one \in [Job -> QueryOf(Status)]
    /\ sub \in [Submission -> [stage : Pending \cup {"idle", "done", "error"},
                               circuit : Circuit, job : 0..MaxJob]]
    /\ shown \in 0..MaxSub
    /\ edited \in BOOLEAN
    /\ cancel \in [stage : {"idle", "sent", "handled"}, job : 0..MaxJob]
    /\ acts \in 0..MaxActs
    /\ runFailures \in 0..MaxRunFailures
    /\ runBroken \in BOOLEAN

Statuses(js) == [j \in Job |-> js[j].status]

\* The loader has fetched the jobs, and the one the URL names; it was sent from here or
\* by the SDK
RunInit ==
    /\ \E status \in {"pending", "successful"}, source \in {"faulty", "sdk"} :
         jobs = [j \in Job |-> IF j = 1 THEN [status |-> status, source |-> source]
                              ELSE [status |-> "none", source |-> "sdk"]]
    /\ draft \in {"good", "faulty"}
    /\ selected \in {0, 1} /\ opening = 0
    /\ list = LoadedQuery(Statuses(jobs))
    /\ one = [j \in Job |-> IF j = selected THEN LoadedQuery(jobs[j].status) ELSE NewQuery("none")]
    /\ sub = [s \in Submission |-> NoSub]
    /\ shown = 0
    /\ edited = FALSE
    /\ cancel = [stage |-> "idle", job |-> 0]
    /\ acts = 0
    /\ runFailures = 0
    /\ runBroken = FALSE

-----------------------------------------------------------------------------
\* What the page shows

\* useMutation's isPending and isError, of the submission it shows
submissionIsPending == shown # 0 /\ sub[shown].stage \in Pending
isError   == shown # 0 /\ sub[shown].stage = "error"

\* The circuit panel's isRunnable
CircuitPanel == draft # "blank"

\* What the results panel says of the selected run
ResultsPanel ==
    IF selected = 0 \/ ~one[selected].has THEN "nothing"
    ELSE IF isFinal(one[selected].data) THEN "final" ELSE "running"

\* What a run in the list offers: to cancel it, or to submit it again
RunsList(j) ==
    IF list.data[j] = "none" THEN "nothing"
    ELSE IF ~isFinal(list.data[j]) THEN "cancel"
    ELSE IF jobs[j].source # "sdk" THEN "resubmit" ELSE "nothing"

\* The draft a past job ran, if it was sent from the dashboard
getDraftFromJob(j) == IF jobs[j].source = "sdk" THEN draft ELSE jobs[j].source

-----------------------------------------------------------------------------
\* The user

Acts == acts < MaxActs /\ acts' = acts + 1

\* Mutant: an error stays until the next run
updateDraftAlone(c) ==
    /\ Acts /\ c # draft
    /\ draft' = c
    /\ edited' = (edited \/ submissionIsPending)
    /\ UNCHANGED <<jobs, selected, opening, list, one, sub, shown, cancel, runFailures, runBroken>>

\* The editor, device, name or shots change: an error goes away, a pending run goes on
updateDraft(c) ==
    /\ Acts /\ c # draft
    /\ draft' = c
    /\ shown' = IF isError THEN 0 ELSE shown
    /\ edited' = (edited \/ submissionIsPending)
    /\ UNCHANGED <<jobs, selected, opening, list, one, sub, cancel, runFailures, runBroken>>

\* submission.mutate: the page shows this submission from now on
runDraft(s, c) ==
    /\ sub[s].stage = "idle" /\ \A r \in 1..(s - 1) : sub[r].stage # "idle"
    /\ sub' = [sub EXCEPT ![s] = [stage |-> "sent", circuit |-> c, job |-> 0]]
    /\ shown' = s
    /\ edited' = FALSE

\* The Run button, or the editor's shortcut
onRun(s) ==
    /\ Acts
    /\ CircuitPanel /\ ~submissionIsPending
    /\ runDraft(s, draft)
    /\ UNCHANGED <<jobs, draft, selected, opening, list, one, cancel, runFailures, runBroken>>

\* A run's Resubmit: of a device that may be offline, whatever is pending
submitJobAgain(s, j) ==
    /\ Acts
    /\ RunsList(j) = "resubmit"
    /\ draft' = getDraftFromJob(j)
    /\ runDraft(s, getDraftFromJob(j))
    /\ UNCHANGED <<jobs, selected, opening, list, one, cancel, runFailures, runBroken>>

\* A navigation to a run begins, in the place of any other; its loader has the run fetched
\* if nobody did
setSearchParams(j) == opening' = j
ensureQueryData(j) == [one EXCEPT ![j] = IF @.has THEN @ ELSE Refetch(@)]

\* A run in the list is opened; if it has a circuit, that is the draft, and useMutation
\* forgets the submission it shows, pending or not
openJob(j) ==
    /\ Acts
    /\ list.data[j] # "none"
    /\ setSearchParams(j)
    /\ one' = ensureQueryData(j)
    /\ draft' = getDraftFromJob(j)
    /\ shown' = IF jobs[j].source = "sdk" THEN shown ELSE 0
    /\ edited' = (edited /\ jobs[j].source = "sdk")
    /\ UNCHANGED <<jobs, selected, list, sub, cancel, runFailures, runBroken>>

\* A run's Cancel, in the list or in the results panel
cancelMyJob(j) ==
    /\ Acts
    /\ \/ RunsList(j) = "cancel"
       \/ j = selected /\ ResultsPanel = "running"
    /\ cancel.stage = "idle"
    /\ cancel' = [stage |-> "sent", job |-> j]
    /\ UNCHANGED <<jobs, draft, selected, opening, list, one, sub, shown, edited, runFailures,
                   runBroken>>

-----------------------------------------------------------------------------
\* The loader has the run: the URL names it, and a query that was not on the page is mounted,
\* and so fetched
loader ==
    /\ opening # 0 /\ one[opening].has
    /\ selected' = opening
    /\ opening' = 0
    /\ one' = IF opening = selected THEN one ELSE [one EXCEPT ![opening] = Refetch(@)]
    /\ UNCHANGED <<jobs, draft, list, sub, shown, edited, cancel, acts, runFailures, runBroken>>

-----------------------------------------------------------------------------
\* MSS and the device

\* MSS handles a submission: the circuit is refused, or there is a new job
submitMyJob(s) ==
    /\ sub[s].stage = "sent"
    /\ IF sub[s].circuit = "faulty"
       THEN sub' = [sub EXCEPT ![s].stage = "refused"] /\ UNCHANGED jobs
       ELSE \E j \in Job :
              /\ jobs[j].status = "none" /\ \A i \in 1..(j - 1) : jobs[i].status # "none"
              /\ jobs' = [jobs EXCEPT ![j] = [status |-> "pending", source |-> sub[s].circuit]]
              /\ sub' = [sub EXCEPT ![s].stage = "accepted", ![s].job = j]
    /\ UNCHANGED <<draft, selected, opening, list, one, shown, edited, cancel, acts, runFailures,
                   runBroken>>

\* A cancellation is handled; of a job that is final it changes nothing
jobCancels ==
    /\ cancel.stage = "sent"
    /\ cancel' = [cancel EXCEPT !.stage = "handled"]
    /\ jobs' = IF jobs[cancel.job].status = "pending"
               THEN [jobs EXCEPT ![cancel.job].status = "cancelled"] ELSE jobs
    /\ UNCHANGED <<draft, selected, opening, list, one, sub, shown, edited, acts, runFailures,
                   runBroken>>

\* A job is run
jobRuns(j) ==
    /\ jobs[j].status = "pending"
    /\ jobs' = [jobs EXCEPT ![j].status = "successful"]
    /\ UNCHANGED <<draft, selected, opening, list, one, sub, shown, edited, cancel, acts,
                   runFailures, runBroken>>

\* A submission is refused, or its request or the answer is lost, which looks the same
submissionLost(s) ==
    /\ runFailures < MaxRunFailures
    /\ sub[s].stage \in {"sent", "accepted"}
    /\ runFailures' = runFailures + 1
    /\ sub' = [sub EXCEPT ![s].stage = "refused"]
    /\ UNCHANGED <<jobs, draft, selected, opening, list, one, shown, edited, cancel, acts,
                   runBroken>>

-----------------------------------------------------------------------------
\* The answers

\* Invalidates the list and the selected run's query; the other runs' queries have no
\* observer, and are fetched when they are selected
refreshMyJobsQueries(queries) ==
    /\ list' = Invalidate(list)
    /\ one' = IF selected = 0 THEN queries ELSE [queries EXCEPT ![selected] = Invalidate(@)]

\* The new run is navigated to, even if another was opened since it was submitted, and the
\* jobs are refreshed
submissionSucceeds(s) ==
    /\ sub[s].stage = "accepted"
    /\ setSearchParams(sub[s].job)
    /\ refreshMyJobsQueries(ensureQueryData(sub[s].job))
    /\ sub' = [sub EXCEPT ![s].stage = "refreshing"]
    /\ UNCHANGED <<jobs, draft, selected, shown, edited, cancel, acts, runFailures, runBroken>>

\* The submission ends when the list has been fetched
submissionEnds(s) ==
    /\ sub[s].stage = "refreshing" /\ list.fetch = "idle"
    /\ sub' = [sub EXCEPT ![s] = Done]
    /\ UNCHANGED <<jobs, draft, selected, opening, list, one, shown, edited, cancel, acts,
                   runFailures, runBroken>>

\* getQasmErrors shows the error, at its line and column, if useMutation shows the submission
submissionFails(s) ==
    /\ sub[s].stage = "refused"
    /\ sub' = [sub EXCEPT ![s] = IF s = shown THEN [@ EXCEPT !.stage = "error"] ELSE Done]
    /\ UNCHANGED <<jobs, draft, selected, opening, list, one, shown, edited, cancel, acts,
                   runFailures, runBroken>>

cancellationSucceeds ==
    /\ cancel.stage = "handled"
    /\ refreshMyJobsQueries(one)
    /\ cancel' = [stage |-> "idle", job |-> 0]
    /\ UNCHANGED <<jobs, draft, selected, opening, sub, shown, edited, acts, runFailures,
                   runBroken>>

-----------------------------------------------------------------------------
\* The queries

\* Mutant: polls until the list has the run as final
pollsUntilListed(j) ==
    /\ j = selected /\ one[j].fetch = "idle"
    /\ ~isFinal(list.data[j])
    /\ one' = [one EXCEPT ![j] = Refetch(@)]
    /\ UNCHANGED <<jobs, draft, selected, opening, list, sub, shown, edited, cancel, acts,
                   runFailures, runBroken>>

\* The selected run is polled until it is final
getMyJobQuery(j) ==
    /\ j = selected /\ one[j].fetch = "idle"
    /\ ~(one[j].has /\ isFinal(one[j].data))
    /\ one' = [one EXCEPT ![j] = Refetch(@)]
    /\ UNCHANGED <<jobs, draft, selected, opening, list, sub, shown, edited, cancel, acts,
                   runFailures, runBroken>>

\* The list is polled as long as the page is open
getMyJobsQuery ==
    /\ list.fetch = "idle"
    /\ list' = Refetch(list)
    /\ UNCHANGED <<jobs, draft, selected, opening, one, sub, shown, edited, cancel, acts,
                   runFailures, runBroken>>

\* Jobs are never fewer and a job's status only moves on, so that it does not matter
\* when an answer was made
listFetched ==
    /\ list.fetch = "sent"
    /\ list' = Applied(Answer(list, Statuses(jobs)))
    /\ UNCHANGED <<jobs, draft, selected, opening, one, sub, shown, edited, cancel, acts,
                   runFailures, runBroken>>

jobFetched(j) ==
    /\ one[j].fetch = "sent"
    /\ one' = [one EXCEPT ![j] = Applied(Answer(@, jobs[j].status))]
    /\ UNCHANGED <<jobs, draft, selected, opening, list, sub, shown, edited, cancel, acts,
                   runFailures, runBroken>>

\* A run's fetch fails: a loader that awaits it throws, and so ends the page; a run that is
\* shown stays as it was
jobFetchFails(j) ==
    /\ runFailures < MaxRunFailures
    /\ one[j].fetch # "idle"
    /\ runFailures' = runFailures + 1
    /\ one' = [one EXCEPT ![j] = Dropped(@)]
    /\ runBroken' = (j = opening /\ ~one[j].has)
    /\ UNCHANGED <<jobs, draft, selected, opening, list, sub, shown, edited, cancel, acts>>

\* A fetch of the list fails, and is thrown (throwOnError)
listFetchFails ==
    /\ runFailures < MaxRunFailures
    /\ list.fetch # "idle"
    /\ runFailures' = runFailures + 1
    /\ list' = Dropped(list)
    /\ runBroken' = TRUE
    /\ UNCHANGED <<jobs, draft, selected, opening, one, sub, shown, edited, cancel, acts>>

-----------------------------------------------------------------------------
RunUserStep ==
    \/ \E c \in Circuit : updateDraft(c)
    \/ \E s \in Submission : onRun(s)
    \/ \E s \in Submission, j \in Job : submitJobAgain(s, j)
    \/ \E j \in Job : openJob(j) \/ cancelMyJob(j)

RunAnswerStep ==
    \/ \E s \in Submission :
         submitMyJob(s) \/ submissionSucceeds(s) \/ submissionEnds(s) \/ submissionFails(s)
    \/ jobCancels \/ cancellationSucceeds

RunFetchStep == listFetched \/ \E j \in Job : jobFetched(j)

RunNext ==
    /\ ~runBroken
    /\ \/ RunUserStep \/ RunAnswerStep \/ RunFetchStep
       \/ \E j \in Job : jobRuns(j) \/ getMyJobQuery(j) \/ jobFetchFails(j)
       \/ \E s \in Submission : submissionLost(s)
       \/ loader \/ getMyJobsQuery \/ listFetchFails

\* Requests are answered or fail, and the browser polls what is on the page; nothing says
\* that jobs are run, or that the user does anything
RunFairness ==
    /\ WF_runVars(~runBroken /\ RunAnswerStep) /\ WF_runVars(~runBroken /\ loader)
    /\ WF_runVars(~runBroken /\ listFetched) /\ WF_runVars(~runBroken /\ getMyJobsQuery)
    /\ \A j \in Job : /\ WF_runVars(~runBroken /\ jobFetched(j))
                     /\ WF_runVars(~runBroken /\ getMyJobQuery(j))

RunSpec == RunInit /\ [][RunNext]_runVars /\ RunFairness

-----------------------------------------------------------------------------
\* The errors in the editor, which name a line and a column, are those of the circuit in
\* it: opening, editing or resubmitting takes the errors of another circuit away, whatever
\* answers come late, unless the draft was changed while its submission was pending.
ErrorsAreOfDraft == isError /\ ~edited => sub[shown].circuit = draft

\* A run that is selected and final in MSS is shown as final in the end, unless another is
\* selected or an error has ended the page: polling goes on through failed fetches of the run,
\* whatever the list already says of it.
FinalIsShown ==
    \A j \in Job :
        (selected = j /\ isFinal(jobs[j].status))
            ~> (selected # j \/ ResultsPanel = "final" \/ runBroken)

=============================================================================
