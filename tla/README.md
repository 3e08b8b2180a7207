# Verification of Tergite MSS and its dashboard in TLA+

Tergite MSS is the main service of a quantum computing centre: users sign in through
OAuth, belong to projects that own QPU seconds, and run jobs on devices whose backends
hold websockets open to MSS. The dashboard is the browser application that MSS serves. This
directory models the logic of both in TLA+, checks the models with TLC on small instances,
and proves with TLAPS, for every instance, every safety and action property that the passing
runs check on theirs. The code is the reference; quotations name where they come from.

## 1. The system

MSS is a FastAPI application that runs as several processes over one database (MongoDB or
PostgreSQL). A process runs one event loop, so code runs without interruption between two
awaits, and anything may happen at an await, in this process or another. Every database
call and every call to a backend is such a point. One call on one record is atomic
(`update_one` with `$set`, `$inc`, `$addToSet`); there are no transactions. That is why
each action of the modules is the code between two awaits, and why a task's local
variables, which may be out of date when they are used, are part of the state.

| Component | State | Operations | Talks to |
|---|---|---|---|
| Jobs (`services/jobs`, `services/devices/events.py`) | `jobs` table | create, submit, cancel, delete; `job_updated` | backends over HTTP and websockets; projects (QPU seconds); notices |
| Device connections (`services/devices`, `api/routers/devices`) | `devices`, `device_connections`, `switched_off_devices`; each process's websockets | connect, disconnect, `initialized`, `switched_off`, `switched_on`; refresh; sync of the flags | backends |
| Projects (`services/auth/projects`) | `auth_projects`, `deleted_projects` | create, update, remove a member, delete, personal project at login; increments for jobs and requests | app tokens, notices |
| App tokens (`services/auth/app_tokens`) | `auth_app_tokens` | create, extend, delete; revoked with the membership | projects |
| User requests (`services/requests`) | `user_requests` | create; decide, with the action of an approval | projects, notices |
| Notices (`services/notices`) | `notices`, preferences, templates | create, read, clear by reference, publish, delete | everyone who tells users something |
| Notice emails (`services/notices/emails.py`, `services/external/email`) | the email status and attempts of a notice | find, claim, send, settle, in every process | SMTP |
| Calibrations (`services/calibration`) | the current calibration per device, and a log | `recalibrated` | devices |
| Websocket handshakes (`api/utils.py`, `services/bcc_nonces`) | used nonces, until they expire | claim | backends |
| Sign-in (`libs/authlib`, `services/auth`) | users, their OAuth accounts; cookies | sign in, sign out, current user | OAuth providers |
| Backend client (`services/external/bcc`) | none | signed requests | backends |
| Storage (`libs/storage`) | the tables | find, insert, update, delete | databases |

The dashboard (`ui`) is a React application with a router, whose loaders fetch what a page
needs, and a cache of queries (TanStack Query), most of which are polled. JavaScript runs one
callback at a time, so each action is the code between two awaits; the server may handle a
request, and its answer may arrive, at any time later and in any order. A mutation that was
begun goes on when its component has gone.

| Part of the dashboard | State | Operations | Talks to |
|---|---|---|---|
| Bookings calendar (`pages/device-detail/components/bookings-calendar`) | the query of the bookings, two dialogs, `currentBooking` | create, edit (cancel, then create), drag, discard | the backend, through MSS |
| Run page (`pages/run`) | the draft, the selected run (in the URL), one `useMutation` of submissions, the queries of a run and of all | edit, run, open, submit again, cancel | jobs |
| Pages of lists (`pages/{projects,tokens,requests,approvals,admin-projects,admin-requests}`, `components/ui/data-table`) | the query of the rows, the picked row, filters, the sidebar's form | delete, approve, reject, edit, create, ask | projects, tokens, requests |
| Control panel (`pages/admin-control`) | the selected device and its queries, a dialog; the card of notices with its page and timestamp | switch a backend, trigger and stop recalibrations; post, delete and page | devices, backends, notices |
| Session and router (`router.tsx`, `lib/{loaders,app-state}.ts`, `lib/api/auth.ts`, the layout) | the store (project, token), the cache, the loading of a page | navigate, select a project, make a token, log out and in | sign-in |
| Notifications (`components/layouts/dashboard/components/notifications`, `notice-banner.tsx`, `pages/settings`) | the queries of the panel, the banner, the badge and the switches | mark as read, mark all, decide, dismiss, switch an email | notices, requests |
| Toasts (`hooks/use-toast.ts`) | the toasts and their timers | show, dismiss, remove | every operation |

What is hard here: tasks that interleave between a read and a write; events of one job
over several sockets; processes that die between two writes; answers that come too late;
records that lapse by themselves; several emailers on one table; and things that must
happen in the end (a charge, a notice, an email, a flag); and, in the dashboard, operations
that overlap because nothing turns a button off, answers that are older than what the user
has done since, components that stay mounted from one row to the next, and loaders that go on
after they were given up. `PROJECT.json` lists these hazards at their lines, with the
properties that cover them.

What makes each component correct:

* Jobs: a job's usage is taken once, in full, from its own project; a project that runs
  out is announced once; a job's status ends as its backend's.
* Devices: an open websocket is on record and a dead one is not for long; the flag ends
  as the records and the switch-offs say.
* Projects and tokens: the admin is a member; tokens are members'; who is removed is
  told, if the notice can be written; a personal allowance is given once; a deleted project
  leaves a copy.
* Requests: what is approved was done, once, and nothing else is; decisions are
  told; prompts that are answered go away.
* Notice emails: an email goes out once where its result can be known, is tried a bounded number of times, and is
  settled.
* Calendar: an edit is one booking for one; what is told as saved is shown; the calendar
  comes to agree with the backend while the page is there.
* Run page: the errors in the editor are of its circuit; a run that ended is shown so while the
  page is there.
* Lists: what is typed is of the row it is saved to; what was deleted or decided does not
  come back; a row that is picked stays picked.
* Control panel: what was posted or started is shown; the cards come to agree with MSS.
* Frame: the page is of the selected project; logging out is final; what was read does not
  come back; an open toast is not taken down; the router comes to rest.

## 2. The modules

| Module | Models | Run |
|---|---|---|
| `Ledger` | the abstract specification of billing: a balance per project, each job paid at most once | `jobs_billing` (refinement) |
| `Jobs` | jobs, their events and their billing | `jobs_*` through `MCJobs` |
| `BillingProofs` | the theorems about `Jobs` | proofs |
| `Devices` | connections, refreshers, switch-offs and flags | `devices_online` through `MCDevices` |
| `DevicesProofs` | the theorems about `Devices` | proofs |
| `Projects` | projects, membership and app tokens | `projects` through `MCProjects` |
| `ProjectsProofs` | the theorems about `Projects` | proofs |
| `Requests` | user requests and what their approval does | `requests` through `MCRequests` |
| `NoticeEmails` | the emailers | `emails_claims` through `MCNoticeEmails` |
| `RequestsProofs` | the theorems about `Requests` and `NoticeEmails` | proofs |
| `Query` | one query of the dashboard's cache, as the library keeps it (external) | all of the dashboard's |
| `BookingsCalendar` | the bookings calendar of a device's page | `calendar` through `MCCalendar` |
| `CalendarProofs` | the theorems about `BookingsCalendar` | proofs |
| `RunPage` | the run page | `run_page` through `MCRun` |
| `ListPage` | the seven pages of lists, as one | `lists` through `MCList` |
| `PagesProofs` | the theorems about `RunPage` and `ListPage` | proofs |
| `NoticesCard`, `ControlPanel` | the control panel: its card of notices, and the panel with its cards for devices | `control_panel` through `MCControl` |
| `PanelProofs` | the theorems about both | proofs |
| `Session` | the session, the store and the router | `frame` |
| `Notifications` | the bell, the banner, the badge and the email switches | `frame` |
| `Toasts` | the toasts | `frame` |
| `Frame` | the three together: the frame around every page | `frame` through `MCFrame` |
| `FrameProofs` | the theorems about the three, as parts of `Frame` | proofs |

Names follow the code: an action has the name of the function it is a step of
(`remove_member`, `_record_decision`), and a function that awaits several times is several
actions, which its `pc` puts in order. `PROJECT.json` maps each definition to its lines.
Definitions whose comment begins with "Mutant" are faulty variants of a definition; they
are not part of a specification, and stand beside it to show which property a bug there
would break.

### Jobs

`jobs` and `seconds` are the two tables. `run`, `executed` and `inbox` are the backends'
side: what a backend is doing with a job, whether its execution has finished, and the
frames on each socket. `handler[s]` is the websocket handler of socket `s`, one frame at a
time as in `handle_device_events`; `request[r]` is an HTTP request. A job's record keeps
its status, its project and whether its timestamps give a duration (`timed`):
`duration_in_secs` is what decides on billing. An event's timestamps are absent, or hold
what is known so far, `finished` or not; `update_job` replaces those of the job whole. A
backend may report a cancelled or failed job with or without timestamps. `Route` says over
which sockets a job's events may come: a set of one in the instances that the proofs are
about, several in `jobs_two_sockets`. Backends, the SDK and failures are modelled from how
the code uses them and marked external.

`Ledger` sees only balances and the set of jobs that were paid: a step pays one job in
full from one project, adds a top-up or closes a project.

### Devices

Time passes in intervals of `CONNECTION_REFRESH_SECONDS`; `expiry[s]` is how many a record
has left, 0 for none, and records lapse by `tick`. A task is a websocket's handler or a
process's own task, which at startup and after each renewal runs `sync_online_flags`:
three reads, then one patch per device that differs, by what was read. An interval in
which a process has not renewed, or a handler has not accepted its websocket, counts as a
failure, like a crash or a database call that fails; `MaxFailures` bounds them together.

### Projects

A task reads a project, and later writes by what it read. `untold` holds who lost their
membership and was not told, `unheard` those among them whose notice was lost: it died with its
process, or `create_system_notice` caught what went wrong and let the request succeed. A
personal project has the same id whenever a login makes it again, so `deleted` is which of its
lives (`creations` counts them) the copy under its id is of: a task remembers the life that it
read, and the insertion of a second copy fails and keeps the first. `orphans` are the projects
with which a process died between deletion and copy. The email addresses of a request have been
looked up; QPU seconds are in `Jobs`.

### Requests

`done[r]` counts how often what `r` asks for was done, `asked` the unread notices that ask
users to decide, `told` the decisions requesters were told. The projects table is the part
the actions touch. An update of a project that is gone changes nothing and raises nothing,
as `update_one` returns None.

### NoticeEmails

`lapsed` are the claims older than `_CLAIM_LIFESPAN`. A claim is held by the process that
made it until it has stored the outcome; a claim nobody holds lapses in time, one that is
held lapses only if its process is slow, which `MaxSlow` bounds. Whether an email was sent and
whether its result is an error are two choices: an email that the SMTP server accepted may have
an error for its result (`disowned`), if the answer was lost or closing the connection failed,
which gives that error to the whole batch; an email that was not sent never counts as sent.

### Query

A query has the data of the last answer and at most one fetch in flight, `sent` (MSS has not
handled it) or `answered` (the answer is on its way, and holds what MSS had then). A poll or
a mount joins a fetch in flight; `invalidateQueries` drops it for a new one if there is data,
and joins the very first. That difference is what `SavedIsShown`, `ClosedIsGone`,
`StartedIsKnown` and `DismissedIsGone` are about. The library is not in the repository: the
module states what the dashboard relies on.

### BookingsCalendar

`op[o]` is a mutation and where it is: its request was sent, was handled, failed, or it awaits
the refetch that its `onSuccess` began. `granted` counts the bookings that were asked for and
made, those of others included; edits and moves are not counted. `updateBooking` is two
requests, `cancelBooking` and `createNewBooking`, between which anything may happen; a drag of
a booking that is not editable makes neither, and refreshes like one that succeeded
(`reverted`). A failed fetch of the bookings is thrown and ends the page (`broken`): the user and
the polls stop, and what was begun goes on without a query to refresh. A behaviour is of one
visit; a retry is another, which begins as `Init`.

### RunPage

`sub` are all submissions that were begun, `shown` the one that `useMutation` shows. `one[j]`
polls a run until it is final. Selecting a run is a navigation: `opening` is the run that its
loader awaits, and `selected` changes when the loader has it, so nothing is selected that was
never fetched; a later navigation takes the place of the one under way. If the fetch that a
loader awaits fails, or one of the list of runs, an error ends the page (`runBroken`); a failed
poll of a run that is shown does not. The devices' query, which ends the page like the list, is
left out, and so is what happens after it, as in the calendar. A circuit is good, faulty (MSS
answers with an error at a line) or blank; a job of the SDK has no circuit that the editor could take.

### ListPage

The seven pages have one structure; a record says of each what closes a row, whether rows
have buttons of their own, whether closed rows stay listed, where the form for a row is, how
rows are made and whether the key of the query may change. A row has a state and a version,
which others and edits change. `form` is the sidebar's form: of which row and version its
values are, and whether something was typed.

### ControlPanel and NoticesCard

The cards share only the error that may stand in their place, so a behaviour is of one card
at work. The queries of the notices have the card's timestamp in their key: a new timestamp
is a new query, whose predecessor's data is shown until it is answered. A device's flag in
MSS follows a switch by an event that comes later. A switch refreshes all queries under
"devices", of which the selected device's is on the page, whichever device was switched, and then
its own device's: `awaits` are the devices whose fetches a mutation awaits.

### Session, Notifications, Toasts and Frame

`nav` is the loading of a page, in two stages: what a loader awaits first (the user, devices
and projects, for a run's link the run too), and the data of the project that it has read.
`strays` are loaders of run links that the router gave up; they run to their end and may
select a project. Four pages stand for the routes: one that reads the selection before it
awaits, one that reads it after, a run's link, and one for admins. `touched` marks behaviours
in which the user did something while the logout was under way.

In `Notifications` a reaction is a mutation with the queries whose fetches it awaits; the
lists and the switches have keys with one prefix and are refreshed together, the badge after
them. A decision also refreshes queries of other pages, which are not on these. An instance is
of the settings page or of a page with the banner. The timer of a toast filters the toasts by
its id; as ids are not used again, `Without` takes out at most one. `Frame` says what the parts share: nothing
but the cache that a logout empties, so a behaviour is of one part at work and the state
space is the sum, not the product, of the parts'.

## 3. The runs

All runs end with the whole state space explored. Bounds are constants of the modules and
named in the `.cfg` files.

| Run | What it shows | Instance, and why it is enough |
|---|---|---|
| `jobs_billing` | types; a recorded duration is billed; running out alerts exactly once; a settled status is the backend's; billing implements `Ledger` | two jobs, one project with one second, a socket each: two handlers bill at the same time and the balance crosses zero; one top-up lets it cross again |
| `jobs_failures` | billed at most once; a finished execution is charged in the end | one job, two requests, two failures and late answers: a task dies between any two steps, twice |
| `jobs_two_sockets` (violation) | two sockets bill a job twice | one job, two sockets |
| `devices_online` | open websockets are on record; the flags converge, after dead records have lapsed | two websockets of one device, so that one closes while the other stays; one device event and one failure of any kind; three intervals, as 90 s to 30 s |
| `projects` | the admin is a member; tokens are members'; who lost membership is told; the allowance is given once; a copy is kept | a shared project, three users, five changes, one request at a time, one of which, or whose notice, is lost; and a personal one, two requests at a time, four changes, one lost: two logins race, and a deletion and a login |
| `requests` | done once; prompts are cleared; what is approved was done; decisions are told | two requests of all six kinds, two superusers, one API request at a time; and one request, two API requests at a time, one of which may be lost, and a notice that fails |
| `emails_claims` | sent once; bounded attempts; settled in the end | two emailers, two notices in one batch, one of a user who is gone; one crash, one failed call and one slow process; an SMTP server that fails any email, accepted or not |
| `calendar` | one booking for one; what is saved is shown; the calendar converges | two operations of the user's or others' at once, of any kind, one failure (of a request, or of a fetch, which ends the page), two times to book, so that bookings collide and start |
| `run_page` | errors are of the draft; a final run is shown | two submissions, a past run, two further things the user does, one failure: of a request, a run's fetch or the list's |
| `lists` | what is typed is of the row; closed rows do not come back; picked rows stay; the list converges | all seven pages, two rows and one that may be made, two operations at once, two picks or filters, one change by others, one failure |
| `control_panel` | a posted notice is counted; a recalibration is known; the panel converges | two devices, three moves, two operations, one change that is not the admin's; three notices, two of which may be there or be posted, and two moments |
| `frame` | pages are of the selected project; a selection is kept; the router settles; logged out is out; read notices are gone; switches are as saved; open toasts stay | two projects, one page gone to beside the first, two selections or tokens, one sign-in, one failure; a notice per page, two reactions at once, one look, one fault; two toasts with `TOAST_LIMIT` 1, of which the second takes the place of the first |

A run that has two kinds of instance (`projects`, `requests`) chooses one in `Init`: the
variable `scope` is the choice.

Every module has a type invariant, which documents its state. That of `Jobs` is checked in
`jobs_billing`; the others hold in the instances of the table but are not repeated in its runs,
which are about what can go wrong. All of them are proved.

`CHECK_DEADLOCK FALSE` is in the runs whose bounds run out; `Devices` never stops, as time
passes.

**Fairness.** An event loop goes on with every task it has begun, so a task's own steps are
weakly fair, and so is the passing of time. In the dashboard the browser polls as long as the
page is there (`REFETCH_INTERVAL_MS` in `lib/query-client.ts`, `getPollInterval`), requests and
fetches are answered or fail, and loaders go on. What users, backends and failures do is not
fair: nothing says that they do anything. In the frame only loaders are fair: the router
settles whatever mutations and timers do.

**The finding.** `jobs_two_sockets` checks what a document says: an event that was sent before
the one with the finished execution, and arrives after it over another socket, replaces the
timestamps by its own, so the next report is a first report again. With one socket per job
this cannot happen, which is the theorem `BilledOnce`.

**Conditions.** The conditions under which the passing runs hold are part of what they show.
Without them TLC finds these, most of which are also among the hazards:

* an upload that times out is treated as one that was refused, though the backend may have
  taken it (`services/jobs/submission.py:83` says that it "never took it");
* after an outage as long as `CONNECTION_TTL_SECONDS` an open websocket has no record:
  a renewal does not make a lapsed one again;
* with two requests at a time on a shared project, a removal writes the list without a member
  who has become the admin (`AdminIsMember`), a token is inserted after the revocation
  (`TokensOfMembers`), and a user added since the read is dropped untold (`StandingIsTold`);
* a notice that cannot be written is logged and nobody is told: `StandingIsTold` excuses those
  whose own notice it was (`unheard`), as `GoneIsKept` does the project whose process died
  between deletion and copy (`orphans`);
* with two approvers at a time, the later decision overwrites the earlier, what is asked may be
  done twice (`DoneOnce`), a request is decided before its prompts are created
  (`PromptsCleared`), and where projects are closed meanwhile an approved request was
  not done (`ApprovedIsDone`);
* a personal project that is deleted, made again by a login and deleted again keeps no copy of
  its second life: it has the id of the first, whose copy is there, so the insertion fails after
  the project is gone. `delete_project` promises "keeping a copy among the deleted ones"
  (`services/auth/projects/service.py:233`); `GoneIsKept` is about the projects that were made
  once, as every shared one is;
* `SentOnce` excludes crashes, failed calls to the database and slow processes, after each of
  which an email may be sent again, and the emails that were accepted with an error for their
  result (`disowned`), which are sent again as long as they may be retried;
* a failed fetch replaces the pages of bookings, lists and runs, and the control panel, by an
  error, and nothing polls until the user retries (`throwOnError`): both
  `Converges`, `FinalIsShown` and `PanelConverges` end there;
* a booking that has started is moved by dragging it, as `isBookingEditable` is asked of its
  new start, though its comment says "until it starts" (`bookings-calendar/index.tsx:194`);
* "Submit again" on the run page begins a second submission while one is pending;
* `PickedStays` is about rows picked after the answer came: one picked between the click and
  the answer is cleared with it;
* opening the panel of notifications fetches nothing, though a comment says that the list
  "refetches when the panel opens" (`lib/api/notices.ts:67`): its query belongs to the bell,
  which stays mounted;
* an email switch that is saved while an older fetch of the switches is in flight goes back
  when that is answered, as `setQueryData` does not cancel it and nothing polls;
  `SwitchesAreSaved` excludes this (`overlapped`);
* `OutIsOut` excludes what is gone to, selected or asked for while the logout is under way
  (`touched`): a page that is loaded then caches the user again, and Back opens it.

## 4. The proofs

Every theorem is of the form `Spec => []P`, but for a refinement and an action property. An
invariant is seldom inductive as the run checks it: it says nothing of the tasks that have read
and not yet written, of the handlers that are about to charge, or of the answers on their way.
Each proof strengthens it by exactly that. TLC found every strengthened invariant true, on the
instances of the runs, before it was proved. The only assumptions are those that the modules
state about their constants, which TLC evaluates in the runs: bounds are numbers, the sets of
tasks and notices that are counted are finite, a model value such as `None` is none of the
records, there is a type of notices that may be emailed, the pages are some of the seven. Four theorems have a hypothesis more,
`OneSocketPerJob` or `RecordsOutlast`, which the text names.

**Billing.** `BillingProofs` proves about `Jobs`, for any sets of jobs,
projects, sockets and requests, any usage, threshold and bounds (`JobsAssumption`):

* `TypeCorrect`: `Spec => []TypeOK`. `TasksOK` is part of it: a task has the job and the
  project that its place needs.
* `BilledOnce`: if the events of each job come over one socket (`OneSocketPerJob`),
  `BilledAtMostOnce`, whatever crashes, breaks or times out. `BillingInv` adds why a second
  charge never starts: a job id is given out once and is unknown to backends while the job is
  created (`CreationInv`); a job's frames are on its own socket, and after one that reports the
  end of the execution none takes it back (`FramesInv`); a stored duration is therefore not
  taken back (`TimedInv`); and a job that was charged, or that a handler is about to charge, is
  recorded with its duration, and by one handler only (`PaidInv`), so `IsFirstReport` is false
  for it.
* `BillingImplementsLedger`: under the same assumption `Spec => LedgerSpec`. Each action either
  leaves the balances and the paid jobs alone, or is a payment, a top-up or a closing
  (`LedgerStep`); that a payment is of a job not paid before is `PaidInv`.
* `NoRunIsFree`: `RecordedDurationIsBilled`, over any sockets. `UsageInv` follows a handler
  from the write of the duration to the charge (`HandlerInv`).
* `MembersAreAlertedOnce`: `DepletedAlertOnce`, over any sockets. `AlertsInv` counts the alerts
  sent and those that handlers are about to send: a charge that takes a balance across zero adds
  one, and only a top-up lets it cross again.
* `StatusesSettle`: with `OneSocketPerJob`, `SettledStatus`. `LatestInv`: as long as nothing
  failed, the last frame of a job has its backend's status, and a job without frames has it
  stored. It needs no exception for answers that time out, so the property has none.

**Devices.** `DevicesProofs`, for any websockets, devices and processes: `DevicesTypeCorrect`,
and `OpenSocketsAreRecorded`, that is `OpenIsRecorded`, if `RecordsOutlast` (failures, missed
renewals included, are fewer than the intervals a record lasts, less one). `RecordsOK` is the
arithmetic of it: what a record has left, the failures so far and the interval under way are
together no less than a lifespan. `HeldOK` says that a process with a websocket has a
refresher. Without the hypothesis the property is false, see section 3.

**Projects and tokens.** `ProjectsProofs`, for any projects, users and finite number of requests
at a time (`ProjectsAssumption`):

* `ProjectsTypeCorrect`; `DeletedIsKept` (`GoneIsKept`); and `AllowanceIsGivenOnce`
  (`AllowanceOnce`), with any number of requests at a time, lost ones included; of those,
  `DeletedIsKept` excuses only the one that held the copy of that very project. What a request
  that is to insert a copy has read is a life that the project had, and while there was one life
  it is that one. `Allowances` counts the deletions under way (`Deleting`) against the creations they will allow.
* `AdminsAreMembers`, `TokensAreOfMembers` and `FormerMembersAreTold`, with one request at a
  time (`OneAtATime`, in the properties themselves), as TLC finds them violated otherwise; lost
  requests and lost notices included, of which `FormerMembersAreTold` excuses only those whose
  own notice was lost.
  `AloneOK` says what the one request has read and is about to write, and that it revokes the
  tokens before it writes the members; that order is why `TokensOfMembers` holds at every point
  of a request and not only between requests.

**Requests.** `RequestsProofs`, for any requests, users and projects: `RequestsTypeCorrect`;
`ApprovedRequestsAreDone` (`ApprovedIsDone`) with any number of API requests at a time, lost ones
included, where projects are not closed meanwhile (`Undisturbed`): who is about to record an
approval has done what was asked (`ActOK`); `RequestsAreDoneOnce` (`DoneOnce`) and
`PromptsAreCleared` (`PromptsCleared`) with one at a time and none lost, from `OnceOK` and
`AskedOK`, which except the request that is being recorded and the prompts that are being cleared.

**Emails.** `RequestsProofs`, for any processes and any finite set of notices:
`EmailsTypeCorrect`; `AttemptsAreBounded` (`AttemptsBounded`), from `Budget`, which adds to the
attempts of a notice those that will be made if nothing else fails: a crash, a failed call or a
slow process adds one each; `EmailsAreSentOnce` (`SentOnce`), from `CalmOK`: while no process,
call or claim has failed, a notice is held by one process from its claim to its outcome, and one
that was sent is settled then, or `disowned`.

**Bookings.** `CalendarProofs`, for any finite set of operations at once and any bounds
(`CalendarAssumption`):

* `CalendarTypeCorrect`, from `Typed`, which adds that no more was granted than ids were given
  out.
* `BookingsOneForOne` (`OneForOne`). `BookingsInv` counts the updates that have cancelled a
  booking and not yet made it again (`Owed`): the bookings and those that are owed are no more
  than were granted. A cancellation that succeeds takes away at least the booking that its
  operation owes from then on (`CancelOwes`); a creation is either granted or owed
  (`CreateOwes`); every other step owes no more.
* `SavedBookingsAreShown` (`SavedIsShown`). `ShownInv` says of each operation that the answer on
  its way, too, is from after its change (`OpShown`), and that ids are not used again
  (`IdsKnown`), so what was discarded stays away.

**Lists.** `PagesProofs`, for any of the seven pages, any number of rows and any bounds
(`ListAssumption`), from one invariant, `ListInv`:

* `ListTypeCorrect`. It needs an account of versions: `VersionsOK` counts those of a row against
  the changes by others and the mutations that MSS has handled, so that no bound is passed.
* `TypedValuesAreOfTheRow` (`TypedIsOfRow`), from `FormOK`: whatever is picked, refetched or
  deleted, the form is of the row in the sidebar and of the version that the table has of it.
* `ClosedRowsAreGone` (`ClosedIsGone`). `RowOK` follows a mutation: the row it has closed stays
  closed in MSS, an answer to a fetch that shows it has it closed, and once that fetch is over
  so has the table. The page that makes closed rows anew closes none (`PageFacts`).
* `PickedRowsStay` (`PickedStays`), an action property: of all steps, only those that the
  property names take a row out of the sidebar. It needs the types only.

**Run page.** `PagesProofs`, for any number of submissions and jobs (`RunAssumption`):
`RunPageTypeCorrect`, and `ErrorsNameTheDraft` (`ErrorsAreOfDraft`), from `ShownIsOfDraft`: it is
not enough that a submission which failed is of the draft; one that is pending has to be, too,
as its answer may come after any edit.

**Control panel.** `PanelProofs`, for any devices and bounds and any number of notices:

* `PanelTypeCorrect`. That MSS has a notice for every page up to their number is an induction over
  pages (`NthOf`, from the least one without). That the page and the timestamp stay in range is an
  account of what the admin has done (`Counted`).
* `PostedNoticesAreCounted` (`PostedIsCounted`), from `PostOK`: a posted notice that had started
  when the post was answered had started at the timestamp in the key of the count, and a count of
  that timestamp has it, on its way or shown, as long as it is in force.
* `StartedRunsAreKnown` (`StartedIsKnown`). `KnownOK`: what a card shows of a device is no later
  than the answer on its way, and that no later than MSS. `RunOK` follows a recalibration into
  the fetch that its mutation awaits; a first fetch, which `invalidateQueries` joins, may have
  been answered before it, and is excepted.

**Session and router.** `FrameProofs`, for any projects and bounds:

* `SessionTypeCorrect`, and with the other parts `FrameTypeCorrect`.
* `PagesAreOfTheSelection` (`LoadedIsSelected`), with `Loading`: a loading that goes on began
  with the present selection, as a selection restarts it.
* `SelectionsAreKept` (`SelectionKept`), an action property: of all the steps of loaders, that
  of a stray included, none replaces a selection.
* `LoggedOutIsOut` (`OutIsOut`). `Leaving` is what holds while the request to log out is under
  way: the store is empty, and a loader that is loading already knew the user or will not cache
  them. `Gone` is what holds after it: no cookie, no cached user, no loading beyond its first
  stage.

**Notifications.** `FrameProofs`, for any notices, types and bounds: `ReadNoticesAreGone`
(`DismissedIsGone`), from `Marks`: what was marked is not unread again, and neither the lists
whose fetches a reaction has begun and awaited, nor the answers on their way to them, have it;
and `SwitchesAreAsSaved` (`SwitchesAreSaved`), from `SwitchesOK`: one switch is saved at a time
and its hook shows it until then, and what the switches show, or the answer on its way will, is
what MSS has, unless something is being saved or was overtaken.

**Toasts.** `FrameProofs`, for any limit: `OpenToastsStay` (`OpenToastStays`), an action property.
`ToastsInv`: the newest toast is first, so no two have an id and a timer takes out no other than
its own; and no timer is set for a toast that is open.

**Only model-checked** is liveness (`FinishedRunIsBilled`, `FlagsConverge`, `EmailsSettle`,
`RequesterTold`, `FinalIsShown`, `Settles`, the three that converge): it rests on fairness, and
on which steps are enabled, about which this prover cannot reason.

## 5. What is not modelled, and the plan

Not modelled: migrations (offline), signing and encryption, texts and layouts, forwards to
backends that keep no state in MSS; in the dashboard the home page and the charts of devices,
which show polled queries and have no operations, the presentational components and the
generated types. In the pages of lists a token's expiry, which turns the button for its
lifespan off, and the order of rows are left out; in the toasts `update` and dismissing all at
once, which nothing calls; on the device page a calibration that is first made while the page
is open, whose query stays disabled.

Next, in this order:

1. `Calibrations` and handshakes: the two writes of `create_calibration` against events
   that arrive late; a nonce's expiry against the age of its timestamp.
2. `Notices` on the server's side: broadcasts, clearing by reference and the merge of email
   preferences.
3. Sign-in: finding, linking and creating the user of an OAuth account in two logins at
   the same time.
4. The composition of `Requests` and `Projects`, and of `Projects` with the QPU seconds
   of `Jobs`: a superuser's edit against increments, transfers against pending requests.
