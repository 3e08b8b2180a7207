------------------------------- MODULE ListPage -------------------------------
(***************************************************************************)
(* The dashboard's pages that list projects, tokens or requests: a table,  *)
(* a sidebar for the row that is picked, and operations that change a row  *)
(* or take it off the list, while the table is fetched again and others    *)
(* change the same rows.  The sidebar is one component for every row: it   *)
(* is mounted for the first row picked and stays until none is.            *)
(***************************************************************************)
EXTENDS Integers, FiniteSets, Sequences, Query

CONSTANTS
    Pages,       \* the pages of the instance
    Row,         \* the ids of rows
    FirstRows,   \* the rows there are when the page is opened
    Own,         \* the rows that only an admin of a project has buttons on, and the user is one
    Filtered,    \* the rows that the filter of the instance leaves out
    MaxMuts,     \* how many operations the user begins
    MaxSteps,    \* what else the user does, counted
    MaxOthers,   \* changes by others
    MaxFailures  \* requests and fetches that fail

VARIABLES
    page,      \* the page the user is on
    server,    \* MSS's rows
    query,     \* the query of the rows
    picked,    \* rowSelection: the id that is selected, or 0
    hidden,    \* the rows that the table's filters leave out
    creating,  \* OperationMode.CREATE: the form for a new row is open
    form,      \* the sidebar's form: the row and version its values are of, and whether
               \* the user has typed
    muts,      \* the mutations that were begun
    broken,    \* an error was thrown, and stands instead of the page: there the instance ends
    steps, others, failures

vars == <<page, server, query, picked, hidden, creating, form, muts, broken, steps, others, failures>>

-----------------------------------------------------------------------------
\* The pages.  removes: what is done to close a row; inRow: a row has the buttons itself,
\* too; keeps: closed rows stay listed; edits: the sidebar is a form of the row, or has one
\* in a dialog; creates: rows are made, in place of the sidebar or in a dialog; rekeys: the
\* key of the query may change under the page
ReadOnly == [removes |-> {}, inRow |-> FALSE, keeps |-> FALSE, edits |-> "no",
             creates |-> "no", rekeys |-> FALSE]
Projects       == [ReadOnly EXCEPT !.removes = {"delete"}]
RequestDialogs == [ReadOnly EXCEPT !.creates = "dialog"]
Tokens         == [ReadOnly EXCEPT !.removes = {"delete"}, !.edits = "dialog", !.rekeys = TRUE]
AdminProjects  == [ReadOnly EXCEPT !.removes = {"delete"}, !.edits = "sidebar", !.creates = "sidebar"]
AdminRequests  == [ReadOnly EXCEPT !.removes = {"approve", "reject"}, !.inRow = TRUE, !.rekeys = TRUE]
Approvals      == [ReadOnly EXCEPT !.removes = {"approve", "reject"}, !.keeps = TRUE, !.rekeys = TRUE]
MyRequests     == [ReadOnly EXCEPT !.keeps = TRUE, !.rekeys = TRUE]

AllPages == {Projects, RequestDialogs, Tokens, AdminProjects, AdminRequests, Approvals, MyRequests}

ASSUME ListAssumption ==
    /\ Pages \subseteq AllPages
    /\ 0 \notin Row /\ FirstRows \subseteq Row /\ Own \subseteq Row /\ Filtered \subseteq Row
    /\ {MaxMuts, MaxSteps, MaxOthers, MaxFailures} \subseteq Nat

-----------------------------------------------------------------------------
MaxVersion == MaxMuts + MaxOthers
Record   == [state : {"none", "open", "closed"}, version : 0..MaxVersion]
NoRecord == [state |-> "none", version |-> 0]

\* No row, and so no form
NoForm == [row |-> 0, version |-> 0, dirty |-> FALSE]

\* A mutation: what it does, and from where; where it is; whether the component that began
\* it still shows it; and whether the fetch that it awaits is its own
Mutation ==
    [kind : {"delete", "approve", "reject", "edit", "create", "access"}, from : {"sidebar", "row"},
     row : Row \cup {0}, stage : {"sent", "handled", "refused", "refreshing", "done"},
     seen : BOOLEAN, shows : BOOLEAN]

\* A type invariant: every variable of the page is of its type.
TypeOK ==
    /\ page \in Pages
    /\ server \in [Row -> Record]
    /\ query \in QueryOf([Row -> Record])
    /\ picked \in Row \cup {0} /\ hidden \subseteq Row
    /\ {creating, broken} \subseteq BOOLEAN
    /\ form \in [row : Row \cup {0}, version : 0..MaxVersion, dirty : BOOLEAN]
    /\ \A m \in DOMAIN muts : muts[m] \in Mutation
    /\ Len(muts) <= MaxMuts
    /\ steps \in 0..MaxSteps /\ others \in 0..MaxOthers /\ failures \in 0..MaxFailures

\* What the page lists of MSS's rows
Listed(rows) ==
    [r \in Row |-> IF rows[r].state = "open" \/ (page.keeps /\ rows[r].state = "closed")
                   THEN rows[r] ELSE NoRecord]
Nothing == [r \in Row |-> NoRecord]
Has(rows, r) == r # 0 /\ rows[r].state # "none"

\* The row whose id is selected, if the table has it
findSelectedRow(rows, r) == IF r # 0 /\ rows[r].state # "none" THEN r ELSE 0

\* The row the sidebar is of; there is none while a row is being created
SidebarRow(rows, r, isCreating) == IF isCreating THEN 0 ELSE findSelectedRow(rows, r)

\* The loader has fetched what the page needs
Init ==
    /\ page \in Pages
    /\ server = [r \in Row |-> IF r \in FirstRows THEN [state |-> "open", version |-> 0]
                               ELSE NoRecord]
    /\ query = LoadedQuery(Listed(server))
    /\ picked = 0 /\ hidden = {} /\ creating = FALSE /\ broken = FALSE
    /\ form = NoForm
    /\ muts = <<>>
    /\ steps = 0 /\ others = 0 /\ failures = 0

-----------------------------------------------------------------------------
\* Rendering

\* Mutant: the form keeps the values it was mounted with
FirstValues(rows, row) ==
    IF row = 0 THEN NoForm
    ELSE IF form.row = 0 THEN [row |-> row, version |-> rows[row].version, dirty |-> FALSE]
    ELSE form

\* useForm's `values`: another row's, or those of a row that has changed, replace what was
\* typed
Values(rows, row) ==
    IF row = 0 THEN NoForm
    ELSE IF form.row = row /\ form.version = rows[row].version THEN form
    ELSE [row |-> row, version |-> rows[row].version, dirty |-> FALSE]

\* The page is drawn with these mutations, rows, selection and mode.  A component that is
\* unmounted forgets its mutation, which goes on
Draws(ms, rows, r, isCreating) ==
    LET after == SidebarRow(rows, r, isCreating)
        Stays(m) == IF m.from = "row" THEN Has(rows, m.row) /\ m.row \notin hidden
                    ELSE \/ page.creates = "dialog"
                         \/ IF m.kind = "create" THEN isCreating ELSE after # 0
    IN  /\ picked' = r
        /\ creating' = isCreating
        /\ form' = Values(rows, after)
        /\ muts' = [i \in DOMAIN ms |-> [ms[i] EXCEPT !.seen = @ /\ Stays(ms[i])]]

-----------------------------------------------------------------------------
\* The user

Does == ~broken /\ steps < MaxSteps /\ steps' = steps + 1

\* A row of the table is clicked: it is picked, and the form for a new row closes
handleRowClick(r) ==
    /\ Does
    /\ Has(query.data, r) /\ r \notin hidden /\ (r # picked \/ creating)
    /\ Draws(muts, query.data, r, FALSE)
    /\ UNCHANGED <<page, server, query, hidden, broken, others, failures>>

\* Filters are applied, or cleared: rows go from the table, and the buttons in them, but the
\* sidebar's row is looked up in all of the data
DataFilterForm(hides) ==
    /\ Does
    /\ hides # hidden
    /\ hidden' = hides
    /\ muts' = [i \in DOMAIN muts |->
                  [muts[i] EXCEPT !.seen = @ /\ (muts[i].from = "row" => muts[i].row \notin hides)]]
    /\ UNCHANGED <<page, server, query, picked, creating, form, broken, others, failures>>

\* The X of the sidebar or of the form for a new row
handleSidebarClose ==
    /\ Does
    /\ page = AdminProjects
    /\ creating \/ SidebarRow(query.data, picked, creating) # 0
    /\ Draws(muts, query.data, 0, FALSE)
    /\ UNCHANGED <<page, server, query, hidden, broken, others, failures>>

\* "New"
setModeCreate ==
    /\ Does
    /\ page.creates = "sidebar" /\ ~creating
    /\ Draws(muts, query.data, picked, TRUE)
    /\ UNCHANGED <<page, server, query, hidden, broken, others, failures>>

\* Something is typed in the form of the row
ProjectFields ==
    /\ Does
    /\ page.edits # "no" /\ form.row # 0 /\ ~form.dirty
    /\ form' = [form EXCEPT !.dirty = TRUE]
    /\ UNCHANGED <<page, server, query, picked, hidden, creating, muts, broken, others, failures>>

\* isPending, of the hooks of a component for operations of some kinds
isPending(from, kinds, r) ==
    \E i \in DOMAIN muts :
        /\ muts[i].seen /\ muts[i].kind \in kinds /\ muts[i].from = from
        /\ muts[i].stage # "done"
        /\ from = "row" => muts[i].row = r

Begins(kind, from, r) ==
    /\ ~broken /\ Len(muts) < MaxMuts
    /\ muts' = Append(muts, [kind |-> kind, from |-> from, row |-> r, stage |-> "sent",
                             seen |-> TRUE, shows |-> FALSE])
    /\ UNCHANGED <<page, server, query, picked, hidden, creating, form, broken, steps, others, failures>>

\* The sidebar's button, once it is confirmed, that closes its row
Closes(kind) ==
    LET r == SidebarRow(query.data, picked, creating)
    IN  /\ r # 0 /\ kind \in page.removes
        /\ ~isPending("sidebar", page.removes, r)
        /\ Begins(kind, "sidebar", r)

\* isDeletable: of a project that the user administers and that is not their personal one
ProjectSummary      == page = Projects /\ picked \in Own /\ Closes("delete")
TokenSummary        == page = Tokens /\ Closes("delete")
AdminProjectSummary == page = AdminProjects /\ Closes("delete")
RequestSummary(kind)  == page = AdminRequests /\ Closes(kind)
\* isDecided: there are no buttons on a request that is not pending
ApprovalSummary(kind) == page = Approvals /\ picked # 0 /\ query.data[picked].state = "open" /\ Closes(kind)

\* The same, of a button that a row has itself
RowActions(kind, r) ==
    /\ page.inRow /\ kind \in page.removes
    /\ Has(query.data, r) /\ r \notin hidden
    /\ ~isPending("row", page.removes, r)
    /\ Begins(kind, "row", r)

\* The sidebar's form is saved
projectEdit ==
    /\ page = AdminProjects /\ form.dirty
    /\ ~isPending("sidebar", {"edit"}, form.row)
    /\ Begins("edit", "sidebar", form.row)

\* The form in the dialog is saved, which closes at once, though an edit may be pending
TokenLifespanDialog ==
    /\ page = Tokens /\ form.dirty
    /\ Begins("edit", "sidebar", form.row)

\* A new row is submitted
CreateProjectForm ==
    /\ creating
    /\ ~isPending("sidebar", {"create"}, 0)
    /\ Begins("create", "sidebar", 0)

\* A request on a project, whose button is off once a pending one of its type is listed: for
\* QPU time, which only the project's admin has, or for pulse-level jobs
pendingRequest(r) == Has(query.data, r)
QpuTimeRequestDialog(r) ==
    page.creates = "dialog" /\ r \in Own /\ ~pendingRequest(r) /\ Begins("create", "sidebar", r)
PulseAccessRequestDialog(r) ==
    page.creates = "dialog" /\ r \notin Own /\ ~pendingRequest(r) /\ Begins("create", "sidebar", r)

\* A request to join a project, which is not among those that the page lists
RequestAccessDialog ==
    /\ page.creates = "dialog"
    /\ ~isPending("sidebar", {"access"}, 0)
    /\ Begins("access", "sidebar", 0)

-----------------------------------------------------------------------------
\* MSS, and others who use it

Outcome(i, stage, row) ==
    muts' = [muts EXCEPT ![i].stage = stage, ![i].row = row]

\* MSS changes a row, or refuses
Changes(i, r, state) ==
    /\ server' = [server EXCEPT ![r].state = state, ![r].version = @ + 1]
    /\ Outcome(i, "handled", r)
Refuses(i) == UNCHANGED server /\ Outcome(i, "refused", muts[i].row)

\* MSS handles approveMyRequest, rejectMyRequest or a deletion: a row that is closed, or gone,
\* cannot be closed again
approveMyRequest(i) ==
    LET r == muts[i].row
    IN  /\ muts[i].stage = "sent" /\ muts[i].kind \in page.removes
        /\ IF server[r].state = "open" THEN Changes(i, r, "closed") ELSE Refuses(i)
        /\ UNCHANGED <<page, query, picked, hidden, creating, form, broken, steps, others, failures>>

\* MSS handles updateAdminProject or updateAppToken
updateAdminProject(i) ==
    LET r == muts[i].row
    IN  /\ muts[i].stage = "sent" /\ muts[i].kind = "edit"
        /\ IF server[r].state = "open" THEN Changes(i, r, "open") ELSE Refuses(i)
        /\ UNCHANGED <<page, query, picked, hidden, creating, form, broken, steps, others, failures>>

createAdminProject(i) ==
    /\ muts[i].stage = "sent" /\ muts[i].kind = "create" /\ muts[i].row = 0
    /\ \E r \in Row : server[r].state = "none" /\ Changes(i, r, "open")
    /\ UNCHANGED <<page, query, picked, hidden, creating, form, broken, steps, others, failures>>

\* A second request of a type on a project is another record; the page needs one of them
requestQpuTimeExtension(i) ==
    LET r == muts[i].row
    IN  /\ muts[i].stage = "sent" /\ muts[i].kind = "create" /\ r # 0
        /\ IF server[r].state # "open" THEN Changes(i, r, "open")
           ELSE UNCHANGED server /\ Outcome(i, "handled", r)
        /\ UNCHANGED <<page, query, picked, hidden, creating, form, broken, steps, others, failures>>

\* There may be no such project
requestProjectAccess(i) ==
    /\ muts[i].stage = "sent" /\ muts[i].kind = "access"
    /\ Refuses(i) \/ (UNCHANGED server /\ Outcome(i, "handled", 0))
    /\ UNCHANGED <<page, query, picked, hidden, creating, form, broken, steps, others, failures>>

\* A request fails, or its answer is lost
requestFails(i) ==
    /\ ~broken /\ failures < MaxFailures
    /\ muts[i].stage \in {"sent", "handled"}
    /\ failures' = failures + 1
    /\ Outcome(i, "refused", muts[i].row)
    /\ UNCHANGED <<page, server, query, picked, hidden, creating, form, broken, steps, others>>

\* A job takes QPU seconds of a project, or another admin or approver edits or closes a row
otherChanges(r, state) ==
    /\ ~broken /\ others < MaxOthers
    /\ others' = others + 1
    /\ server[r].state = "open"
    /\ server' = [server EXCEPT ![r].state = state, ![r].version = @ + 1]
    /\ UNCHANGED <<page, query, picked, hidden, creating, form, muts, broken, steps, failures>>

-----------------------------------------------------------------------------
\* The mutations' answers

\* A fetch that was dropped or has failed is awaited no longer
Released(ms) ==
    [i \in DOMAIN ms |-> IF ms[i].stage = "refreshing"
                         THEN [ms[i] EXCEPT !.stage = "done", !.shows = FALSE] ELSE ms[i]]

Refreshing(i) ==
    [(IF JoinsFirstFetch(query) THEN muts ELSE Released(muts))
        EXCEPT ![i].stage = "refreshing", ![i].shows = ~JoinsFirstFetch(query)]

\* The parent's callback: the selection is cleared after a row was closed, and the form for
\* a new row closes too
Callback(ms, m, rows) ==
    IF m.from = "row" \/ m.kind = "edit" \/ page.creates = "dialog"
    THEN Draws(ms, rows, picked, creating /\ m.kind # "edit")
    ELSE Draws(ms, rows, 0, creating /\ m.kind # "create")

\* Mutant: a poll or a fetch in flight will do
onSuccessJoins(i) ==
    /\ muts[i].stage = "handled"
    /\ query' = Refetch(query)
    /\ Callback([muts EXCEPT ![i].stage = "refreshing", ![i].shows = TRUE], muts[i], query.data)
    /\ UNCHANGED <<page, server, hidden, broken, steps, others, failures>>

\* A mutation succeeds: the parent is called before the list is invalidated, and only the
\* dialog for a token's lifespan does not await the refetch
onSuccess(i) ==
    /\ muts[i].stage = "handled"
    /\ query' = Invalidate(query)
    /\ LET ms == Refreshing(i)
       IN  Callback(IF page = Tokens /\ muts[i].kind = "edit"
                    THEN [ms EXCEPT ![i].stage = "done", ![i].shows = FALSE] ELSE ms,
                    muts[i], query.data)
    /\ UNCHANGED <<page, server, hidden, broken, steps, others, failures>>

\* throwOnError: the page gives way to the error, if the component still shows the mutation;
\* only the dialog for access shows it itself
onError(i) ==
    /\ muts[i].stage = "refused"
    /\ muts' = [muts EXCEPT ![i].stage = "done"]
    /\ broken' = (muts[i].seen /\ muts[i].kind # "access")
    /\ UNCHANGED <<page, server, query, picked, hidden, creating, form, steps, others, failures>>

-----------------------------------------------------------------------------
\* The query

\* Mutant: the list is fetched again only after the user's own operations
pollsNever ==
    /\ FALSE
    /\ UNCHANGED vars

\* The rows are fetched again every REFETCH_INTERVAL_MS
poll ==
    /\ ~broken /\ query.fetch = "idle"
    /\ query' = Refetch(query)
    /\ UNCHANGED <<page, server, picked, hidden, creating, form, muts, broken, steps, others, failures>>

getRows ==
    /\ ~broken /\ query.fetch = "sent"
    /\ query' = Answer(query, Listed(server))
    /\ UNCHANGED <<page, server, picked, hidden, creating, form, muts, broken, steps, others, failures>>

\* Mutant: the parent is called when the refetch has ended
rowsArriveThenCallback ==
    /\ ~broken /\ query.fetch = "answered"
    /\ query' = Applied(query)
    /\ Draws([i \in DOMAIN muts |-> IF muts[i].stage = "refreshing" THEN [muts[i] EXCEPT !.stage = "done"]
                                    ELSE muts[i]],
             query.answer,
             IF \E i \in DOMAIN muts : muts[i].stage = "refreshing" /\ muts[i].kind \in page.removes
             THEN 0 ELSE picked, creating)
    /\ UNCHANGED <<page, server, hidden, broken, steps, others, failures>>

\* The table is drawn with the rows of the answer, and the sidebar with its row among them
rowsArrive ==
    /\ ~broken /\ query.fetch = "answered"
    /\ query' = Applied(query)
    /\ Draws([i \in DOMAIN muts |-> IF muts[i].stage = "refreshing" THEN [muts[i] EXCEPT !.stage = "done"]
                                    ELSE muts[i]],
             query.answer, picked, creating)
    /\ UNCHANGED <<page, server, hidden, broken, steps, others, failures>>

\* throwOnError, of a query: a fetch that fails breaks the page, though there are rows
fetchFails ==
    /\ ~broken /\ failures < MaxFailures /\ query.fetch # "idle"
    /\ failures' = failures + 1
    /\ broken' = TRUE
    /\ query' = Dropped(query)
    /\ muts' = Released(muts)
    /\ UNCHANGED <<page, server, picked, hidden, creating, form, steps, others>>

\* The projects in a query's key change, and there are no rows until the first answer of the
\* new query; a token's project is changed by its user, its rows are loaded first, and the
\* selection is cleared
rekey ==
    /\ ~broken /\ page.rekeys /\ others < MaxOthers
    /\ others' = others + 1
    /\ IF page = Tokens
       THEN /\ query' = Refetch(LoadedQuery(Listed(server)))
            /\ Draws(Released(muts), Listed(server), 0, creating)
       ELSE /\ query' = Refetch(NewQuery(Nothing))
            /\ Draws(Released(muts), Nothing, picked, creating)
    /\ UNCHANGED <<page, server, hidden, broken, steps, failures>>

-----------------------------------------------------------------------------
UserStep ==
    \/ \E r \in Row : handleRowClick(r) \/ QpuTimeRequestDialog(r) \/ PulseAccessRequestDialog(r)
    \/ \E hides \in {{}, Filtered} : DataFilterForm(hides)
    \/ handleSidebarClose \/ setModeCreate \/ ProjectFields
    \/ ProjectSummary \/ TokenSummary \/ AdminProjectSummary
    \/ \E kind \in {"approve", "reject"} :
         RequestSummary(kind) \/ ApprovalSummary(kind) \/ \E r \in Row : RowActions(kind, r)
    \/ projectEdit \/ TokenLifespanDialog \/ CreateProjectForm \/ RequestAccessDialog

AnswerStep(i) ==
    /\ ~broken
    /\ \/ approveMyRequest(i) \/ updateAdminProject(i) \/ createAdminProject(i)
       \/ requestQpuTimeExtension(i) \/ requestProjectAccess(i)
       \/ onSuccess(i) \/ onError(i)
FetchStep     == getRows \/ rowsArrive

Next ==
    \/ UserStep
    \/ \E i \in DOMAIN muts : AnswerStep(i) \/ requestFails(i)
    \/ \E r \in Row, state \in {"open", "closed"} : otherChanges(r, state)
    \/ poll \/ FetchStep \/ fetchFails \/ rekey

\* The browser polls as long as the page is open, and requests are answered or fail
Fairness == WF_vars(poll) /\ WF_vars(FetchStep)
            /\ \A i \in 1..MaxMuts : WF_vars(i \in DOMAIN muts /\ AnswerStep(i))

Spec == Init /\ [][Next]_vars /\ Fairness

-----------------------------------------------------------------------------
\* What is typed is of the row that the sidebar shows, as it shows it: picking another row,
\* or an answer in which the row has changed, never leaves the values of one row or of one
\* time to be saved to another.
TypedIsOfRow ==
    form.dirty =>
        /\ form.row = SidebarRow(query.data, picked, creating)
        /\ form.version = query.data[form.row].version

\* When deleting, approving or rejecting has ended, the list does not offer the row again,
\* if the refetch that it awaited was its own and was answered: a fetch from before is not
\* what is shown.
ClosedIsGone ==
    \A i \in DOMAIN muts :
        muts[i].stage = "done" /\ muts[i].shows /\ muts[i].kind \in page.removes
            => query.data[muts[i].row].state # "open"

\* "before the refresh, or it would clear a row picked meanwhile": the selection is cleared
\* by the user or when an answer comes, and a row picked after that is not.
PickedStays ==
    [][picked # 0 /\ picked' = 0 =>
          \/ steps' # steps \/ (page = Tokens /\ others' # others)
          \/ \E i \in DOMAIN muts : muts[i].stage = "handled" /\ muts'[i].stage # "handled"]_vars

\* Unless the page breaks, it ends with what MSS has.
Converges == <>[](broken \/ (query.has /\ query.data = Listed(server)))
=============================================================================
