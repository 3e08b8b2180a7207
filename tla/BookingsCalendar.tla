--------------------------- MODULE BookingsCalendar ---------------------------
(***************************************************************************)
(* The bookings of a device, as its page in the dashboard shows, makes,    *)
(* edits, moves and discards them.  An edit or a move is two requests to   *)
(* the backend, a cancellation and a creation, and nothing stops users     *)
(* from starting several operations at once.  The backend, which MSS only  *)
(* forwards to, is modelled from how the dashboard uses it.                *)
(***************************************************************************)
EXTENDS Integers, FiniteSets, Query

CONSTANTS
    Drag,        \* operations begun on the calendar itself: moves and discards
    IsAdmin,     \* whether the user is an admin
    MaxTime,     \* the time at which the instance ends
    MaxId,       \* how many bookings there may ever be
    MaxOps,      \* how many operations users begin
    MaxFailures  \* how many requests or fetches fail, or lose their answer

ASSUME CalendarAssumption ==
    /\ IsFiniteSet(Drag) /\ Drag \cap {"create", "edit"} = {}
    /\ IsAdmin \in BOOLEAN
    /\ {MaxTime, MaxId, MaxOps, MaxFailures} \subseteq Nat /\ MaxId >= 1

VARIABLES
    now,       \* the time
    server,    \* the backend's bookings
    nextId,    \* the id of its next booking
    granted,   \* how many bookings were asked for and made, edits and moves not counted
    query,     \* the calendar's query of the bookings
    op,        \* the mutation of each operation
    form,      \* the dialogs for creating and editing: open, and since when
    current,   \* currentBooking, the booking the edit dialog is about
    begun,     \* operations begun so far
    failures,  \* failures so far
    broken     \* the page is gone: its error took its place

vars == <<now, server, nextId, granted, query, op, form, current, begun, failures, broken>>

-----------------------------------------------------------------------------
Op   == Drag \cup {"create", "edit"}
User == {"me", "other"}
Time == 0..MaxTime
Booking == [id : 1..MaxId, user : User, start : Time]
Ids(bookings) == {b.id : b \in bookings}

\* Where a mutation is: its request is sent ("cancel", "create"), handled ("cancelled",
\* "created", "failed") or not needed ("reverted"), or it waits for the refetch that its
\* onSuccess began
Stage == {"idle", "cancel", "cancelled", "create", "created", "failed", "reverted",
          "refreshing", "refreshed"}
NoOp == [stage |-> "idle", id |-> 0, start |-> 0, discards |-> FALSE, shows |-> FALSE]
\* A dialog that is closed, its fields reset
ClosedForm == [open |-> FALSE, since |-> 0]

\* A type invariant: every variable of the calendar is of its type.
TypeOK ==
    /\ now \in Time
    /\ server \subseteq Booking
    /\ nextId \in 1..(MaxId + 1)
    /\ granted \in 0..MaxId
    /\ query \in QueryOf(SUBSET Booking)
    /\ op \in [Op -> [stage : Stage, id : 0..MaxId, start : Time,
                      discards : BOOLEAN, shows : BOOLEAN]]
    /\ form \in [{"create", "edit"} -> [open : BOOLEAN, since : Time]]
    /\ current \in 0..MaxId
    /\ begun \in 0..MaxOps
    /\ failures \in 0..MaxFailures
    /\ broken \in BOOLEAN

\* The page opens with a booking of the user's on the backend, and the first fetch of the
\* bookings, which no loader awaits, in flight
Init ==
    /\ now = 0
    /\ \E t \in Time : server = {[id |-> 1, user |-> "me", start |-> t]}
    /\ nextId = 2
    /\ granted = 1
    /\ query = Refetch(NewQuery({}))
    /\ op = [o \in Op |-> NoOp]
    /\ form = [f \in {"create", "edit"} |-> ClosedForm]
    /\ current = 0
    /\ begun = 0
    /\ failures = 0
    /\ broken = FALSE

-----------------------------------------------------------------------------
\* The user

\* A booking is editable by its owner or an admin, until `start`, which is its own, or
\* the one it is being moved to
isBookingEditable(b, start) == start >= now /\ (b.user = "me" \/ IsAdmin)

\* What a booking on the calendar offers in its popover: Edit and Discard, if it is editable
BookingEventContent(b) == b \in query.data /\ isBookingEditable(b, b.start)

Begins(o, stage, id, start, discards) ==
    /\ begun < MaxOps
    /\ begun' = begun + 1
    /\ op[o].stage = "idle"
    /\ op' = [op EXCEPT ![o] = [stage |-> stage, id |-> id, start |-> start,
                                discards |-> discards, shows |-> FALSE]]

\* A booking's "Discard": nothing waits for an earlier discard
handleBookingCancel(o, b) ==
    /\ o \in Drag
    /\ BookingEventContent(b)
    /\ Begins(o, "cancel", b.id, b.start, TRUE)
    /\ UNCHANGED <<now, server, nextId, granted, query, form, current, failures, broken>>

\* A booking is dragged to another time, whose editability is that of the new time; one
\* that is not editable is put back, by a mutation that succeeds without a request
bookingMove(o, b, t) ==
    /\ o \in Drag /\ b \in query.data /\ t # b.start
    /\ Begins(o, IF isBookingEditable(b, t) THEN "cancel" ELSE "reverted", b.id, t, FALSE)
    /\ UNCHANGED <<now, server, nextId, granted, query, form, current, failures, broken>>

\* An empty slot is clicked: the dialog for a new booking opens
handleDateClick ==
    /\ ~form["create"].open /\ ~form["edit"].open
    /\ form' = [form EXCEPT !["create"] = [open |-> TRUE, since |-> now]]
    /\ UNCHANGED <<now, server, nextId, granted, query, op, current, begun, failures, broken>>

\* A booking's "Edit": the one dialog for editing opens for it
handleBookingEdit(b) ==
    /\ ~form["create"].open /\ ~form["edit"].open
    /\ BookingEventContent(b)
    /\ current' = b.id
    /\ form' = [form EXCEPT !["edit"] = [open |-> TRUE, since |-> now]]
    /\ UNCHANGED <<now, server, nextId, granted, query, op, begun, failures, broken>>

\* A dialog's Save is off while its mutation is pending
CanSave(f) == form[f].open /\ op[f].stage = "idle"

\* "date must be in future", of when the dialog was last drawn
formSchema(f, t) == t >= form[f].since

\* A dialog is saved: a creation, or the cancellation that an edit begins with
submitForm(f, t) ==
    /\ CanSave(f) /\ formSchema(f, t)
    /\ CASE f = "create" -> Begins("create", "create", 0, t, FALSE)
         [] f = "edit"   -> Begins("edit", "cancel", current, t, FALSE)
    /\ UNCHANGED <<now, server, nextId, granted, query, form, current, failures, broken>>

\* A dialog is closed by its X, which is never off, or by its Cancel
handleOpenChange(f) ==
    /\ form[f].open
    /\ form' = [form EXCEPT ![f] = ClosedForm]
    /\ UNCHANGED <<now, server, nextId, granted, query, op, current, begun, failures, broken>>

-----------------------------------------------------------------------------
\* The backend, and other users of it

\* The backend handles a cancellation: of a booking it has, or it refuses
cancelBooking(o) ==
    /\ op[o].stage = "cancel"
    /\ \/ /\ op[o].id \in Ids(server)
          /\ server' = {b \in server : b.id # op[o].id}
          /\ op' = [op EXCEPT ![o].stage = "cancelled"]
          /\ UNCHANGED failures
       \/ /\ op[o].id \notin Ids(server)
          /\ op' = [op EXCEPT ![o].stage = "failed"]
          /\ UNCHANGED <<server, failures>>
    /\ UNCHANGED <<now, nextId, granted, query, form, current, begun, broken>>

\* The backend handles a creation: of a time that is free, or it refuses
createNewBooking(o) ==
    /\ op[o].stage = "create"
    /\ nextId <= MaxId
    /\ LET taken == \E b \in server : b.start = op[o].start
       IN  /\ op' = [op EXCEPT ![o].stage = IF taken THEN "failed" ELSE "created",
                               ![o].id = IF taken THEN @ ELSE nextId]
           /\ server' = IF taken THEN server
                        ELSE server \cup {[id |-> nextId, user |-> "me", start |-> op[o].start]}
           /\ nextId' = IF taken THEN nextId ELSE nextId + 1
           /\ granted' = IF ~taken /\ o = "create" THEN granted + 1 ELSE granted
    /\ UNCHANGED <<now, query, form, current, begun, failures, broken>>

\* A request fails before the backend has handled it, or its answer is lost after
requestFails(o) ==
    /\ failures < MaxFailures
    /\ op[o].stage \in {"cancel", "create", "cancelled", "created"}
    /\ failures' = failures + 1
    /\ op' = [op EXCEPT ![o].stage = "failed"]
    /\ UNCHANGED <<now, server, nextId, granted, query, form, current, begun, broken>>

\* Another user makes a booking
otherBooks(t) ==
    /\ begun < MaxOps /\ nextId <= MaxId
    /\ begun' = begun + 1
    /\ t >= now /\ \A b \in server : b.start # t
    /\ server' = server \cup {[id |-> nextId, user |-> "other", start |-> t]}
    /\ nextId' = nextId + 1
    /\ granted' = granted + 1
    /\ UNCHANGED <<now, query, op, form, current, failures, broken>>

-----------------------------------------------------------------------------
\* The mutations' answers

\* Mutant: what the backend answers to a cancellation is not looked at
UpdateWhateverIsAnswered(o) ==
    /\ op[o].stage \in {"cancelled", "failed"} /\ ~op[o].discards /\ o # "create"
    /\ op' = [op EXCEPT ![o].stage = "create"]
    /\ UNCHANGED <<now, server, nextId, granted, query, form, current, begun, failures, broken>>

\* updateBooking goes on to the creation when the cancellation was a success
updateBooking(o) ==
    /\ op[o].stage = "cancelled" /\ ~op[o].discards
    /\ op' = [op EXCEPT ![o].stage = "create"]
    /\ UNCHANGED <<now, server, nextId, granted, query, form, current, begun, failures, broken>>

\* Those who waited for a fetch that was dropped or has failed wait no longer
Released(ops) ==
    [o \in Op |-> IF ops[o].stage = "refreshing" THEN [ops[o] EXCEPT !.stage = "refreshed",
                                                                     !.shows = FALSE]
                  ELSE ops[o]]

\* A mutationFn has returned: what it was to do is done
Succeeded(o) ==
    op[o].stage \in {"created", "reverted"} \/ (op[o].stage = "cancelled" /\ op[o].discards)

\* Mutant: a poll or a fetch in flight will do
JoinsFetch(o) ==
    /\ Succeeded(o) /\ ~broken
    /\ query' = Refetch(query)
    /\ op' = [op EXCEPT ![o].stage = "refreshing", ![o].shows = TRUE]
    /\ UNCHANGED <<now, server, nextId, granted, form, current, begun, failures, broken>>

\* onSuccess invalidates the bookings and awaits the refetch; only then does it end.
\* `shows` says that the fetch it awaits is its own.  A query that no page shows any longer
\* is not fetched
refreshBookingsQueries(o) ==
    /\ Succeeded(o)
    /\ \/ /\ ~broken
          /\ query' = Invalidate(query)
          /\ op' = [(IF JoinsFirstFetch(query) THEN op ELSE Released(op))
                       EXCEPT ![o].stage = "refreshing", ![o].shows = ~JoinsFirstFetch(query)]
       \/ /\ broken
          /\ op' = [op EXCEPT ![o].stage = "refreshed", ![o].shows = FALSE]
          /\ UNCHANGED query
    /\ UNCHANGED <<now, server, nextId, granted, form, current, begun, failures, broken>>

\* The end of a mutation's onSuccess: a toast; an edit makes its new booking the current
\* one, and a dialog closes, whatever it has been opened for since
onSuccess(o) ==
    /\ op[o].stage = "refreshed"
    /\ op' = [op EXCEPT ![o] = NoOp]
    /\ form' = IF o \in Drag THEN form ELSE [form EXCEPT ![o] = ClosedForm]
    /\ current' = IF o = "edit" THEN op[o].id ELSE current
    /\ UNCHANGED <<now, server, nextId, granted, query, begun, failures, broken>>

\* A mutation fails: the error is shown, its dialog closes, and nothing is fetched again
onError(o) ==
    /\ op[o].stage = "failed"
    /\ op' = [op EXCEPT ![o] = NoOp]
    /\ form' = IF o \in Drag THEN form ELSE [form EXCEPT ![o] = ClosedForm]
    /\ UNCHANGED <<now, server, nextId, granted, query, current, begun, failures, broken>>

-----------------------------------------------------------------------------
\* The query

\* Mutant: the polling ends with the first answer
PollsUntilLoaded ==
    /\ query.fetch = "idle" /\ ~query.has /\ ~broken
    /\ query' = Refetch(query)
    /\ UNCHANGED <<now, server, nextId, granted, op, form, current, begun, failures, broken>>

\* The bookings are fetched again every REFETCH_INTERVAL_MS
poll ==
    /\ query.fetch = "idle" /\ ~broken
    /\ query' = Refetch(query)
    /\ UNCHANGED <<now, server, nextId, granted, op, form, current, begun, failures, broken>>

\* MSS forwards getBookings, and the backend answers
getBookings ==
    /\ query.fetch = "sent"
    /\ query' = Answer(query, server)
    /\ UNCHANGED <<now, server, nextId, granted, op, form, current, begun, failures, broken>>

fetchArrives ==
    /\ query.fetch = "answered"
    /\ query' = Applied(query)
    /\ op' = [o \in Op |-> IF op[o].stage = "refreshing" THEN [op[o] EXCEPT !.stage = "refreshed"]
                           ELSE op[o]]
    /\ UNCHANGED <<now, server, nextId, granted, form, current, begun, failures, broken>>

\* A failed fetch is thrown (throwOnError): the page's error takes its place, and a visit
\* after it begins as at first
fetchFails ==
    /\ failures < MaxFailures
    /\ query.fetch # "idle"
    /\ failures' = failures + 1
    /\ broken' = TRUE
    /\ query' = Dropped(query)
    /\ op' = Released(op)
    /\ UNCHANGED <<now, server, nextId, granted, form, current, begun>>

tick ==
    /\ now < MaxTime
    /\ now' = now + 1
    /\ UNCHANGED <<server, nextId, granted, query, op, form, current, begun, failures, broken>>

-----------------------------------------------------------------------------
UserStep ==
    /\ ~broken
    /\ \/ \E o \in Drag, b \in query.data : handleBookingCancel(o, b)
       \/ \E o \in Drag, b \in query.data, t \in Time : bookingMove(o, b, t)
       \/ handleDateClick
       \/ \E b \in query.data : handleBookingEdit(b)
       \/ \E f \in {"create", "edit"}, t \in Time : submitForm(f, t)
       \/ \E f \in {"create", "edit"} : handleOpenChange(f)

AnswerStep(o) == cancelBooking(o) \/ createNewBooking(o) \/ updateBooking(o)
                 \/ refreshBookingsQueries(o) \/ onSuccess(o) \/ onError(o)

FetchStep == getBookings \/ fetchArrives

Next ==
    \/ UserStep
    \/ \E o \in Op : AnswerStep(o) \/ requestFails(o)
    \/ \E t \in Time : otherBooks(t)
    \/ poll \/ FetchStep \/ fetchFails
    \/ tick

\* The browser polls as long as the page is open, and requests are answered or fail
Fairness == WF_vars(poll) /\ WF_vars(FetchStep) /\ \A o \in Op : WF_vars(AnswerStep(o))

Spec == Init /\ [][Next]_vars /\ Fairness

-----------------------------------------------------------------------------
\* However many edits and moves of a booking overlap, whatever fails and whichever answers
\* are lost, they never leave more bookings than were asked for: a creation by
\* updateBooking follows a cancellation that the backend reports as a success.
OneForOne == Cardinality(server) <= granted

\* When the toast says that a booking was saved or discarded, the calendar shows it so,
\* if the refetch that the mutation began was answered: an earlier fetch in flight, whose
\* answer may be older than the booking, is not what it shows.
SavedIsShown ==
    \A o \in Op : op[o].stage = "refreshed" /\ op[o].shows =>
        IF op[o].discards THEN op[o].id \notin Ids(query.data)
        ELSE op[o].id \in Ids(query.data) \/ op[o].id \notin Ids(server)

\* Failed operations fetch nothing, but polls do: the calendar ends with the bookings that
\* the backend has, unless a failed fetch has ended it.
Converges == <>[](broken \/ (query.has /\ query.data = server))
=============================================================================
