----------------------------- MODULE NoticesCard -----------------------------
(***************************************************************************)
(* The notices on the dashboard's control panel: the admin pages through   *)
(* those that are in force, one at a time, posts new ones and deletes the  *)
(* one that is shown.  Both of the card's queries have the time at which   *)
(* it last looked in their key, so that a new time is a new query.         *)
(***************************************************************************)
EXTENDS Integers, FiniteSets, Sequences, Query

CONSTANTS
    MaxNotices,  \* how many notices there may ever be
    MaxClock,    \* the time at which the instance ends
    MaxSteps,    \* how many things the admin does
    MaxFailures  \* requests and fetches that fail

ASSUME NoticesAssumption ==
    {MaxNotices, MaxClock, MaxSteps, MaxFailures} \subseteq Nat

VARIABLES
    clock,    \* the time
    notices,  \* MSS's custom notices
    stamp,    \* currentTimestamp
    page,     \* which of the notices in force is shown
    list,     \* the query of the notice on the page: its id, or 0 if there is none
    prev,     \* keepPreviousData: what the query before it had
    count,    \* the query of the count: the ids that were counted
    ops,      \* the mutations that were begun
    broken,   \* an error was thrown, and stands instead of the panel: there the instance ends
    steps, failures

noticesVars == <<clock, notices, stamp, page, list, prev, count, ops>>
panelVars   == <<broken, steps, failures>>

-----------------------------------------------------------------------------
Id == 1..MaxNotices
Notice   == [state : {"none", "live", "deleted"}, start : 0..(MaxClock + 1), expires : 0..(MaxClock + 1)]
NoNotice == [state |-> "none", start |-> 0, expires |-> 0]

\* A mutation: where it is, whether its hook shows it, whether the query it awaits is still
\* the card's, and whether the notice had started when its answer came
Operation ==
    [kind : {"post", "delete"}, id : 0..MaxNotices, stage : {"sent", "handled", "refused", "list", "count", "told"},
     seen : BOOLEAN, own : BOOLEAN, due : BOOLEAN]

NoticesTypeOK ==
    /\ clock \in 0..MaxClock /\ stamp \in 0..MaxClock
    /\ notices \in [Id -> Notice]
    /\ page \in 1..(MaxSteps + 1)
    /\ list \in QueryOf(0..MaxNotices) /\ prev \in 0..MaxNotices
    /\ count \in QueryOf(SUBSET Id)
    /\ \A i \in DOMAIN ops : ops[i] \in Operation
    /\ Len(ops) <= steps
    /\ broken \in BOOLEAN /\ steps \in 0..MaxSteps /\ failures \in 0..MaxFailures

\* The notices in force at t
InForce(t) ==
    {n \in Id : notices[n].state = "live" /\ notices[n].start <= t /\ notices[n].expires >= t}

\* The p-th of them, in the order of severity and start that ids stand for
PageOf(set, p) ==
    IF p > Cardinality(set) THEN 0
    ELSE CHOOSE n \in set : Cardinality({m \in set : m <= n}) = p

\* What the card shows: placeholder data while a query has none of its own
Shown == IF list.has THEN list.data ELSE prev

\* One notice is in force and about to expire, and one may be about to start
NoticesInit ==
    /\ clock = 0 /\ stamp = 0 /\ page = 1
    /\ \E later \in {"none", "live"} :
         notices = [n \in Id |->
             CASE n = 1 -> [state |-> "live", start |-> 0, expires |-> 0]
               [] n = 2 -> [state |-> later, start |-> 1, expires |-> MaxClock + 1]
               [] OTHER -> NoNotice]
    /\ list = Refetch(NewQuery(0)) /\ prev = 0
    /\ count = Refetch(NewQuery({}))
    /\ ops = <<>>

-----------------------------------------------------------------------------
\* The card is drawn with a new time: both queries are new and are fetched, and what was
\* awaited is of queries that the card no longer has.
refreshCurrentTimestamp(ms) ==
    /\ stamp' = clock
    /\ prev' = Shown
    /\ list' = Refetch(NewQuery(0))
    /\ count' = Refetch(NewQuery({}))
    /\ ops' = [i \in DOMAIN ms |-> [ms[i] EXCEPT !.own = FALSE]]

\* Next is off while the page's own notice has not come, and on the last page
handlePaginationNext ==
    /\ steps < MaxSteps
    /\ list.has /\ count.has /\ page < Cardinality(count.data)
    /\ steps' = steps + 1
    /\ page' = page + 1
    /\ refreshCurrentTimestamp(ops)
    /\ UNCHANGED <<clock, notices, broken, failures>>

\* Previous is off on the first page
handlePaginationPrevious ==
    /\ steps < MaxSteps
    /\ page > 1
    /\ steps' = steps + 1
    /\ page' = page - 1
    /\ refreshCurrentTimestamp(ops)
    /\ UNCHANGED <<clock, notices, broken, failures>>

\* A hook shows the last mutation that it began
NoticeBegins(kind, id) ==
    /\ steps < MaxSteps
    /\ steps' = steps + 1
    /\ ops' = Append([i \in DOMAIN ops |-> [ops[i] EXCEPT !.seen = @ /\ ops[i].kind # kind]],
                     [kind |-> kind, id |-> id, stage |-> "sent", seen |-> TRUE, own |-> TRUE,
                      due |-> FALSE])
    /\ UNCHANGED <<clock, notices, stamp, page, list, prev, count, broken, failures>>

\* Post, which is not off while a notice is being posted
NoticeForm == NoticeBegins("post", 0)

\* The bin on the notice that is shown, which is not off either
AdminNoticeBanner == Shown # 0 /\ NoticeBegins("delete", Shown)

-----------------------------------------------------------------------------
\* MSS

\* A notice from `start`, for a time that may end within the instance
createNotice(i, start, expires) ==
    /\ ops[i].stage = "sent" /\ ops[i].kind = "post"
    /\ start < expires
    /\ \E n \in Id :
         /\ notices[n].state = "none" /\ \A m \in 1..(n - 1) : notices[m].state # "none"
         /\ notices' = [notices EXCEPT ![n] = [state |-> "live", start |-> start, expires |-> expires]]
         /\ ops' = [ops EXCEPT ![i].stage = "handled", ![i].id = n]
    /\ UNCHANGED <<clock, stamp, page, list, prev, count, panelVars>>

\* A notice that is gone cannot be deleted
deleteNotice(i) ==
    /\ ops[i].stage = "sent" /\ ops[i].kind = "delete"
    /\ IF notices[ops[i].id].state = "live"
       THEN /\ notices' = [notices EXCEPT ![ops[i].id].state = "deleted"]
            /\ ops' = [ops EXCEPT ![i].stage = "handled"]
       ELSE /\ ops' = [ops EXCEPT ![i].stage = "refused"]
            /\ UNCHANGED notices
    /\ UNCHANGED <<clock, stamp, page, list, prev, count, panelVars>>

noticeRequestFails(i) ==
    /\ failures < MaxFailures
    /\ ops[i].stage \in {"sent", "handled"}
    /\ failures' = failures + 1
    /\ ops' = [ops EXCEPT ![i].stage = "refused"]
    /\ UNCHANGED <<clock, notices, stamp, page, list, prev, count, broken, steps>>

tick ==
    /\ clock < MaxClock
    /\ clock' = clock + 1
    /\ UNCHANGED <<notices, stamp, page, list, prev, count, ops, panelVars>>

-----------------------------------------------------------------------------
\* The mutations' answers

\* Mutations that awaited the list, or a fetch of it that was dropped, go on to invalidate
\* and await the count; those that awaited a fetch of the count that is dropped by this end
refreshAllNoticeCounts(ms, goes) ==
    /\ count' = IF goes = {} THEN count ELSE Invalidate(count)
    /\ ops' = [i \in DOMAIN ms |->
           CASE i \in goes -> [ms[i] EXCEPT !.stage = "count", !.own = TRUE]
             [] i \notin goes /\ goes # {} /\ ms[i].stage = "count" /\ ms[i].own
                /\ ~JoinsFirstFetch(count) -> [ms[i] EXCEPT !.stage = "told"]
             [] OTHER -> ms[i]]

\* Mutant: the time is not taken anew
postedUnderOldTime(i) ==
    /\ ops[i].stage = "handled" /\ ops[i].kind = "post"
    /\ list' = Invalidate(list)
    /\ ops' = [ops EXCEPT ![i].stage = "list", ![i].own = TRUE, ![i].due = notices[ops[i].id].start <= clock]
    /\ UNCHANGED <<clock, notices, stamp, page, prev, count, panelVars>>

\* onSuccess of a post: onPost takes the time anew, and then the list is refreshed; it is the
\* old time's, since the card has not been drawn yet
posted(i) ==
    /\ ops[i].stage = "handled" /\ ops[i].kind = "post"
    /\ refreshCurrentTimestamp([ops EXCEPT ![i].stage = "list",
                                           ![i].due = notices[ops[i].id].start <= clock])
    /\ UNCHANGED <<clock, notices, page, panelVars>>

\* onSuccess of a deletion refreshes the list, and drops the fetch that others await
refreshAllNotices(i) ==
    LET awaits == {j \in DOMAIN ops : ops[j].stage = "list" /\ ops[j].own /\ ~JoinsFirstFetch(list)}
    IN  /\ ops[i].stage = "handled" /\ ops[i].kind = "delete"
        /\ list' = Invalidate(list)
        /\ refreshAllNoticeCounts([ops EXCEPT ![i].stage = "list", ![i].own = TRUE], awaits)
        /\ UNCHANGED <<clock, notices, stamp, page, prev, panelVars>>

\* The fetch of a query that the card no longer has ends
oldFetchEnds(i) ==
    /\ ~ops[i].own
    /\ \/ ops[i].stage = "list" /\ refreshAllNoticeCounts(ops, {i})
       \/ ops[i].stage = "count" /\ ops' = [ops EXCEPT ![i].stage = "told"] /\ UNCHANGED count
    /\ UNCHANGED <<clock, notices, stamp, page, list, prev, panelVars>>

\* throwOnError: the panel gives way to the error, if the hook still shows the mutation, and
\* the notice it was to delete
noticeError(i) ==
    /\ ops[i].stage = "refused"
    /\ ops' = [ops EXCEPT ![i].stage = "told", ![i].id = 0]
    /\ broken' = (ops[i].seen /\ (ops[i].kind = "post" \/ Shown = ops[i].id))
    /\ UNCHANGED <<clock, notices, stamp, page, list, prev, count, steps, failures>>

-----------------------------------------------------------------------------
\* The queries

\* Both are fetched again every REFETCH_INTERVAL_MS
pollNotices ==
    /\ list.fetch = "idle"
    /\ list' = Refetch(list)
    /\ UNCHANGED <<clock, notices, stamp, page, prev, count, ops, panelVars>>

pollCount ==
    /\ count.fetch = "idle"
    /\ count' = Refetch(count)
    /\ UNCHANGED <<clock, notices, stamp, page, list, prev, ops, panelVars>>

\* MSS answers for the time in the key, and not for now
getNoticesQuery ==
    /\ list.fetch = "sent"
    /\ list' = Answer(list, PageOf(InForce(stamp), page))
    /\ UNCHANGED <<clock, notices, stamp, page, prev, count, ops, panelVars>>

getNoticeCountQuery ==
    /\ count.fetch = "sent"
    /\ count' = Answer(count, InForce(stamp))
    /\ UNCHANGED <<clock, notices, stamp, page, list, prev, ops, panelVars>>

listArrives ==
    /\ list.fetch = "answered"
    /\ list' = Applied(list)
    /\ refreshAllNoticeCounts(ops, {i \in DOMAIN ops : ops[i].stage = "list" /\ ops[i].own})
    /\ UNCHANGED <<clock, notices, stamp, page, prev, panelVars>>

countArrives ==
    /\ count.fetch = "answered"
    /\ count' = Applied(count)
    /\ ops' = [i \in DOMAIN ops |-> IF ops[i].stage = "count" /\ ops[i].own
                                    THEN [ops[i] EXCEPT !.stage = "told"] ELSE ops[i]]
    /\ UNCHANGED <<clock, notices, stamp, page, list, prev, panelVars>>

\* throwOnError, of a query
noticesFetchFails ==
    /\ failures < MaxFailures
    /\ list.fetch # "idle" \/ count.fetch # "idle"
    /\ failures' = failures + 1
    /\ broken' = TRUE
    /\ UNCHANGED <<noticesVars, steps>>

-----------------------------------------------------------------------------
NoticesAnswer(i) ==
    \/ \E start \in 0..MaxClock, expires \in 1..(MaxClock + 1) : createNotice(i, start, expires)
    \/ deleteNotice(i) \/ posted(i) \/ refreshAllNotices(i) \/ oldFetchEnds(i) \/ noticeError(i)
ListFetch  == getNoticesQuery \/ listArrives
CountFetch == getNoticeCountQuery \/ countArrives

NoticesNext ==
    \/ handlePaginationNext \/ handlePaginationPrevious \/ NoticeForm \/ AdminNoticeBanner
    \/ \E i \in DOMAIN ops : NoticesAnswer(i) \/ noticeRequestFails(i)
    \/ tick \/ pollNotices \/ pollCount \/ ListFetch \/ CountFetch \/ noticesFetchFails

-----------------------------------------------------------------------------
\* "a notice posted now starts after the timestamp the card last took": from when a post is
\* answered, any count that the card shows includes the notice, if it had started by then
\* and is still in force, whatever pages are turned, fetches are in flight or other posts
\* and deletions are pending.
PostedIsCounted ==
    \A i \in DOMAIN ops :
        LET n == ops[i].id
        IN  /\ ops[i].kind = "post" /\ ops[i].stage \in {"list", "count", "told"}
            /\ n # 0 /\ ops[i].due /\ count.has
            /\ notices[n].state = "live" /\ notices[n].expires >= stamp
            => n \in count.data

\* The card ends with what is in force at the time it last took.
NoticesConverge ==
    /\ list.has /\ list.data = PageOf(InForce(stamp), page)
    /\ count.has /\ count.data = InForce(stamp)
=============================================================================
