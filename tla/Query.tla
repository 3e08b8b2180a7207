-------------------------------- MODULE Query --------------------------------
(***************************************************************************)
(* One query of the dashboard's cache, as TanStack Query keeps it: the     *)
(* data of the last answer, and the fetch in flight.  The library is not   *)
(* in the repository; this is what the dashboard's modules rely on.  A     *)
(* fetch is retried by the library, so "failed" is a fetch that gave up.   *)
(***************************************************************************)

\* has: there was an answer; fetch: "idle", "sent" (MSS has not handled it) or
\* "answered" (the answer is on its way, and holds what MSS had then)
QueryOf(Data) ==
    [has : BOOLEAN, data : Data, fetch : {"idle", "sent", "answered"}, answer : Data]

\* A query nobody has fetched; d stands for no data
NewQuery(d) == [has |-> FALSE, data |-> d, fetch |-> "idle", answer |-> d]

\* A query whose data a loader has fetched
LoadedQuery(d) == [NewQuery(d) EXCEPT !.has = TRUE]

\* A mount, a poll or ensureQueryData: joins the fetch in flight, if there is one
Refetch(q) == IF q.fetch = "idle" THEN [q EXCEPT !.fetch = "sent"] ELSE q

\* invalidateQueries: a fetch in flight is dropped for a new one, but only if
\* there is data already; the first fetch of a query is joined
JoinsFirstFetch(q) == ~q.has /\ q.fetch # "idle"
Invalidate(q) ==
    IF JoinsFirstFetch(q) THEN q ELSE [q EXCEPT !.fetch = "sent", !.answer = q.data]

\* MSS handles the fetch, the answer arrives, or the fetch fails
Answer(q, d) == [q EXCEPT !.fetch = "answered", !.answer = d]
Applied(q)   == [has |-> TRUE, data |-> q.answer, fetch |-> "idle", answer |-> q.answer]
Dropped(q)   == [q EXCEPT !.fetch = "idle", !.answer = q.data]
=============================================================================
