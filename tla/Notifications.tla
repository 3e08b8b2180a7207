---------------------------- MODULE Notifications ----------------------------
(***************************************************************************)
(* The notices of a user in the frame of the dashboard: the banner of an   *)
(* announcement, the bell with its badge and its panel, in which notices   *)
(* are marked as read and requests decided, and the switches for emails on *)
(* the settings page.  The lists and the switches are not polled, and as   *)
(* their keys begin alike they are refreshed together.  An instance is of  *)
(* the settings page without announcements, or of another with nothing     *)
(* else.                                                                   *)
(***************************************************************************)
EXTENDS Integers, FiniteSets, Sequences, Query

CONSTANTS
    Notice,        \* the ids of notices
    Prompt,        \* those that ask the user to decide a request
    Custom,        \* those that are announcements
    EmailType,     \* the types of notices that may be emailed
    MaxReactions,  \* how many things the user does to notices and switches
    MaxLooks,      \* how often the panel is closed, or the window focused
    MaxFaults      \* requests and fetches that fail

ASSUME NotificationsAssumption ==
    /\ Notice \subseteq Nat /\ IsFiniteSet(Notice)
    /\ Prompt \cup Custom \subseteq Notice
    /\ EmailType # {}
    /\ {MaxReactions, MaxLooks, MaxFaults} \subseteq Nat

VARIABLES
    mounted,     \* the queries that are on the page
    arrived,     \* the notices that MSS has made
    unread,      \* those that the user has not read
    decided,     \* the prompts whose requests have been decided
    prefs,       \* MSS's email preferences of the user
    queries,     \* the panel's list, the banner's, the badge's count and the switches'
    panel,       \* the panel is open
    reactions,   \* the mutations that were begun
    overlapped,  \* an answer that is older than what was saved replaces it, or will
    crashed,     \* an error was thrown, and stands instead of the frame: there the instance ends
    looks, faults

notificationsVars == <<mounted, arrived, unread, decided, prefs, queries, panel, reactions, overlapped,
                       crashed, looks, faults>>

-----------------------------------------------------------------------------
Preferences   == [EmailType -> BOOLEAN]
NoPreferences == [t \in EmailType |-> FALSE]
Lists       == {"bell", "banner"}
Mine        == Lists \cup {"switches"}  \* the keys that begin with me, notices
AllQueries  == Mine \cup {"badge"}

\* A mutation: where it was begun, of which notice or type and with what; the notices that it
\* took from the unread, or the preferences that it was answered; the queries whose fetches it
\* awaits, and the lists whose fetches since are its own; and whether its hook shows it as pending
Reaction ==
    [kind : {"dismiss", "all", "decide", "switch"}, from : {"item", "bell", "banner", "form"},
     notice : Notice \cup {0}, type : EmailType, value : BOOLEAN,
     stage : {"sent", "handled", "refused", "lists", "counts", "done"},
     marked : SUBSET Notice, answer : Preferences,
     waits : SUBSET AllQueries, fresh : SUBSET Lists, seen : BOOLEAN]

NotificationsTypeOK ==
    /\ mounted \subseteq AllQueries
    /\ {unread, decided} \subseteq SUBSET arrived /\ arrived \subseteq Notice
    /\ prefs \in Preferences
    /\ queries.bell \in QueryOf(SUBSET Notice) /\ queries.banner \in QueryOf(SUBSET Notice)
    /\ queries.badge \in QueryOf(0..Cardinality(Notice))
    /\ queries.switches \in QueryOf(Preferences)
    /\ \A i \in DOMAIN reactions : reactions[i] \in Reaction
    /\ Len(reactions) <= MaxReactions
    /\ {panel, overlapped, crashed} \subseteq BOOLEAN
    /\ looks \in 0..MaxLooks /\ faults \in 0..MaxFaults

\* The notices of the instance
OnPage == IF "banner" \in mounted THEN Custom ELSE Notice \ Custom

\* What MSS answers to a query
Served(q) ==
    CASE q = "bell"     -> unread
      [] q = "banner"   -> unread \cap Custom
      [] q = "badge"    -> Cardinality(unread)
      [] q = "switches" -> prefs

\* The frame is mounted, and the loader of the settings has the switches, which are fetched
\* again on mounting
NotificationsInit ==
    /\ mounted \in {{"bell", "badge", "switches"}, {"bell", "badge", "banner"}}
    /\ arrived \in SUBSET OnPage /\ unread = arrived /\ decided = {}
    /\ prefs = [t \in EmailType |-> TRUE]
    /\ LET first == [bell |-> NewQuery({}), banner |-> NewQuery({}), badge |-> NewQuery(0),
                     switches |-> LoadedQuery(prefs)]
       IN  queries = [q \in AllQueries |-> IF q \in mounted THEN Refetch(first[q]) ELSE first[q]]
    /\ panel = FALSE /\ reactions = <<>> /\ overlapped = FALSE /\ crashed = FALSE
    /\ looks = 0 /\ faults = 0

-----------------------------------------------------------------------------
\* Rendering

\* TopBanner shows the first of the announcements
TopBanner(shown) == {n \in shown : \A m \in shown : n <= m}

\* The items of the panel go when it is closed, or with their notices; a component that goes
\* forgets its mutation, which goes on
Drawn(rs, qs, isOpen) ==
    [i \in DOMAIN rs |-> [rs[i] EXCEPT !.seen = @ /\
        CASE rs[i].from = "item"   -> isOpen /\ rs[i].notice \in qs.bell.data
          [] rs[i].from = "banner" -> rs[i].notice \in TopBanner(qs.banner.data)
          [] OTHER                 -> TRUE]]

-----------------------------------------------------------------------------
\* The user

Looks == looks < MaxLooks /\ looks' = looks + 1

\* The bell opens and closes the panel; nothing is fetched, since its queries are the bell's
NotificationsBell ==
    /\ panel' = ~panel
    /\ IF panel THEN Looks ELSE UNCHANGED looks
    /\ reactions' = Drawn(reactions, queries, ~panel)
    /\ UNCHANGED <<mounted, arrived, unread, decided, prefs, queries, overlapped, crashed, faults>>

\* A fetch of the switches that begins will have what is saved
Sent(qs) == overlapped' = (overlapped /\ qs.switches.fetch = queries.switches.fetch)

\* The window is focused: the library fetches what is on the page
windowFocus ==
    /\ Looks
    /\ queries' = [q \in AllQueries |-> IF q \in mounted THEN Refetch(queries[q]) ELSE queries[q]]
    /\ Sent(queries')
    /\ UNCHANGED <<mounted, arrived, unread, decided, prefs, panel, reactions, crashed, faults>>

isPending(kinds, from, n) ==
    \E i \in DOMAIN reactions :
        /\ reactions[i].seen /\ reactions[i].kind \in kinds /\ reactions[i].from = from
        /\ reactions[i].notice = n /\ reactions[i].stage # "done"

Reacts(kind, from, n, type, value) ==
    /\ Len(reactions) < MaxReactions
    /\ reactions' = Append(reactions,
         [kind |-> kind, from |-> from, notice |-> n, type |-> type, value |-> value,
          stage |-> "sent", marked |-> {}, answer |-> NoPreferences, waits |-> {}, fresh |-> {}, seen |-> TRUE])
    /\ UNCHANGED <<mounted, arrived, unread, decided, prefs, queries, panel, overlapped, crashed, looks, faults>>

AnyType == CHOOSE t \in EmailType : TRUE

\* An item's Approve or Reject, of the request that its notice refers to
NotificationItem(n) ==
    /\ panel /\ n \in queries.bell.data \cap Prompt
    /\ ~isPending({"decide"}, "item", n)
    /\ Reacts("decide", "item", n, AnyType, FALSE)

\* An item's "Mark as read"
dismissal(n) ==
    /\ panel /\ n \in queries.bell.data
    /\ ~isPending({"dismiss"}, "item", n)
    /\ Reacts("dismiss", "item", n, AnyType, FALSE)

\* The panel's "Mark all read"
markAll ==
    /\ panel /\ queries.badge.has /\ queries.badge.data > 0
    /\ ~isPending({"all"}, "bell", 0)
    /\ Reacts("all", "bell", 0, AnyType, FALSE)

\* The X of the banner, which is not off while its notice is being dismissed
NoticeBanner(n) ==
    /\ n \in TopBanner(queries.banner.data)
    /\ Reacts("dismiss", "banner", n, AnyType, FALSE)

\* A switch, all of which are off while one is being saved
handleChange(type) ==
    /\ "switches" \in mounted
    /\ ~isPending({"switch"}, "form", 0)
    /\ Reacts("switch", "form", 0, type, ~queries.switches.data[type])

-----------------------------------------------------------------------------
\* MSS, and others who use it

Handled(i, marks) ==
    /\ reactions[i].stage = "sent"
    /\ unread' = unread \ marks
    /\ reactions' = [reactions EXCEPT ![i].stage = "handled", ![i].marked = marks]
    /\ UNCHANGED <<mounted, arrived, prefs, queries, panel, overlapped, crashed, looks, faults>>

\* A notice that was read is read again
dismissNotice(i) ==
    reactions[i].kind = "dismiss" /\ Handled(i, {reactions[i].notice}) /\ UNCHANGED decided

dismissAllMyNotices(i) ==
    reactions[i].kind = "all" /\ Handled(i, unread) /\ UNCHANGED decided

\* A decision takes its prompt away; a request that is decided is not decided again
approveMyRequest(i) ==
    LET n == reactions[i].notice
    IN  /\ reactions[i].kind = "decide"
        /\ \/ n \notin decided /\ decided' = decided \cup {n} /\ Handled(i, {n})
           \/ /\ n \in decided /\ reactions[i].stage = "sent"
              /\ reactions' = [reactions EXCEPT ![i].stage = "refused"]
              /\ UNCHANGED <<mounted, arrived, unread, decided, prefs, queries, panel, overlapped, crashed,
                             looks, faults>>

\* The answer is the whole of the preferences
updateNoticePreferences(i) ==
    /\ reactions[i].kind = "switch" /\ reactions[i].stage = "sent"
    /\ prefs' = [prefs EXCEPT ![reactions[i].type] = reactions[i].value]
    /\ reactions' = [reactions EXCEPT ![i].stage = "handled", ![i].answer = prefs']
    /\ UNCHANGED <<mounted, arrived, unread, decided, queries, panel, overlapped, crashed, looks, faults>>

requestFault(i) ==
    /\ faults < MaxFaults
    /\ reactions[i].stage \in {"sent", "handled"}
    /\ faults' = faults + 1
    /\ reactions' = [reactions EXCEPT ![i].stage = "refused"]
    /\ UNCHANGED <<mounted, arrived, unread, decided, prefs, queries, panel, overlapped, crashed, looks>>

noticeArrives(n) ==
    /\ n \in OnPage \ arrived
    /\ arrived' = arrived \cup {n}
    /\ unread' = unread \cup {n}
    /\ UNCHANGED <<mounted, decided, prefs, queries, panel, reactions, overlapped, crashed, looks, faults>>

\* Another approver decides, which takes the prompts of all away
otherDecides(n) ==
    /\ n \in (arrived \cap Prompt) \ decided
    /\ decided' = decided \cup {n}
    /\ unread' = unread \ {n}
    /\ UNCHANGED <<mounted, arrived, prefs, queries, panel, reactions, overlapped, crashed, looks, faults>>

-----------------------------------------------------------------------------
\* The mutations' answers

\* What awaits a fetch of these queries goes on, if it is dropped for another
Drops(qs) ==
    LET dropped == {q \in qs : ~JoinsFirstFetch(queries[q])}
    IN  [i \in DOMAIN reactions |->
           [reactions[i] EXCEPT !.waits = @ \ dropped, !.fresh = @ \ (dropped \cap reactions[i].waits)]]

\* Mutant: a fetch in flight will do
refetchesMyNotices(i) ==
    /\ reactions[i].stage = "handled" /\ reactions[i].kind # "switch"
    /\ queries' = [q \in AllQueries |-> IF q \in Mine \cap mounted THEN Refetch(queries[q]) ELSE queries[q]]
    /\ Sent(queries')
    /\ reactions' = [reactions EXCEPT ![i].stage = "lists", ![i].waits = Mine \cap mounted, ![i].fresh = Lists \cap mounted]
    /\ UNCHANGED <<mounted, arrived, unread, decided, prefs, panel, crashed, looks, faults>>

\* onSuccess of all but a switch: both lists are invalidated and awaited, and the switches too
refreshMyNotices(i) ==
    /\ reactions[i].stage = "handled" /\ reactions[i].kind # "switch"
    /\ queries' = [q \in AllQueries |-> IF q \in Mine \cap mounted THEN Invalidate(queries[q]) ELSE queries[q]]
    /\ overlapped' = (overlapped /\ JoinsFirstFetch(queries.switches))
    /\ reactions' = [Drops(Mine \cap mounted) EXCEPT ![i].stage = "lists", ![i].waits = Mine \cap mounted,
                                        ![i].fresh = {q \in Lists \cap mounted : ~JoinsFirstFetch(queries[q])}]
    /\ UNCHANGED <<mounted, arrived, unread, decided, prefs, panel, crashed, looks, faults>>

\* and then the badge
refreshAllNoticeCounts(i) ==
    /\ reactions[i].stage = "lists" /\ reactions[i].waits = {}
    /\ queries' = [queries EXCEPT !.badge = Invalidate(@)]
    /\ reactions' = [Drops({"badge"}) EXCEPT ![i].stage = "counts", ![i].waits = {"badge"}]
    /\ UNCHANGED <<mounted, arrived, unread, decided, prefs, panel, overlapped, crashed, looks, faults>>

refreshed(i) ==
    /\ reactions[i].stage = "counts" /\ reactions[i].waits = {}
    /\ reactions' = [reactions EXCEPT ![i].stage = "done", ![i].seen = FALSE]
    /\ UNCHANGED <<mounted, arrived, unread, decided, prefs, queries, panel, overlapped, crashed, looks, faults>>

\* Mutant: the switch is left as it was drawn
keepsQueryData(i) ==
    /\ reactions[i].stage = "handled" /\ reactions[i].kind = "switch"
    /\ reactions' = [reactions EXCEPT ![i].stage = "done"]
    /\ UNCHANGED <<mounted, arrived, unread, decided, prefs, queries, panel, overlapped, crashed, looks, faults>>

\* onSuccess of a switch: setQueryData, which leaves a fetch in flight alone
setQueryData(i) ==
    LET q == queries.switches
    IN  /\ reactions[i].stage = "handled" /\ reactions[i].kind = "switch"
        /\ queries' = [queries EXCEPT !.switches =
                         [q EXCEPT !.data = reactions[i].answer,
                                   !.answer = IF q.fetch = "answered" THEN @ ELSE reactions[i].answer]]
        /\ overlapped' = (q.fetch = "answered" /\ q.answer # reactions[i].answer)
        /\ reactions' = [reactions EXCEPT ![i].stage = "done", ![i].seen = FALSE, ![i].answer = NoPreferences]
        /\ UNCHANGED <<mounted, arrived, unread, decided, prefs, panel, crashed, looks, faults>>

\* The error that is thrown stands in the place of the frame, with nothing left of its panel
\* and its hooks
Breaks == crashed' = TRUE /\ panel' = FALSE /\ reactions' = <<>>

\* throwOnError: the frame gives way to the error, if the component still shows the mutation
reactionError(i) ==
    /\ reactions[i].stage = "refused"
    /\ \/ reactions[i].seen /\ Breaks
       \/ ~reactions[i].seen /\ reactions' = [reactions EXCEPT ![i].stage = "done"] /\ UNCHANGED <<panel, crashed>>
    /\ UNCHANGED <<mounted, arrived, unread, decided, prefs, queries, overlapped, looks, faults>>

-----------------------------------------------------------------------------
\* The queries

\* Only the badge is fetched every REFETCH_INTERVAL_MS
getNoticeCountQuery ==
    /\ queries.badge.fetch = "idle"
    /\ queries' = [queries EXCEPT !.badge = Refetch(@)]
    /\ UNCHANGED <<mounted, arrived, unread, decided, prefs, panel, reactions, overlapped, crashed, looks, faults>>

getMyNoticesQuery(q) ==
    /\ q \in Mine /\ queries[q].fetch = "sent"
    /\ queries' = [queries EXCEPT ![q] = Answer(@, Served(q))]
    /\ UNCHANGED <<mounted, arrived, unread, decided, prefs, panel, reactions, overlapped, crashed, looks, faults>>

\* The count, which is polled: it does not matter when its answer was made
countArrives ==
    /\ queries.badge.fetch = "sent"
    /\ queries' = [queries EXCEPT !.badge = Applied(Answer(@, Served("badge")))]
    /\ reactions' = [i \in DOMAIN reactions |-> [reactions[i] EXCEPT !.waits = @ \ {"badge"}]]
    /\ UNCHANGED <<mounted, arrived, unread, decided, prefs, panel, overlapped, crashed, looks, faults>>

noticesArrive(q) ==
    /\ queries[q].fetch = "answered"
    /\ queries' = [queries EXCEPT ![q] = Applied(@)]
    /\ reactions' = Drawn([i \in DOMAIN reactions |-> [reactions[i] EXCEPT !.waits = @ \ {q}]],
                          queries', panel)
    /\ UNCHANGED <<mounted, arrived, unread, decided, prefs, panel, overlapped, crashed, looks, faults>>

\* throwOnError, of a query
queryFault(q) ==
    /\ faults < MaxFaults /\ queries[q].fetch # "idle"
    /\ faults' = faults + 1
    /\ Breaks
    /\ UNCHANGED <<mounted, arrived, unread, decided, prefs, queries, overlapped, looks>>

-----------------------------------------------------------------------------
ReactionStep(i) ==
    \/ dismissNotice(i) \/ dismissAllMyNotices(i) \/ approveMyRequest(i)
    \/ updateNoticePreferences(i)
    \/ refreshMyNotices(i) \/ refreshAllNoticeCounts(i) \/ refreshed(i) \/ setQueryData(i)
    \/ reactionError(i)


NotificationsNext ==
    /\ ~crashed
    /\ \/ NotificationsBell \/ windowFocus \/ markAll
       \/ \E n \in Notice : NotificationItem(n) \/ dismissal(n) \/ NoticeBanner(n)
                            \/ noticeArrives(n) \/ otherDecides(n)
       \/ \E type \in EmailType : handleChange(type)
       \/ \E i \in DOMAIN reactions : ReactionStep(i) \/ requestFault(i)
       \/ getNoticeCountQuery \/ countArrives
       \/ \E q \in Mine : getMyNoticesQuery(q) \/ noticesArrive(q)
       \/ \E q \in AllQueries : queryFault(q)

-----------------------------------------------------------------------------
\* A notice that was marked as read, or whose request was decided, is on neither list once the
\* refetch of it that the mutation began is answered: a fetch from before, which may have the
\* notice, is dropped and not joined, whatever else reacts or looks at the same time.
DismissedIsGone ==
    \A i \in DOMAIN reactions : \A q \in reactions[i].fresh \ reactions[i].waits :
        reactions[i].marked \cap queries[q].data = {}

\* "the response is the full, server-resolved set, so trust it over the toggle": when nothing
\* is being saved or fetched, the switches are as MSS has them, unless an answer from before
\* the last save came after it.
SwitchesAreSaved ==
    /\ ~crashed /\ ~overlapped /\ queries.switches.fetch = "idle"
    /\ \A i \in DOMAIN reactions : reactions[i].kind = "switch" => reactions[i].stage = "done"
    => queries.switches.data = prefs
=============================================================================
