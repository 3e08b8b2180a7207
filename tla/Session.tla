------------------------------- MODULE Session -------------------------------
(***************************************************************************)
(* The frame of the dashboard: its router runs the loaders of a page       *)
(* before it shows it, and again whenever another project is selected, the *)
(* loaders fill the cache and send who is not logged in to the login page, *)
(* and logging out empties the store and the cache while requests are      *)
(* under way.  A loader that the router has given up still runs to its     *)
(* end.                                                                    *)
(***************************************************************************)
EXTENDS Integers

CONSTANTS
    Project,     \* the user's projects
    JobProject,  \* the one that the run in a link belongs to
    MaxNavs,     \* how many times the user goes to a page, or tries again
    MaxPicks,    \* how many times the user selects a project, or asks for a token
    MaxSignIns,  \* how many times the user signs in
    MaxFailures  \* requests that fail, and sessions that expire

ASSUME SessionAssumption ==
    /\ JobProject \in Project /\ Project \cap {"none", "job"} = {}
    /\ {MaxNavs, MaxPicks, MaxSignIns, MaxFailures} \subseteq Nat

VARIABLES
    role,      \* the user's role
    cookie,    \* the browser has a session that MSS accepts
    path,      \* the page that is shown
    nav,       \* the loading of a page by the router
    strays,    \* loaders of a run's link that the router gave up before they had the run: the
               \* project that was selected when each began
    project,   \* currentProjectId
    token,     \* apiToken: the project of the one that is shown
    minting,   \* the projects for which a token is being made
    cached,    \* what the cache has: the user, and data by project
    loaded,    \* the project of what the loader gave the page
    error,     \* a loader threw: the error stands in the page's place, or in the frame's
    leaving,   \* the request to log out is under way
    out,       \* the user has logged out since the last sign-in
    touched,   \* the user was not cached when the logout began, a token or a run's link was under
               \* way, or since then a page was gone to, or something selected or asked for
    navs, picks, signIns, failures

store       == <<project, token, minting>>
router      == <<path, nav, strays, loaded, error>>
session     == <<role, cookie, leaving, out>>
counters    == <<navs, picks, signIns, failures>>
sessionVars == <<store, router, session, cached, touched, counters>>

-----------------------------------------------------------------------------
\* Some pages for all: home reads the selected project before it awaits, run after it,
\* a run's link selects a project, and the control panel is for admins
Page == {"home", "run", "job", "admin-control"}
Selection == Project \cup {"none"}
Empty == [me |-> FALSE, data |-> {}]

\* Loading a page: whether the user was cached when it began, the project that was read,
\* and whether what it awaits was asked for since the cache was emptied
Idle == [stage |-> "idle", to |-> "home", me |-> FALSE, project |-> "none", caches |-> TRUE]
Load(to, hasUser, p) == [stage |-> "first", to |-> to, me |-> hasUser, project |-> p, caches |-> TRUE]

SessionTypeOK ==
    /\ role \in {"user", "admin"}
    /\ {cookie, leaving, out, touched} \subseteq BOOLEAN
    /\ path \in Page \cup {"login"}
    /\ error \in {"none", "page", "frame"}
    /\ nav \in [stage : {"idle", "first", "second"}, to : Page, me : BOOLEAN,
                project : Selection, caches : BOOLEAN]
    /\ strays \subseteq Selection
    /\ {project, token, loaded} \subseteq Selection
    /\ minting \subseteq Project
    /\ cached \in [me : BOOLEAN, data : SUBSET (Selection \cup {"job"})]
    /\ navs \in 0..MaxNavs /\ picks \in 0..MaxPicks
    /\ signIns \in 0..MaxSignIns /\ failures \in 0..MaxFailures

\* The bundle is loaded, with or without a session, at some page
SessionInit ==
    /\ role \in {"user", "admin"}
    /\ cookie \in BOOLEAN
    /\ path = "login"
    /\ nav \in {Load(p, FALSE, "none") : p \in Page}
    /\ strays = {}
    /\ project = "none" /\ token = "none" /\ minting = {}
    /\ cached = Empty
    /\ loaded = "none"
    /\ error = "none" /\ leaving = FALSE /\ out = FALSE /\ touched = FALSE
    /\ navs = 0 /\ picks = 0 /\ signIns = 0 /\ failures = 0

\* A user is logged in and home is shown
HomeIsShown ==
    /\ role = "user" /\ cookie = TRUE /\ path = "home" /\ nav = Idle /\ strays = {}
    /\ project = "none" /\ token = "none" /\ minting = {}
    /\ cached = [me |-> TRUE, data |-> {"none"}] /\ loaded = "none"
    /\ error = "none" /\ leaving = FALSE /\ out = FALSE /\ touched = FALSE
    /\ navs = 0 /\ picks = 0 /\ signIns = 0 /\ failures = 0

-----------------------------------------------------------------------------
\* The router

\* What is left of the loading that is given up
GivenUp == IF nav.stage = "first" /\ nav.to = "job" THEN strays \cup {nav.project} ELSE strays

\* A page, or the login page, is gone to: what was loading is given up
Goes(to, hasUser, p) ==
    /\ nav' = IF to = "login" THEN Idle ELSE Load(to, hasUser, p)
    /\ strays' = GivenUp
    /\ path' = IF to = "login" THEN "login" ELSE path
    /\ error' = IF to = "login" THEN "none" ELSE error

\* Mutant: the loaders are rerun only when the router rests
revalidateWhenIdle(p, hasUser) ==
    /\ IF path # "login" /\ nav.stage = "idle" THEN nav' = Load(path, hasUser, p) ELSE nav' = nav
    /\ UNCHANGED <<strays, path, error>>

\* The selected project has changed: the loaders of the page that is shown, or that is being
\* loaded, are rerun; the login page has none
revalidateOnProjectChange(p, hasUser) ==
    IF nav.stage # "idle" THEN Goes(nav.to, hasUser, p)
    ELSE IF path # "login" THEN Goes(path, hasUser, p)
    ELSE UNCHANGED <<nav, strays, path, error>>

-----------------------------------------------------------------------------
\* The loaders

\* Mutant: who is not logged in is sent home
redirectHome ==
    /\ Goes("home", cached.me, project)
    /\ UNCHANGED <<store, session, cached, loaded, touched, counters>>

\* loadOrRedirectIfAuthErr, of a 401
redirectToLogin ==
    /\ Goes("login", FALSE, "none")
    /\ UNCHANGED <<store, session, cached, loaded, touched, counters>>

\* The user, devices and projects, which most loaders await first; run's link awaits the run
\* as well.  A 401 goes to the login page
loadFirst ==
    \E runCaches \in {nav.caches, TRUE} : \* it is asked for later than the others
    LET user == nav.me \/ cookie
        run  == nav.to = "job" => cookie \/ "job" \in cached.data
        got  == [me   |-> cached.me \/ (~nav.me /\ nav.caches),
                 data |-> cached.data \cup (IF nav.to = "job" /\ runCaches THEN {"job"} ELSE {})]
    IN  /\ nav.stage = "first"
        /\ \/ ~(user /\ run) /\ redirectToLogin
           \/ /\ user /\ run
              /\ cached' = got
              /\ \/ \* a 403, of those who are not admins, goes home
                    /\ nav.to = "admin-control" /\ role # "admin"
                    /\ Goes("home", got.me, project)
                    /\ touched' = (touched \/ leaving)
                    /\ UNCHANGED project
                 \/ \* the run's project is selected if none is, and the loaders are rerun
                    /\ nav.to = "job" /\ project = "none"
                    /\ project' = JobProject
                    /\ nav' = Load("job", got.me, JobProject)
                    /\ touched' = (touched \/ leaving)
                    /\ UNCHANGED <<strays, path, error>>
                 \/ /\ ~(nav.to = "admin-control" /\ role # "admin")
                    /\ ~(nav.to = "job" /\ project = "none")
                    /\ nav' = [nav EXCEPT !.stage = "second", !.caches = TRUE,
                                          !.project = IF nav.to \in {"run", "job"} THEN project ELSE @]
                    /\ UNCHANGED <<project, strays, path, error, touched>>
              /\ UNCHANGED <<token, minting, loaded, session, counters>>

\* The data of the project that was read, and the page is shown
loadSecond ==
    /\ nav.stage = "second"
    /\ IF cookie \/ nav.project \in cached.data
       THEN /\ cached' = IF nav.caches THEN [cached EXCEPT !.data = @ \cup {nav.project}] ELSE cached
            /\ path' = nav.to /\ nav' = Idle /\ loaded' = nav.project /\ error' = "none"
            /\ UNCHANGED <<strays, store, session, touched, counters>>
       ELSE redirectToLogin

\* Anything but a 401 or a 403 is thrown on, and shows instead of the page, or of all when
\* the frame's own loader could not get the user
loadFails ==
    /\ nav.stage # "idle" /\ failures < MaxFailures
    /\ failures' = failures + 1
    /\ nav' = Idle /\ path' = nav.to
    /\ \/ error' = "frame" /\ nav.stage = "first" /\ ~nav.me /\ UNCHANGED cached
       \/ /\ error' = "page" /\ (nav.me \/ cookie)
          /\ cached' = [cached EXCEPT !.me = @ \/ (nav.stage = "first" /\ ~nav.me /\ nav.caches)]
    /\ UNCHANGED <<strays, loaded, store, session, touched, navs, picks, signIns>>

\* Mutant: whether a project is selected is read before the run is awaited
strayWithOldProject(p) ==
    /\ p \in strays
    /\ IF p = "none"
       THEN project' = JobProject
       ELSE UNCHANGED project
    /\ strays' = strays \ {p}
    /\ UNCHANGED <<token, minting, path, nav, loaded, error, session, cached, touched, counters>>

\* The loader of a run's link goes on though the router has given it up, and selects the
\* run's project if none is selected by then
strayGoesOn(p) ==
    /\ p \in strays
    /\ IF project = "none" /\ (cookie \/ "job" \in cached.data)
       THEN /\ project' = JobProject
            /\ nav' = IF nav.stage # "idle" THEN Load(nav.to, cached.me, JobProject)
                      ELSE IF path # "login" THEN Load(path, cached.me, JobProject) ELSE nav
            /\ strays' = (GivenUp \ {p}) \cup (IF nav.stage = "first" /\ nav.to = "job" THEN {nav.project} ELSE {})
            /\ touched' = (touched \/ leaving \/ out)
       ELSE strays' = strays \ {p} /\ UNCHANGED <<project, nav, touched>>
    /\ UNCHANGED <<token, minting, path, loaded, error, session, cached, counters>>

-----------------------------------------------------------------------------
\* The user

\* A link, a bookmark or Back
navigate(to) ==
    /\ navs < MaxNavs
    /\ navs' = navs + 1
    /\ Goes(to, cached.me, project)
    /\ touched' = (touched \/ leaving)
    /\ UNCHANGED <<store, loaded, session, cached, picks, signIns, failures>>

\* "Try again", of an error that a loader threw
ErrorAlert ==
    /\ error # "none" /\ path # "login" /\ nav.stage = "idle"
    /\ navigate(path)

Framed == path # "login" /\ error # "frame"

\* A project, or None, is selected in the top bar
setCurrentProjectId(p) ==
    /\ Framed /\ picks < MaxPicks /\ p # project
    /\ picks' = picks + 1
    /\ project' = p
    /\ revalidateOnProjectChange(p, cached.me)
    /\ touched' = (touched \/ leaving)
    /\ UNCHANGED <<token, minting, loaded, session, cached, navs, signIns, failures>>

\* The button for a new API token, which admin pages do not have
appTokenCreation ==
    /\ Framed /\ path # "admin-control" /\ picks < MaxPicks
    /\ project # "none" /\ project \notin minting
    /\ picks' = picks + 1
    /\ minting' = minting \cup {project}
    /\ touched' = (touched \/ leaving)
    /\ UNCHANGED <<project, token, router, session, cached, navs, signIns, failures>>

\* Its answer: the token is shown, whatever has been selected since, even after a logout
setApiToken(p) ==
    /\ p \in minting
    /\ minting' = minting \ {p}
    /\ token' = IF cookie THEN p ELSE token
    /\ UNCHANGED <<project, router, session, cached, touched, counters>>

\* Mutant: the cache is left as it is
logoutKeepsCache ==
    /\ Framed /\ ~leaving
    /\ leaving' = TRUE
    /\ project' = "none" /\ token' = "none"
    /\ touched' = ((out /\ touched) \/ minting # {} \/ strays # {} \/ ~cached.me)
    /\ IF project # "none" THEN revalidateOnProjectChange("none", cached.me)
       ELSE UNCHANGED <<nav, strays, path, error>>
    /\ UNCHANGED <<minting, loaded, role, cookie, out, cached, counters>>

\* logout: the store is cleared, which reruns the loaders if a project was selected, then
\* the cache, and then MSS is told
logout ==
    /\ Framed /\ ~leaving
    /\ leaving' = TRUE
    /\ project' = "none" /\ token' = "none"
    /\ touched' = ((out /\ touched) \/ minting # {} \/ strays # {} \/ ~cached.me)
    /\ cached' = Empty
    /\ IF project # "none"
       THEN revalidateOnProjectChange("none", cached.me)
       ELSE nav' = [nav EXCEPT !.caches = FALSE] /\ UNCHANGED <<strays, path, error>>
    /\ UNCHANGED <<minting, loaded, role, cookie, out, counters>>

\* The answer takes the session away, and the login page is gone to
handleLogout ==
    /\ leaving
    /\ leaving' = FALSE /\ cookie' = FALSE /\ out' = TRUE
    /\ Goes("login", FALSE, "none")
    /\ touched' = (touched \/ GivenUp # {})
    /\ UNCHANGED <<store, loaded, role, cached, counters>>

\* MSS cannot be told: the page stays, and so does the session
logoutFails ==
    /\ leaving /\ failures < MaxFailures
    /\ failures' = failures + 1
    /\ leaving' = FALSE
    /\ UNCHANGED <<store, router, role, cookie, out, cached, touched, navs, picks, signIns>>

sessionExpires ==
    /\ cookie /\ failures < MaxFailures
    /\ failures' = failures + 1
    /\ cookie' = FALSE
    /\ UNCHANGED <<store, router, role, leaving, out, cached, touched, navs, picks, signIns>>

\* A link of the login page leads to a provider and back to home, which loads the bundle
\* anew: nothing of the store, the cache or what was under way is left
LoginForm ==
    /\ path = "login" /\ nav.stage = "idle" /\ signIns < MaxSignIns
    /\ signIns' = signIns + 1
    /\ role' \in {"user", "admin"}
    /\ cookie' = TRUE /\ leaving' = FALSE /\ out' = FALSE /\ touched' = FALSE
    /\ nav' = Load("home", FALSE, "none") /\ strays' = {}
    /\ project' = "none" /\ token' = "none" /\ minting' = {}
    /\ cached' = Empty
    /\ UNCHANGED <<path, loaded, error, navs, picks, failures>>

-----------------------------------------------------------------------------
LoaderStep == loadFirst \/ loadSecond

SessionNext ==
    \/ LoaderStep \/ loadFails
    \/ \E p \in Selection : strayGoesOn(p) \/ setCurrentProjectId(p)
    \/ \E p \in Project : setApiToken(p)
    \/ \E to \in Page : navigate(to)
    \/ ErrorAlert \/ appTokenCreation \/ logout \/ handleLogout \/ logoutFails
    \/ sessionExpires \/ LoginForm

-----------------------------------------------------------------------------
\* "Reruns the loaders when the selected project changes": a page that is shown has the data
\* of the project that the top bar shows, in whatever order the user, the loaders and a
\* run's link select projects while pages are loading.
LoadedIsSelected ==
    nav.stage = "idle" /\ path \in {"home", "run", "job"} /\ error = "none" => loaded = project

\* A project that is selected is changed only by the user, by a logout or by a sign-in: a
\* run's link selects its project only where none is, though it decides so after it has
\* awaited the run, even if the router has given it up.
SelectionKept ==
    [][project # "none" /\ project' # project =>
          picks' # picks \/ leaving' # leaving \/ signIns' # signIns]_sessionVars

\* After a logout no page opens again, at most an error in its place, and the store has
\* neither project nor token, until someone signs in, if no page was gone to, and nothing
\* selected, while the logout was under way: neither the loaders that it reruns itself, and
\* which go on after the cache was emptied, nor those that were still loading bring back
\* what was cleared.
OutIsOut ==
    out /\ ~touched => (path = "login" \/ error # "none") /\ project = "none" /\ token = "none"

\* The router comes to rest: redirects end, and a run's link that selects a project, which
\* reruns its own loader, does so once.
Settles == (nav.stage # "idle") ~> (nav.stage = "idle")
=============================================================================
