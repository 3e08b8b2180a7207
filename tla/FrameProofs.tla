------------------------------ MODULE FrameProofs ------------------------------
(***************************************************************************)
(* The frame of the dashboard.  It is type-correct.  The session and the   *)
(* router: pages show the data of the selected project, a selection is     *)
(* changed only by whoever may, and logging out is final.  The             *)
(* notifications: notices that were read do not come back, and the email   *)
(* switches are as they were saved.  The toasts: no timer takes away one   *)
(* that is open.                                                           *)
(***************************************************************************)
EXTENDS Frame, FiniteSetTheorems, SequenceTheorems, TLAPS

\* The types of the session, by part
StoreOK  == project \in Selection /\ token \in Selection /\ minting \in SUBSET Project
RouterOK ==
    /\ path \in Page \cup {"login"}
    /\ error \in {"none", "page", "frame"}
    /\ nav \in [stage : {"idle", "first", "second"}, to : Page, me : BOOLEAN,
                project : Selection, caches : BOOLEAN]
    /\ strays \in SUBSET Selection
    /\ loaded \in Selection
UserOK   == role \in {"user", "admin"} /\ cookie \in BOOLEAN /\ leaving \in BOOLEAN
            /\ out \in BOOLEAN /\ touched \in BOOLEAN
CacheOK  == cached \in [me : BOOLEAN, data : SUBSET (Selection \cup {"job"})]
BoundsOK == navs \in 0..MaxNavs /\ picks \in 0..MaxPicks /\ signIns \in 0..MaxSignIns
            /\ failures \in 0..MaxFailures

SessionTyped == StoreOK /\ RouterOK /\ UserOK /\ CacheOK /\ BoundsOK

\* A loading that the router has not given up began when the present project was selected
Loading == nav.stage # "idle" => nav.project = project

\* While the request to log out is under way, and the user does nothing, the store and the
\* cache stay empty: what is still being loaded knew the user, or is not cached
Leaving ==
    /\ leaving /\ out => touched
    /\ leaving /\ ~touched =>
         /\ project = "none" /\ token = "none" /\ minting = {}
         /\ ~cached.me /\ (nav.stage = "first" => nav.me \/ ~nav.caches)

\* After it a page that is gone to finds no user
Gone ==
    out /\ ~touched =>
      /\ project = "none" /\ token = "none" /\ minting = {}
      /\ ~cookie /\ ~cached.me
      /\ nav.stage # "idle" => nav.stage = "first" /\ ~nav.me
      /\ path = "login" \/ error = "frame"

-----------------------------------------------------------------------------
\* The types

Nav == [stage : {"idle", "first", "second"}, to : Page, me : BOOLEAN,
        project : Selection, caches : BOOLEAN]

\* Resting, and loading a page, are states of the router.
LEMMA LoadTyped ==
  /\ Idle \in Nav
  /\ \A to \in Page, hasUser \in BOOLEAN, p \in Selection : Load(to, hasUser, p) \in Nav
BY DEF Idle, Load, Nav, Page, Selection

\* Whatever is gone to, the router is in a state of its own.
LEMMA GoesTyped ==
  ASSUME SessionTyped, NEW to \in Page \cup {"login"}, NEW hasUser \in BOOLEAN, NEW p \in Selection,
         Goes(to, hasUser, p), loaded' = loaded
  PROVE  RouterOK'
<1>1. nav' \in Nav
  BY LoadTyped DEF Goes, Page
<1>2. strays' \in SUBSET Selection
  BY DEF Goes, GivenUp, SessionTyped, RouterOK
<1> QED
  BY <1>1, <1>2 DEF Goes, SessionTyped, RouterOK, Nav

\* The loaders that are rerun leave the router in a state of its own.
LEMMA RevalidateTyped ==
  ASSUME SessionTyped, NEW hasUser \in BOOLEAN, NEW p \in Selection,
         revalidateOnProjectChange(p, hasUser), loaded' = loaded
  PROVE  RouterOK'
<1>1. nav.to \in Page /\ (path # "login" => path \in Page)
  BY DEF SessionTyped, RouterOK
<1>2. CASE nav.stage # "idle"
  BY <1>1, <1>2, GoesTyped DEF revalidateOnProjectChange
<1>3. CASE nav.stage = "idle" /\ path # "login"
  BY <1>1, <1>3, GoesTyped DEF revalidateOnProjectChange
<1>4. CASE nav.stage = "idle" /\ path = "login"
  BY <1>4 DEF revalidateOnProjectChange, SessionTyped, RouterOK
<1> QED
  BY <1>2, <1>3, <1>4

\* The login page is a page like the others.
LEMMA RedirectTyped ==
  ASSUME SessionTyped, redirectToLogin
  PROVE  SessionTyped'
<1>1. Goes("login", FALSE, "none") /\ UNCHANGED <<store, session, cached, loaded, touched, counters>>
  BY DEF redirectToLogin
<1>2. RouterOK'
  BY <1>1, GoesTyped DEF Selection
<1> QED
  BY <1>1, <1>2 DEF store, session, counters, SessionTyped, StoreOK, UserOK, CacheOK, BoundsOK

Cache == [me : BOOLEAN, data : SUBSET (Selection \cup {"job"})]

\* What the first stage of a loader has got, when the user is known, and how it goes on
GoesHome(c) ==
    /\ Goes("home", c.me, project)
    /\ touched' = (touched \/ leaving)
    /\ UNCHANGED project
SelectsRun(c) ==
    /\ project = "none" /\ project' = JobProject
    /\ nav' = Load("job", c.me, JobProject)
    /\ touched' = (touched \/ leaving)
    /\ UNCHANGED <<strays, path, error>>
GoesOn ==
    /\ nav' = [nav EXCEPT !.stage = "second", !.caches = TRUE,
                          !.project = IF nav.to \in {"run", "job"} THEN project ELSE @]
    /\ UNCHANGED <<project, strays, path, error, touched>>
Got(c) ==
    /\ nav.stage = "first" /\ (nav.me \/ cookie)
    /\ c \in Cache /\ c.me = (cached.me \/ (~nav.me /\ nav.caches))
    /\ cached' = c
    /\ GoesHome(c) \/ SelectsRun(c) \/ GoesOn
    /\ UNCHANGED <<token, minting, loaded, session, counters>>

\* loadFirst redirects to the login page, or goes on with what it has got.
LEMMA FirstGets ==
  ASSUME SessionTyped, loadFirst
  PROVE  nav.stage = "first" /\ (redirectToLogin \/ \E c \in Cache : Got(c))
<1>1. PICK runCaches \in {nav.caches, TRUE} :
        LET user == nav.me \/ cookie
            run  == nav.to = "job" => cookie \/ "job" \in cached.data
            got  == [me   |-> cached.me \/ (~nav.me /\ nav.caches),
                     data |-> cached.data \cup (IF nav.to = "job" /\ runCaches THEN {"job"} ELSE {})]
        IN  /\ nav.stage = "first"
            /\ \/ ~(user /\ run) /\ redirectToLogin
               \/ /\ user /\ run
                  /\ cached' = got
                  /\ \/ /\ nav.to = "admin-control" /\ role # "admin"
                        /\ Goes("home", got.me, project)
                        /\ touched' = (touched \/ leaving)
                        /\ UNCHANGED project
                     \/ /\ nav.to = "job" /\ project = "none"
                        /\ project' = JobProject
                        /\ nav' = Load("job", got.me, JobProject)
                        /\ touched' = (touched \/ leaving)
                        /\ UNCHANGED <<strays, path, error>>
                     \/ /\ ~(nav.to = "admin-control" /\ role # "admin")
                        /\ ~(nav.to = "job" /\ project = "none")
                        /\ nav' = [nav EXCEPT !.stage = "second", !.caches = TRUE,
                                              !.project = IF nav.to \in {"run", "job"} THEN project ELSE @]
                        /\ UNCHANGED <<project, strays, path, error, touched>>
                  /\ UNCHANGED <<token, minting, loaded, session, counters>>
  BY DEF loadFirst
<1> DEFINE c == [me   |-> cached.me \/ (~nav.me /\ nav.caches),
                 data |-> cached.data \cup (IF nav.to = "job" /\ runCaches THEN {"job"} ELSE {})]
<1>2. c \in Cache /\ c.me = (cached.me \/ (~nav.me /\ nav.caches))
  BY DEF SessionTyped, CacheOK, Cache
<1>3. CASE redirectToLogin
  BY <1>1, <1>3
<1>4. CASE ~redirectToLogin
  <2>1. nav.stage = "first" /\ (nav.me \/ cookie) /\ cached' = c
        /\ UNCHANGED <<token, minting, loaded, session, counters>>
    BY <1>1, <1>4
  <2>2. GoesHome(c) \/ SelectsRun(c) \/ GoesOn
    BY <1>1, <1>4 DEF GoesHome, SelectsRun, GoesOn
  <2> HIDE DEF c
  <2>3. Got(c)
    BY <1>2, <2>1, <2>2 DEF Got
  <2> QED
    BY <1>2, <2>1, <2>3
<1> QED
  BY <1>3, <1>4

\* The first stage of a loader keeps the types.
LEMMA GotTyped ==
  ASSUME SessionTyped, NEW c \in Cache, Got(c)
  PROVE  SessionTyped'
<1>1. c.me \in BOOLEAN /\ project \in Selection /\ JobProject \in Selection
  BY SessionAssumption DEF Cache, SessionTyped, StoreOK, Selection
<1>2. CacheOK' /\ BoundsOK'
  BY DEF Got, CacheOK, Cache, counters, SessionTyped, BoundsOK
<1>3. touched' \in BOOLEAN
  BY DEF Got, GoesHome, SelectsRun, GoesOn, SessionTyped, UserOK
<1>4. UserOK' /\ StoreOK'
  BY <1>1, <1>3 DEF Got, GoesHome, SelectsRun, GoesOn, session, SessionTyped, UserOK, StoreOK
<1>5. RouterOK'
  <2>1. CASE GoesHome(c)
    BY <1>1, <2>1, GoesTyped DEF GoesHome, Got, Page
  <2>2. CASE SelectsRun(c)
    BY <1>1, <2>2, LoadTyped DEF SelectsRun, Got, Page, SessionTyped, RouterOK, Nav
  <2>3. CASE GoesOn
    BY <1>1, <2>3 DEF GoesOn, Got, SessionTyped, RouterOK
  <2> QED
    BY <2>1, <2>2, <2>3 DEF Got
<1> QED
  BY <1>2, <1>4, <1>5 DEF SessionTyped

\* The other steps of loaders keep the types.
LEMMA LoaderTyped ==
  ASSUME SessionTyped, loadFirst \/ loadSecond \/ loadFails
  PROVE  SessionTyped'
<1>1. CASE loadFirst
  BY <1>1, FirstGets, GotTyped, RedirectTyped
<1>2. CASE loadSecond
  <2>1. CASE redirectToLogin
    BY <2>1, RedirectTyped
  <2>2. CASE ~redirectToLogin
    <3>1. /\ cached' = IF nav.caches THEN [cached EXCEPT !.data = @ \cup {nav.project}] ELSE cached
          /\ path' = nav.to /\ nav' = Idle /\ loaded' = nav.project /\ error' = "none"
          /\ UNCHANGED <<strays, store, session, touched, counters>>
      BY <1>2, <2>2 DEF loadSecond
    <3>2. RouterOK'
      BY <3>1, LoadTyped DEF SessionTyped, RouterOK, Nav
    <3>3. CacheOK'
      BY <3>1 DEF SessionTyped, RouterOK, CacheOK
    <3> QED
      BY <3>1, <3>2, <3>3 DEF store, session, counters, SessionTyped, StoreOK, UserOK, BoundsOK
  <2> QED
    BY <2>1, <2>2
<1>3. CASE loadFails
  <2>1. RouterOK'
    BY <1>3, LoadTyped DEF loadFails, SessionTyped, RouterOK, Nav
  <2>2. CacheOK'
    BY <1>3 DEF loadFails, SessionTyped, RouterOK, CacheOK
  <2>3. BoundsOK'
    BY <1>3, SessionAssumption DEF loadFails, SessionTyped, BoundsOK
  <2> QED
    BY <1>3, <2>1, <2>2, <2>3 DEF loadFails, store, session, SessionTyped, StoreOK, UserOK
<1> QED
  BY <1>1, <1>2, <1>3

\* A loader that was given up keeps the types.
LEMMA StrayTyped ==
  ASSUME SessionTyped, NEW p \in Selection, strayGoesOn(p)
  PROVE  SessionTyped'
<1>1. cached.me \in BOOLEAN /\ JobProject \in Selection /\ nav.to \in Page
      /\ (path # "login" => path \in Page) /\ nav \in Nav /\ nav.project \in Selection
  BY SessionAssumption DEF SessionTyped, StoreOK, CacheOK, RouterOK, Selection, Nav
<1>2. nav' \in Nav
  BY <1>1, LoadTyped DEF strayGoesOn
<1>3. strays' \in SUBSET Selection
  BY <1>1 DEF strayGoesOn, GivenUp, SessionTyped, RouterOK
<1>4. RouterOK'
  BY <1>2, <1>3 DEF strayGoesOn, SessionTyped, RouterOK, Nav
<1>5. UserOK' /\ StoreOK'
  BY <1>1 DEF strayGoesOn, session, SessionTyped, UserOK, StoreOK
<1> QED
  BY <1>4, <1>5 DEF strayGoesOn, counters, SessionTyped, CacheOK, BoundsOK

\* What the user does keeps the types.
LEMMA SessionUserTyped ==
  ASSUME SessionTyped,
         \/ \E p \in Selection : setCurrentProjectId(p)
         \/ \E to \in Page : navigate(to)
         \/ ErrorAlert \/ appTokenCreation \/ logout \/ LoginForm
  PROVE  SessionTyped'
<1>0. /\ cached.me \in BOOLEAN /\ project \in Selection /\ "none" \in Selection /\ "home" \in Page
      /\ FALSE \in BOOLEAN
  BY DEF SessionTyped, StoreOK, CacheOK, Selection, Page
<1>1. ASSUME NEW p \in Selection, setCurrentProjectId(p) PROVE SessionTyped'
  <2>1. RouterOK'
    BY <1>0, <1>1, RevalidateTyped DEF setCurrentProjectId
  <2>2. BoundsOK'
    BY <1>1, SessionAssumption DEF setCurrentProjectId, SessionTyped, BoundsOK
  <2> QED
    BY <1>1, <2>1, <2>2 DEF setCurrentProjectId, session, SessionTyped, StoreOK, UserOK, CacheOK
<1>2. ASSUME NEW to \in Page, navigate(to) PROVE SessionTyped'
  <2>1. RouterOK'
    BY <1>0, <1>2, GoesTyped DEF navigate
  <2>2. BoundsOK'
    BY <1>2, SessionAssumption DEF navigate, SessionTyped, BoundsOK
  <2> QED
    BY <1>2, <2>1, <2>2 DEF navigate, store, session, SessionTyped, StoreOK, UserOK, CacheOK
<1>3. CASE ErrorAlert
  <2>1. path \in Page /\ navigate(path)
    BY <1>3 DEF ErrorAlert, SessionTyped, RouterOK
  <2> QED
    BY <1>2, <2>1
<1>4. CASE appTokenCreation
  <2>1. BoundsOK'
    BY <1>4, SessionAssumption DEF appTokenCreation, SessionTyped, BoundsOK
  <2>2. StoreOK'
    BY <1>4 DEF appTokenCreation, SessionTyped, StoreOK, Selection
  <2> QED
    BY <1>4, <2>1, <2>2 DEF appTokenCreation, router, session, SessionTyped, RouterOK, UserOK, CacheOK
<1>5. CASE logout
  <2>1. RouterOK'
    <3>1. CASE project # "none"
      BY <1>0, <1>5, <3>1, RevalidateTyped DEF logout
    <3>2. CASE project = "none"
      BY <1>5, <3>2 DEF logout, SessionTyped, RouterOK
    <3> QED
      BY <3>1, <3>2
  <2>2. CacheOK'
    BY <1>5 DEF logout, Empty, CacheOK
  <2>3. StoreOK' /\ UserOK'
    BY <1>0, <1>5 DEF logout, SessionTyped, StoreOK, UserOK
  <2> QED
    BY <1>5, <2>1, <2>2, <2>3 DEF logout, counters, SessionTyped, BoundsOK
<1>6. CASE LoginForm
  <2>1. RouterOK'
    BY <1>0, <1>6, LoadTyped DEF LoginForm, SessionTyped, RouterOK, Nav
  <2>2. CacheOK' /\ StoreOK' /\ UserOK'
    BY <1>0, <1>6 DEF LoginForm, Empty, CacheOK, StoreOK, UserOK
  <2>3. BoundsOK'
    BY <1>6, SessionAssumption DEF LoginForm, SessionTyped, BoundsOK
  <2> QED
    BY <2>1, <2>2, <2>3 DEF SessionTyped
<1> QED
  BY <1>1, <1>2, <1>3, <1>4, <1>5, <1>6

\* What MSS answers, and the end of a session, keep the types.
LEMMA AnswersTyped ==
  ASSUME SessionTyped,
         (\E p \in Project : setApiToken(p)) \/ handleLogout \/ logoutFails \/ sessionExpires
  PROVE  SessionTyped'
<1>1. ASSUME NEW p \in Project, setApiToken(p) PROVE SessionTyped'
  <2>1. StoreOK'
    BY <1>1 DEF setApiToken, SessionTyped, StoreOK, Selection
  <2> QED
    BY <1>1, <2>1 DEF setApiToken, router, session, counters, SessionTyped, RouterOK, UserOK,
       CacheOK, BoundsOK
<1>2. CASE handleLogout
  <2>1. RouterOK'
    BY <1>2, GoesTyped DEF handleLogout, Selection
  <2> QED
    BY <1>2, <2>1 DEF handleLogout, store, counters, SessionTyped, StoreOK, UserOK, CacheOK, BoundsOK
<1>3. CASE logoutFails \/ sessionExpires
  <2>1. BoundsOK'
    BY <1>3, SessionAssumption DEF logoutFails, sessionExpires, SessionTyped, BoundsOK
  <2> QED
    BY <1>3, <2>1 DEF logoutFails, sessionExpires, store, router, SessionTyped, StoreOK, RouterOK,
       UserOK, CacheOK
<1> QED
  BY <1>1, <1>2, <1>3

\* Every step of the session keeps the types.
LEMMA SessionStepTyped == SessionTyped /\ SessionNext => SessionTyped'
BY LoaderTyped, StrayTyped, SessionUserTyped, AnswersTyped DEF SessionNext, LoaderStep

\* The session starts with its types, whichever part is at work.
LEMMA SessionInitTyped == Init => SessionTyped
<1> SUFFICES ASSUME Init PROVE SessionTyped
  OBVIOUS
<1>1. SessionInit \/ HomeIsShown
  BY DEF Init
<1>2. StoreOK /\ UserOK /\ CacheOK
  <2>1. project = "none" /\ token = "none" /\ minting = {}
    BY <1>1 DEF SessionInit, HomeIsShown
  <2>2. StoreOK
    BY <2>1 DEF StoreOK, Selection
  <2>3. role \in {"user", "admin"} /\ cookie \in BOOLEAN
    BY <1>1 DEF SessionInit, HomeIsShown
  <2>4. leaving = FALSE /\ out = FALSE /\ touched = FALSE
    BY <1>1 DEF SessionInit, HomeIsShown
  <2>5. UserOK
    BY <2>3, <2>4 DEF UserOK
  <2>6. cached \in {Empty, [me |-> TRUE, data |-> {"none"}]}
    BY <1>1 DEF SessionInit, HomeIsShown
  <2>7. CacheOK
    <3>1. /\ {} \in SUBSET (Selection \cup {"job"}) /\ {"none"} \in SUBSET (Selection \cup {"job"})
          /\ TRUE \in BOOLEAN /\ FALSE \in BOOLEAN
      BY DEF Selection
    <3>2. CASE cached = Empty
      BY <3>1, <3>2 DEF CacheOK, Empty
    <3>3. CASE cached = [me |-> TRUE, data |-> {"none"}]
      BY <3>1, <3>3 DEF CacheOK
    <3> QED
      BY <2>6, <3>2, <3>3
  <2> QED
    BY <2>2, <2>5, <2>7
<1>3. nav \in Nav
  <2>1. CASE SessionInit
    <3>1. PICK p \in Page : nav = Load(p, FALSE, "none")
      BY <2>1 DEF SessionInit
    <3> QED
      BY <3>1, LoadTyped DEF Selection
  <2>2. CASE HomeIsShown
    BY <2>2, LoadTyped DEF HomeIsShown
  <2> QED
    BY <1>1, <2>1, <2>2
<1>4. RouterOK
  <2>1. path \in {"login", "home"} /\ error = "none" /\ strays = {} /\ loaded = "none"
    BY <1>1 DEF SessionInit, HomeIsShown
  <2> QED
    BY <1>3, <2>1 DEF RouterOK, Nav, Page, Selection
<1>5. BoundsOK
  <2>1. navs = 0 /\ picks = 0 /\ signIns = 0 /\ failures = 0
    BY <1>1 DEF SessionInit, HomeIsShown
  <2> QED
    BY <2>1, SessionAssumption DEF BoundsOK
<1> QED
  BY <1>2, <1>4, <1>5 DEF SessionTyped

-----------------------------------------------------------------------------
\* Pages and the selected project

PageInv == Loading /\ LoadedIsSelected

\* Going to a page with the project that is selected keeps pages and projects together.
LEMMA GoesSelected ==
  ASSUME NEW to, NEW hasUser, Goes(to, hasUser, project'), to # "login" \/ nav' = Idle
  PROVE  PageInv'
BY DEF Goes, Load, Idle, PageInv, Loading, LoadedIsSelected

\* So does rerunning the loaders when another one is selected; the login page shows none.
LEMMA RevalidateSelects ==
  ASSUME SessionTyped, NEW hasUser, NEW p, revalidateOnProjectChange(p, hasUser), project' = p
  PROVE  PageInv'
<1>1. CASE nav.stage # "idle"
  BY <1>1, GoesSelected DEF revalidateOnProjectChange, SessionTyped, RouterOK, Page
<1>2. CASE nav.stage = "idle" /\ path # "login"
  BY <1>2, GoesSelected DEF revalidateOnProjectChange
<1>3. CASE nav.stage = "idle" /\ path = "login"
  BY <1>3 DEF revalidateOnProjectChange, PageInv, Loading, LoadedIsSelected
<1> QED
  BY <1>1, <1>2, <1>3

\* The loaders show what they have read, which is of the project that is still selected.
LEMMA LoaderSelects ==
  ASSUME SessionTyped, PageInv, loadFirst \/ loadSecond \/ loadFails
  PROVE  PageInv'
<1>0. ASSUME redirectToLogin PROVE PageInv'
  BY <1>0 DEF redirectToLogin, Goes, Idle, PageInv, Loading, LoadedIsSelected
<1>1. ASSUME NEW c \in Cache, Got(c) PROVE PageInv'
  <2>1. CASE GoesHome(c)
    BY <2>1, GoesSelected DEF GoesHome
  <2>2. CASE SelectsRun(c)
    BY <2>2 DEF SelectsRun, Load, PageInv, Loading, LoadedIsSelected
  <2>3. CASE GoesOn
    <3>1. nav'.stage = "second" /\ nav'.project \in {project, nav.project} /\ project' = project
      BY <2>3 DEF GoesOn, SessionTyped, RouterOK
    <3>2. nav.project = project
      BY <1>1 DEF Got, PageInv, Loading
    <3> QED
      BY <3>1, <3>2 DEF PageInv, Loading, LoadedIsSelected
  <2> QED
    BY <1>1, <2>1, <2>2, <2>3 DEF Got
<1>2. CASE loadFirst
  BY <1>0, <1>1, <1>2, FirstGets
<1>3. CASE loadSecond
  <2>1. nav.project = project
    BY <1>3 DEF loadSecond, PageInv, Loading
  <2>2. redirectToLogin \/ (nav' = Idle /\ loaded' = nav.project /\ project' = project)
    BY <1>3 DEF loadSecond, store
  <2> QED
    BY <1>0, <2>1, <2>2 DEF Idle, PageInv, Loading, LoadedIsSelected
<1>4. CASE loadFails
  BY <1>4 DEF loadFails, Idle, PageInv, Loading, LoadedIsSelected
<1> QED
  BY <1>2, <1>3, <1>4

\* Every step of the session keeps pages and projects together.
LEMMA SessionSelects == SessionTyped /\ PageInv /\ SessionNext => PageInv'
<1> SUFFICES ASSUME SessionTyped, PageInv, SessionNext PROVE PageInv'
  OBVIOUS
<1>1. CASE LoaderStep \/ loadFails
  BY <1>1, LoaderSelects DEF LoaderStep
<1>2. ASSUME NEW p \in Selection, strayGoesOn(p) PROVE PageInv'
  <2>1. CASE UNCHANGED <<project, nav>>
    BY <1>2, <2>1 DEF strayGoesOn, PageInv, Loading, LoadedIsSelected
  <2>2. CASE /\ project' = JobProject
             /\ nav' = IF nav.stage # "idle" THEN Load(nav.to, cached.me, JobProject)
                       ELSE IF path # "login" THEN Load(path, cached.me, JobProject) ELSE nav
    <3>1. path' = path
      BY <1>2 DEF strayGoesOn
    <3>2. CASE nav.stage = "idle" /\ path = "login"
      BY <2>2, <3>1, <3>2 DEF PageInv, Loading, LoadedIsSelected
    <3>3. CASE nav.stage # "idle" \/ path # "login"
      <4>1. nav'.stage = "first" /\ nav'.project = JobProject
        BY <2>2, <3>3 DEF Load
      <4> QED
        BY <2>2, <4>1 DEF PageInv, Loading, LoadedIsSelected
    <3> QED
      BY <3>2, <3>3
  <2> QED
    BY <1>2, <2>1, <2>2 DEF strayGoesOn
<1>3. ASSUME NEW p \in Selection, setCurrentProjectId(p) PROVE PageInv'
  BY <1>3, RevalidateSelects DEF setCurrentProjectId
<1>4. ASSUME NEW to \in Page, navigate(to) PROVE PageInv'
  <2>1. Goes(to, cached.me, project) /\ project' = project /\ to # "login"
    BY <1>4 DEF navigate, store, Page
  <2> QED
    BY <2>1, GoesSelected
<1>5. CASE ErrorAlert
  <2>1. path \in Page /\ navigate(path)
    BY <1>5 DEF ErrorAlert, SessionTyped, RouterOK
  <2> QED
    BY <1>4, <2>1
<1>6. CASE (\E p \in Project : setApiToken(p)) \/ appTokenCreation \/ logoutFails \/ sessionExpires
  <2>1. UNCHANGED <<project, path, nav, loaded, error>>
    BY <1>6 DEF setApiToken, appTokenCreation, logoutFails, sessionExpires, router, store
  <2> QED
    BY <2>1 DEF PageInv, Loading, LoadedIsSelected
<1>7. CASE logout
  <2>1. CASE project # "none"
    BY <1>7, <2>1, RevalidateSelects DEF logout
  <2>2. CASE project = "none"
    <3>1. nav'.stage = nav.stage /\ nav'.project = nav.project /\ UNCHANGED <<project, path, loaded, error>>
      BY <1>7, <2>2 DEF logout, SessionTyped, RouterOK
    <3> QED
      BY <3>1 DEF PageInv, Loading, LoadedIsSelected
  <2> QED
    BY <2>1, <2>2
<1>8. CASE handleLogout
  BY <1>8 DEF handleLogout, Goes, Idle, PageInv, Loading, LoadedIsSelected
<1>9. CASE LoginForm
  BY <1>9 DEF LoginForm, Load, PageInv, Loading, LoadedIsSelected
<1> QED
  BY <1>1, <1>2, <1>3, <1>4, <1>5, <1>6, <1>7, <1>8, <1>9 DEF SessionNext

\* A selection is changed only by the user, a logout or a sign-in.
LEMMA SessionKeepsSelection ==
  ASSUME SessionTyped, SessionNext, project # "none", project' # project
  PROVE  picks' # picks \/ leaving' # leaving \/ signIns' # signIns
<1>1. CASE loadFirst
  <2>1. redirectToLogin => project' = project
    BY DEF redirectToLogin, store
  <2>2. ASSUME NEW c \in Cache, Got(c) PROVE project' = project \/ project = "none"
    BY <2>2 DEF Got, GoesHome, SelectsRun, GoesOn
  <2> QED
    BY <1>1, <2>1, <2>2, FirstGets
<1>2. ~loadSecond /\ ~loadFails /\ ~(\E p \in Selection : strayGoesOn(p))
      /\ ~(\E p \in Project : setApiToken(p)) /\ ~(\E to \in Page : navigate(to)) /\ ~ErrorAlert
      /\ ~appTokenCreation /\ ~handleLogout /\ ~logoutFails /\ ~sessionExpires
  BY DEF loadSecond, redirectToLogin, loadFails, strayGoesOn, setApiToken, navigate, ErrorAlert,
     appTokenCreation, handleLogout, logoutFails, sessionExpires, store
<1>3. ASSUME NEW p \in Selection, setCurrentProjectId(p) PROVE picks' # picks
  <2>1. picks' = picks + 1 /\ picks \in Nat
    BY <1>3, SessionAssumption DEF setCurrentProjectId, SessionTyped, BoundsOK
  <2> QED
    BY <2>1
<1>4. CASE logout
  BY <1>4 DEF logout
<1>5. CASE LoginForm
  <2>1. signIns' = signIns + 1 /\ signIns \in Nat
    BY <1>5, SessionAssumption DEF LoginForm, SessionTyped, BoundsOK
  <2> QED
    BY <2>1
<1> QED
  BY <1>1, <1>2, <1>3, <1>4, <1>5 DEF SessionNext, LoaderStep

-----------------------------------------------------------------------------
\* Logging out

OutInv == Leaving /\ Gone

\* Once something was touched, or while no logout is under way or past, nothing is at stake.
LEMMA Unattended == ASSUME touched' \/ (~leaving' /\ ~out') PROVE OutInv'
BY DEF OutInv, Leaving, Gone

\* A redirect to the login page keeps what is empty so.
LEMMA RedirectStaysOut ==
  ASSUME SessionTyped, OutInv, redirectToLogin
  PROVE  OutInv'
<1>1. /\ UNCHANGED <<project, token, minting, cookie, leaving, out, touched, cached>>
      /\ nav' = Idle /\ path' = "login"
  BY DEF redirectToLogin, Goes, store, session
<1>2. nav'.stage = "idle"
  BY <1>1 DEF Idle
<1> QED
  BY <1>1, <1>2 DEF OutInv, Leaving, Gone

\* The loaders that a logout finds, or reruns, do not bring back the user.
LEMMA LoaderStaysOut ==
  ASSUME SessionTyped, OutInv, loadFirst \/ loadSecond \/ loadFails
  PROVE  OutInv'
<1>1. ASSUME NEW c \in Cache, Got(c) PROVE OutInv'
  <2>1. CASE touched' \/ (~leaving' /\ ~out')
    BY <2>1, Unattended
  <2>2. CASE ~touched' /\ (leaving' \/ out')
    <3>1. UNCHANGED <<token, minting, role, cookie, leaving, out>>
          /\ nav.stage = "first" /\ (nav.me \/ cookie) /\ cached' = c
          /\ c.me = (cached.me \/ (~nav.me /\ nav.caches))
      BY <1>1 DEF Got, session
    <3>2. ~touched
      BY <1>1, <2>2 DEF Got, GoesHome, SelectsRun, GoesOn
    <3>3. leaving /\ ~out
      BY <2>2, <3>1, <3>2 DEF OutInv, Gone
    <3>4. GoesOn
      BY <1>1, <2>2, <3>3 DEF Got, GoesHome, SelectsRun
    <3>5. nav'.stage = "second" /\ UNCHANGED project
      BY <3>4 DEF GoesOn, SessionTyped, RouterOK
    <3>6. /\ project = "none" /\ token = "none" /\ minting = {}
          /\ ~cached.me /\ (nav.me \/ ~nav.caches)
      BY <3>1, <3>2, <3>3 DEF OutInv, Leaving
    <3>7. ~cached'.me
      BY <3>1, <3>6
    <3> QED
      BY <3>1, <3>3, <3>5, <3>6, <3>7 DEF OutInv, Leaving, Gone
  <2> QED
    BY <2>1, <2>2
<1>2. CASE loadFirst
  BY <1>1, <1>2, FirstGets, RedirectStaysOut
<1>3. CASE loadSecond /\ ~redirectToLogin
  <2>1. /\ nav.stage = "second" /\ nav' = Idle
        /\ cached' = IF nav.caches THEN [cached EXCEPT !.data = @ \cup {nav.project}] ELSE cached
        /\ UNCHANGED <<project, token, minting, cookie, leaving, out, touched>>
    BY <1>3 DEF loadSecond, store, session
  <2>2. nav'.stage = "idle" /\ cached'.me = cached.me
    BY <2>1 DEF Idle, SessionTyped, CacheOK
  <2>3. ~(out /\ ~touched)
    BY <2>1 DEF OutInv, Gone
  <2> QED
    BY <2>1, <2>2, <2>3 DEF OutInv, Leaving, Gone
<1>4. CASE loadFails
  <2>1. /\ nav' = Idle /\ nav.stage # "idle"
        /\ UNCHANGED <<project, token, minting, cookie, leaving, out, touched>>
    BY <1>4 DEF loadFails, store, session
  <2>2. nav'.stage = "idle"
    BY <2>1 DEF Idle
  <2>3. cached'.me = cached.me \/ cached'.me = (cached.me \/ (nav.stage = "first" /\ ~nav.me /\ nav.caches))
    BY <1>4 DEF loadFails, SessionTyped, CacheOK
  <2>4. leaving /\ ~touched => ~cached'.me
    BY <2>3 DEF OutInv, Leaving
  <2>5. out /\ ~touched => error' = "frame" /\ ~cached'.me
    <3> SUFFICES ASSUME out, ~touched PROVE error' = "frame" /\ ~cached'.me
      OBVIOUS
    <3>1. ~cookie /\ ~nav.me /\ ~cached.me
      BY <2>1 DEF OutInv, Gone
    <3> QED
      BY <1>4, <3>1 DEF loadFails
  <2> QED
    BY <2>1, <2>2, <2>4, <2>5 DEF OutInv, Leaving, Gone
<1> QED
  BY <1>2, <1>3, <1>4, RedirectStaysOut

\* What the user does while a logout is under way counts as touched; after it there is no frame
\* to do anything in, and a page that is gone to finds no user.
LEMMA UserStaysOut ==
  ASSUME SessionTyped, OutInv,
         \/ \E p \in Selection : setCurrentProjectId(p)
         \/ \E to \in Page : navigate(to)
         \/ ErrorAlert \/ appTokenCreation \/ logout \/ LoginForm
  PROVE  OutInv'
<1>1. Framed => touched \/ ~out
  BY DEF Framed, OutInv, Gone
<1>2. ASSUME NEW p \in Selection, setCurrentProjectId(p) PROVE OutInv'
  <2>1. touched' \/ (~leaving' /\ ~out')
    BY <1>1, <1>2 DEF setCurrentProjectId, session, SessionTyped, UserOK
  <2> QED
    BY <2>1, Unattended
<1>3. CASE appTokenCreation
  <2>1. touched' \/ (~leaving' /\ ~out')
    BY <1>1, <1>3 DEF appTokenCreation, session, SessionTyped, UserOK
  <2> QED
    BY <2>1, Unattended
<1>4. ASSUME NEW to \in Page, navigate(to) PROVE OutInv'
  <2>1. /\ UNCHANGED <<project, token, minting, cookie, leaving, out, cached>>
        /\ touched' = (touched \/ leaving) /\ nav' = Load(to, cached.me, project)
        /\ UNCHANGED <<path, error>>
    BY <1>4 DEF navigate, Goes, store, session, Page
  <2>2. nav'.stage = "first" /\ nav'.me = cached.me
    BY <2>1 DEF Load
  <2>3. leaving => touched'
    BY <2>1
  <2> QED
    BY <2>1, <2>2, <2>3 DEF OutInv, Leaving, Gone
<1>5. CASE ErrorAlert
  <2>1. path \in Page /\ navigate(path)
    BY <1>5 DEF ErrorAlert, SessionTyped, RouterOK
  <2> QED
    BY <1>4, <2>1
<1>6. CASE logout
  <2>1. /\ touched' = ((out /\ touched) \/ minting # {} \/ strays # {} \/ ~cached.me)
        /\ project' = "none" /\ token' = "none" /\ cached' = Empty /\ UNCHANGED <<minting, out>>
        /\ Framed
    BY <1>6 DEF logout
  <2>2. CASE touched'
    BY <2>2, Unattended
  <2>3. CASE ~touched'
    <3>1. ~out /\ ~out' /\ minting' = {} /\ cached.me
      BY <1>1, <2>1, <2>3
    <3>2. ~cached'.me
      BY <2>1 DEF Empty
    <3>3. nav'.stage = "first" => nav'.me \/ ~nav'.caches
      <4>1. CASE project # "none"
        <5>1. revalidateOnProjectChange("none", cached.me)
          BY <1>6, <4>1 DEF logout
        <5>2. \/ nav' = Load(nav.to, cached.me, "none")
              \/ nav' = Load(path, cached.me, "none")
          BY <2>1, <5>1 DEF revalidateOnProjectChange, Goes, Framed, SessionTyped, RouterOK, Page
        <5> QED
          BY <3>1, <5>2 DEF Load
      <4>2. CASE project = "none"
        <5>1. nav' = [nav EXCEPT !.caches = FALSE]
          BY <1>6, <4>2 DEF logout
        <5> QED
          BY <5>1 DEF SessionTyped, RouterOK
      <4> QED
        BY <4>1, <4>2
    <3> QED
      BY <2>1, <3>1, <3>2, <3>3 DEF OutInv, Leaving, Gone
  <2> QED
    BY <2>2, <2>3
<1>7. CASE LoginForm
  BY <1>7, Unattended DEF LoginForm
<1> QED
  BY <1>2, <1>3, <1>4, <1>5, <1>6, <1>7

\* Every step of the session leaves who is out, out.
LEMMA SessionStaysOut == SessionTyped /\ OutInv /\ SessionNext => OutInv'
<1> SUFFICES ASSUME SessionTyped, OutInv, SessionNext PROVE OutInv'
  OBVIOUS
<1>1. CASE LoaderStep \/ loadFails
  BY <1>1, LoaderStaysOut DEF LoaderStep
<1>2. ASSUME NEW p \in Selection, strayGoesOn(p) PROVE OutInv'
  <2>1. UNCHANGED <<token, minting, cookie, leaving, out, cached, path, error>>
    BY <1>2 DEF strayGoesOn, session
  <2>2. CASE UNCHANGED <<project, nav, touched>>
    BY <2>1, <2>2 DEF OutInv, Leaving, Gone
  <2>3. CASE touched' = (touched \/ leaving \/ out)
    <3>1. touched' \/ (~leaving' /\ ~out')
      BY <2>1, <2>3
    <3> QED
      BY <3>1, Unattended
  <2> QED
    BY <1>2, <2>2, <2>3 DEF strayGoesOn
<1>3. ASSUME NEW p \in Project, setApiToken(p) PROVE OutInv'
  <2>1. minting # {} /\ UNCHANGED <<leaving, out, touched>>
    BY <1>3 DEF setApiToken, session
  <2>2. touched' \/ (~leaving' /\ ~out')
    BY <2>1 DEF OutInv, Leaving, Gone
  <2> QED
    BY <2>2, Unattended
<1>4. CASE handleLogout
  <2>1. /\ leaving /\ ~leaving' /\ ~cookie' /\ out' /\ touched' = (touched \/ GivenUp # {})
        /\ nav' = Idle /\ path' = "login" /\ UNCHANGED <<project, token, minting, cached>>
    BY <1>4 DEF handleLogout, Goes, store
  <2>2. nav'.stage = "idle"
    BY <2>1 DEF Idle
  <2>3. ~touched' => ~touched
    BY <2>1
  <2> QED
    BY <2>1, <2>2, <2>3 DEF OutInv, Leaving, Gone
<1>5. CASE logoutFails
  <2>1. leaving /\ ~leaving' /\ UNCHANGED <<out, touched>>
    BY <1>5 DEF logoutFails
  <2>2. touched' \/ (~leaving' /\ ~out')
    BY <2>1 DEF OutInv, Leaving
  <2> QED
    BY <2>2, Unattended
<1>6. CASE sessionExpires
  <2>1. ~cookie' /\ UNCHANGED <<project, token, minting, nav, path, error, leaving, out, touched, cached>>
    BY <1>6 DEF sessionExpires, store, router
  <2> QED
    BY <2>1 DEF OutInv, Leaving, Gone
<1> QED
  BY <1>1, <1>2, <1>3, <1>4, <1>5, <1>6, UserStaysOut DEF SessionNext

-----------------------------------------------------------------------------
SessionInv == SessionTyped /\ PageInv /\ OutInv

\* It holds at first, and whichever part of the frame is at work.
LEMMA SessionInvariant == Spec => []SessionInv
<1>1. Init => SessionInv
  <2> SUFFICES ASSUME Init PROVE SessionInv
    OBVIOUS
  <2>1. SessionInit \/ HomeIsShown
    BY DEF Init
  <2>2. leaving = FALSE /\ out = FALSE
    BY <2>1 DEF SessionInit, HomeIsShown
  <2>3. OutInv
    BY <2>2 DEF OutInv, Leaving, Gone
  <2>4. PageInv
    <3>1. CASE SessionInit
      <4>1. PICK p \in Page : nav = Load(p, FALSE, "none")
        BY <3>1 DEF SessionInit
      <4>2. nav.stage = "first" /\ nav.project = "none" /\ project = "none"
        BY <3>1, <4>1 DEF SessionInit, Load
      <4> QED
        BY <4>2 DEF PageInv, Loading, LoadedIsSelected
    <3>2. CASE HomeIsShown
      <4>1. nav = Idle /\ project = "none" /\ loaded = "none"
        BY <3>2 DEF HomeIsShown
      <4> QED
        BY <4>1 DEF Idle, PageInv, Loading, LoadedIsSelected
    <3> QED
      BY <2>1, <3>1, <3>2
  <2> QED
    BY <2>3, <2>4, SessionInitTyped DEF SessionInv
<1>2. SessionInv /\ [Next]_vars => SessionInv'
  <2> SUFFICES ASSUME SessionInv, [Next]_vars PROVE SessionInv'
    OBVIOUS
  <2>1. CASE SessionNext
    BY <2>1, SessionStepTyped, SessionSelects, SessionStaysOut DEF SessionInv
  <2>2. CASE UNCHANGED sessionVars
    <3>1. UNCHANGED <<project, token, minting, path, nav, strays, loaded, error, role, cookie, leaving,
                      out, cached, touched, navs, picks, signIns, failures>>
      BY <2>2 DEF sessionVars, store, router, session, counters
    <3>2. SessionTyped'
      BY <3>1 DEF SessionInv, SessionTyped, StoreOK, RouterOK, UserOK, CacheOK, BoundsOK
    <3>3. PageInv' /\ OutInv'
      BY <3>1 DEF SessionInv, PageInv, Loading, LoadedIsSelected, OutInv, Leaving, Gone
    <3> QED
      BY <3>2, <3>3 DEF SessionInv
  <2> QED
    BY <2>1, <2>2 DEF Next, vars
<1> QED
  BY <1>1, <1>2, PTL DEF Spec

\* router.tsx and the loaders: the session is type-correct, for any projects and bounds.
THEOREM SessionTypeCorrect == Spec => []SessionTypeOK
<1>1. SessionInv => SessionTypeOK
  BY DEF SessionInv, SessionTyped, StoreOK, RouterOK, UserOK, CacheOK, BoundsOK, SessionTypeOK
<1> QED
  BY <1>1, SessionInvariant, PTL

\* revalidateOnProjectChange in router.tsx: a page that is shown has the data of the selected
\* project, however many projects there are and however often they are selected, by the user
\* or by a run's link, while pages are loading.
THEOREM PagesAreOfTheSelection == Spec => []LoadedIsSelected
<1>1. SessionInv => LoadedIsSelected
  BY DEF SessionInv, PageInv
<1> QED
  BY <1>1, SessionInvariant, PTL

\* The loader of a run's link, which decides after it has awaited the run: a selection is
\* changed only by the user, a logout or a sign-in.
THEOREM SelectionsAreKept == Spec => SelectionKept
<1>1. SessionInv /\ [Next]_vars =>
        [project # "none" /\ project' # project =>
           picks' # picks \/ leaving' # leaving \/ signIns' # signIns]_sessionVars
  <2> SUFFICES ASSUME SessionInv, [Next]_vars, project # "none", project' # project
               PROVE  picks' # picks \/ leaving' # leaving \/ signIns' # signIns
    OBVIOUS
  <2>1. SessionNext
    BY DEF Next, vars, sessionVars, store
  <2> QED
    BY <2>1, SessionKeepsSelection DEF SessionInv
<1> QED
  BY <1>1, SessionInvariant, PTL DEF Spec, SelectionKept

\* logout in lib/api/auth.ts: after a logout during which the user did nothing else, no page
\* opens and neither project nor token comes back, whatever loaders were under way.
THEOREM LoggedOutIsOut == Spec => []OutIsOut
<1>1. SessionInv => OutIsOut
  BY DEF SessionInv, OutInv, Gone, OutIsOut
<1> QED
  BY <1>1, SessionInvariant, PTL

-----------------------------------------------------------------------------
\* The notices

\* The lists hold notices that have arrived, and the switches have been loaded
QueriesOK ==
    /\ queries = [q \in AllQueries |-> queries[q]]
    /\ \A q \in Lists : queries[q] \in QueryOf(SUBSET arrived)
    /\ queries["switches"] \in QueryOf(Preferences) /\ queries["switches"].has

NoticesTyped ==
    /\ mounted \subseteq AllQueries
    /\ arrived \subseteq Notice /\ unread \subseteq arrived
    /\ prefs \in Preferences
    /\ QueriesOK
    /\ reactions \in Seq(Reaction)
    /\ overlapped \in BOOLEAN /\ crashed \in BOOLEAN

\* A reaction is of a notice that has arrived; what it has marked is not unread again; and the
\* lists whose fetches are its own do not have it, nor do the answers on their way
ReactionOK(i) ==
    LET r == reactions[i] IN
    /\ r.kind \in {"dismiss", "decide"} => r.notice \in arrived
    /\ r.marked \subseteq arrived \ unread
    /\ r.stage = "sent" => r.fresh = {}
    /\ \A q \in r.fresh :
         /\ q \notin r.waits => r.marked \cap queries[q].data = {}
         /\ queries[q].fetch = "answered" => r.marked \cap queries[q].answer = {}

Marks == \A i \in DOMAIN reactions : ReactionOK(i)

\* One switch is saved at a time, and its hook shows it until then
Unsaved == {i \in DOMAIN reactions : reactions[i].kind = "switch" /\ reactions[i].stage # "done"}

SwitchOK(i) ==
    LET r == reactions[i] IN
    r.kind = "switch" =>
      /\ "switches" \in mounted /\ r.from = "form" /\ r.notice = 0
      /\ r.stage \in {"sent", "handled", "refused", "done"}
      /\ r.stage # "done" => r.seen
      /\ r.stage = "handled" => r.answer = prefs

\* What the switches show, or will when the answer on its way arrives, is what MSS has
Agree ==
    /\ queries["switches"].fetch = "idle" => queries["switches"].data = prefs
    /\ queries["switches"].fetch = "answered" => queries["switches"].answer = prefs

SwitchesOK ==
    /\ \A i \in DOMAIN reactions : SwitchOK(i)
    /\ \A i, j \in Unsaved : i = j
    /\ crashed \/ overlapped \/ (\E i \in Unsaved : reactions[i].stage # "sent") \/ Agree
    /\ "switches" \notin mounted => queries["switches"].fetch = "idle" /\ Agree /\ ~overlapped

\* What happens to a query leaves it a query.
LEMMA QueryTyped ==
  ASSUME NEW D, NEW q \in QueryOf(D), NEW d \in D
  PROVE  /\ Refetch(q) \in QueryOf(D) /\ Invalidate(q) \in QueryOf(D)
         /\ Answer(q, d) \in QueryOf(D) /\ Applied(q) \in QueryOf(D)
BY DEF QueryOf, Refetch, Invalidate, JoinsFirstFetch, Answer, Applied

\* The reactions stay a sequence when each is replaced by a reaction.
LEMMA MapTyped ==
  ASSUME reactions \in Seq(Reaction), NEW f, f = [i \in DOMAIN reactions |-> f[i]],
         \A i \in DOMAIN reactions : f[i] \in Reaction
  PROVE  f \in Seq(Reaction) /\ DOMAIN f = DOMAIN reactions
<1>1. DOMAIN reactions = 1..Len(reactions) /\ Len(reactions) \in Nat
  BY LenProperties
<1>2. f \in [1..Len(reactions) -> Reaction]
  BY <1>1
<1> QED
  BY <1>1, <1>2

\* So they do when one of them is.
LEMMA OneTyped ==
  ASSUME reactions \in Seq(Reaction), NEW i \in DOMAIN reactions, NEW r \in Reaction, NEW f,
         f = [reactions EXCEPT ![i] = r]
  PROVE  /\ f \in Seq(Reaction) /\ DOMAIN f = DOMAIN reactions /\ f[i] = r
         /\ \A k \in DOMAIN reactions \ {i} : f[k] = reactions[k]
<1>1. DOMAIN reactions = 1..Len(reactions) /\ Len(reactions) \in Nat
      /\ reactions \in [1..Len(reactions) -> Reaction]
  BY LenProperties
<1>2. f \in [1..Len(reactions) -> Reaction]
  BY <1>1
<1>3. f \in Seq(Reaction)
  BY <1>1, <1>2
<1> QED
  BY <1>1, <1>3

\* Drawing the page changes only what its components still show, and no switch.
LEMMA DrawnOK ==
  ASSUME NEW rs \in Seq(Reaction), NEW qs, NEW isOpen, NEW i \in DOMAIN rs,
         NEW s, s = Drawn(rs, qs, isOpen)[i]
  PROVE  /\ s \in Reaction
         /\ s.kind = rs[i].kind /\ s.notice = rs[i].notice /\ s.stage = rs[i].stage
         /\ s.marked = rs[i].marked /\ s.waits = rs[i].waits /\ s.fresh = rs[i].fresh
         /\ rs[i].from = "form" => s = rs[i]
<1> DEFINE c == CASE rs[i].from = "item"   -> isOpen /\ rs[i].notice \in qs.bell.data
                  [] rs[i].from = "banner" -> rs[i].notice \in TopBanner(qs.banner.data)
                  [] OTHER                 -> TRUE
           b == rs[i].seen /\ c
<1>1. s = [rs[i] EXCEPT !.seen = b]
  BY DEF Drawn
<1>2. b \in BOOLEAN
  OBVIOUS
<1>3. rs[i] \in Reaction
  OBVIOUS
<1>4. ASSUME rs[i].from = "form" PROVE b = rs[i].seen
  <2>1. c = TRUE
    BY <1>4
  <2>2. rs[i].seen \in BOOLEAN
    BY <1>3 DEF Reaction
  <2> HIDE DEF c
  <2> QED
    BY <2>1, <2>2
<1> HIDE DEF b
<1>5. ASSUME rs[i].from = "form" PROVE s = rs[i]
  BY <1>1, <1>3, <1>4, <1>5 DEF Reaction
<1>6. s \in Reaction
  BY <1>1, <1>2, <1>3 DEF Reaction
<1>7. /\ s.kind = rs[i].kind /\ s.notice = rs[i].notice /\ s.stage = rs[i].stage
      /\ s.marked = rs[i].marked /\ s.waits = rs[i].waits /\ s.fresh = rs[i].fresh
  BY <1>1, <1>3 DEF Reaction
<1> QED
  BY <1>5, <1>6, <1>7

\* What a step leaves of a reaction, if it is not what it has marked
SameReaction(i) ==
    LET r == reactions[i]
        s == reactions'[i]
    IN  /\ s.kind = r.kind /\ s.notice = r.notice /\ s.marked = r.marked
        /\ s.stage = "sent" => r.stage = "sent"
        /\ s.fresh \subseteq r.fresh
        /\ \A q \in s.fresh :
             /\ q \notin s.waits => q \notin r.waits /\ queries'[q].data = queries[q].data
             /\ queries'[q].fetch = "answered" =>
                  queries[q].fetch = "answered" /\ queries'[q].answer = queries[q].answer

\* What has arrived stays, and what was read is not unread again
Read ==
    arrived \subseteq arrived' /\ arrived \ unread \subseteq arrived' \ unread'

\* A step that leaves a reaction as it is leaves what it has marked off the lists.
LEMMA ReactionKept ==
  ASSUME NEW i, ReactionOK(i), SameReaction(i), Read
  PROVE  ReactionOK(i)'
BY DEF ReactionOK, SameReaction, Read

\* What a step leaves of a switch
SameSwitch(i) ==
    LET r == reactions[i]
        s == reactions'[i]
    IN  /\ s.kind = r.kind
        /\ r.kind = "switch" => s.from = r.from /\ s.notice = r.notice /\ s.stage = r.stage
                                /\ s.seen = r.seen /\ s.answer = r.answer

\* A step that leaves all switches as they are leaves them agreed with MSS.
LEMMA SwitchesKept ==
  ASSUME SwitchesOK, UNCHANGED <<mounted, prefs, overlapped, crashed>>,
         queries'["switches"] = queries["switches"],
         DOMAIN reactions' = DOMAIN reactions, \A i \in DOMAIN reactions : SameSwitch(i)
  PROVE  SwitchesOK'
<1>1. \A i \in DOMAIN reactions' : SwitchOK(i)'
  BY DEF SwitchesOK, SwitchOK, SameSwitch
<1>2. Unsaved' = Unsaved /\ \A i \in Unsaved : reactions'[i].stage = reactions[i].stage
  BY DEF Unsaved, SameSwitch
<1>3. Agree' = Agree
  BY DEF Agree
<1> QED
  BY <1>1, <1>2, <1>3 DEF SwitchesOK

NoticesInv == NoticesTyped /\ Marks /\ SwitchesOK

\* A step on one reaction, which is no switch or stays as it was, and on none of the queries.
LEMMA OneReaction ==
  ASSUME NoticesInv, UNCHANGED <<mounted, arrived, prefs, queries, overlapped, crashed>>,
         unread' \subseteq unread, NEW i \in DOMAIN reactions, NEW r \in Reaction,
         reactions' = [reactions EXCEPT ![i] = r], ReactionOK(i)', SameSwitch(i)
  PROVE  NoticesInv'
<1>1. /\ reactions' \in Seq(Reaction) /\ DOMAIN reactions' = DOMAIN reactions /\ reactions'[i] = r
      /\ \A k \in DOMAIN reactions \ {i} : reactions'[k] = reactions[k]
  BY OneTyped DEF NoticesInv, NoticesTyped
<1>2. NoticesTyped'
  BY <1>1 DEF NoticesInv, NoticesTyped, QueriesOK
<1>3. Read
  BY DEF Read, NoticesInv, NoticesTyped
<1>4. Marks'
  <2>1. ASSUME NEW k \in DOMAIN reactions \ {i} PROVE ReactionOK(k)'
    <3>1. SameReaction(k)
      BY <1>1 DEF SameReaction
    <3> QED
      BY <1>3, <3>1, ReactionKept DEF NoticesInv, Marks
  <2> QED
    BY <1>1, <2>1 DEF Marks
<1>5. SwitchesOK'
  <2>1. \A k \in DOMAIN reactions : SameSwitch(k)
    BY <1>1 DEF SameSwitch
  <2> QED
    BY <1>1, <2>1, SwitchesKept DEF NoticesInv
<1> QED
  BY <1>2, <1>4, <1>5 DEF NoticesInv

\* A step on what MSS has, which the reactions and the queries do not notice.
LEMMA NoReaction ==
  ASSUME NoticesInv, UNCHANGED <<mounted, prefs, queries, reactions, overlapped, crashed>>,
         arrived \subseteq arrived', arrived' \subseteq Notice, unread' \subseteq arrived', Read
  PROVE  NoticesInv'
<1>1. NoticesTyped'
  <2>1. QueriesOK'
    BY DEF NoticesInv, NoticesTyped, QueriesOK, QueryOf
  <2> QED
    BY <2>1 DEF NoticesInv, NoticesTyped
<1>2. Marks'
  <2>1. \A i \in DOMAIN reactions : SameReaction(i)
    BY DEF SameReaction
  <2> QED
    BY <2>1, ReactionKept DEF NoticesInv, Marks
<1>3. SwitchesOK'
  BY SwitchesKept DEF NoticesInv, SameSwitch
<1> QED
  BY <1>1, <1>2, <1>3 DEF NoticesInv

\* A step on many reactions and on the queries, which leaves the switches as they are, and
\* what they show agreed with MSS.
LEMMA AllReactions ==
  ASSUME NoticesInv, UNCHANGED <<mounted, arrived, unread, prefs, crashed>>,
         overlapped' \in BOOLEAN, QueriesOK',
         reactions' = [i \in DOMAIN reactions |-> reactions'[i]],
         \A i \in DOMAIN reactions : reactions'[i] \in Reaction /\ ReactionOK(i)' /\ SameSwitch(i),
         overlapped \/ Agree => overlapped' \/ Agree',
         "switches" \notin mounted => queries'["switches"] = queries["switches"] /\ ~overlapped'
  PROVE  NoticesInv'
<1>1. reactions' \in Seq(Reaction) /\ DOMAIN reactions' = DOMAIN reactions
  BY MapTyped DEF NoticesInv, NoticesTyped
<1>2. NoticesTyped'
  BY <1>1 DEF NoticesInv, NoticesTyped
<1>3. Marks'
  BY <1>1 DEF Marks
<1>4. SwitchesOK'
  <2>1. \A i \in DOMAIN reactions' : SwitchOK(i)'
    BY <1>1 DEF NoticesInv, SwitchesOK, SwitchOK, SameSwitch
  <2>2. Unsaved' = Unsaved /\ \A i \in Unsaved : reactions'[i].stage = reactions[i].stage
    BY <1>1 DEF Unsaved, SameSwitch
  <2>3. "switches" \notin mounted => (Agree => Agree')
    BY DEF Agree
  <2> QED
    BY <2>1, <2>2, <2>3 DEF NoticesInv, SwitchesOK
<1> QED
  BY <1>2, <1>3, <1>4 DEF NoticesInv

\* The bell draws the panel anew, and nothing else.
LEMMA BellOK == ASSUME NoticesInv, NotificationsBell PROVE NoticesInv'
<1>0. reactions \in Seq(Reaction)
  BY DEF NoticesInv, NoticesTyped
<1> DEFINE isOpen == ~panel
<1>1. /\ reactions' = Drawn(reactions, queries, isOpen)
      /\ UNCHANGED <<mounted, arrived, unread, prefs, queries, overlapped, crashed>>
  BY DEF NotificationsBell
<1> HIDE DEF isOpen
<1>2. ASSUME NEW i \in DOMAIN reactions
      PROVE  reactions'[i] \in Reaction /\ ReactionOK(i)' /\ SameSwitch(i)
  <2>1. /\ reactions'[i] \in Reaction
        /\ reactions'[i].kind = reactions[i].kind /\ reactions'[i].notice = reactions[i].notice
        /\ reactions'[i].stage = reactions[i].stage /\ reactions'[i].marked = reactions[i].marked
        /\ reactions'[i].waits = reactions[i].waits /\ reactions'[i].fresh = reactions[i].fresh
        /\ reactions[i].from = "form" => reactions'[i] = reactions[i]
    BY <1>0, <1>1, DrawnOK
  <2>2. ReactionOK(i)'
    BY <1>1, <2>1 DEF NoticesInv, Marks, ReactionOK
  <2>3. SameSwitch(i)
    BY <2>1 DEF NoticesInv, SwitchesOK, SwitchOK, SameSwitch
  <2> QED
    BY <2>1, <2>2, <2>3
<1>3. reactions' = [i \in DOMAIN reactions |-> reactions'[i]]
  BY <1>1 DEF Drawn
<1>4. QueriesOK' /\ overlapped' \in BOOLEAN
  BY <1>1 DEF NoticesInv, NoticesTyped, QueriesOK
<1>5. overlapped \/ Agree => overlapped' \/ Agree'
  BY <1>1 DEF Agree
<1>6. "switches" \notin mounted => queries'["switches"] = queries["switches"] /\ ~overlapped'
  BY <1>1 DEF NoticesInv, SwitchesOK
<1> QED
  BY <1>1, <1>2, <1>3, <1>4, <1>5, <1>6, AllReactions

\* A reaction begins: of a notice that has arrived, or of a switch when no other is being saved.
LEMMA ReactsOK ==
  ASSUME NoticesInv, NEW kind \in {"dismiss", "all", "decide", "switch"},
         NEW from \in {"item", "bell", "banner", "form"}, NEW n \in Notice \cup {0},
         NEW type \in EmailType, NEW value \in BOOLEAN,
         Reacts(kind, from, n, type, value),
         kind \in {"dismiss", "decide"} => n \in arrived,
         kind = "switch" => Unsaved = {} /\ "switches" \in mounted /\ from = "form" /\ n = 0
  PROVE  NoticesInv'
<1> DEFINE r == [kind |-> kind, from |-> from, notice |-> n, type |-> type, value |-> value,
                 stage |-> "sent", marked |-> {}, answer |-> NoPreferences, waits |-> {}, fresh |-> {}, seen |-> TRUE]
<1>0. reactions \in Seq(Reaction)
  BY DEF NoticesInv, NoticesTyped
<1>1. /\ reactions' = Append(reactions, r)
      /\ UNCHANGED <<mounted, arrived, unread, prefs, queries, overlapped, crashed>>
  BY DEF Reacts
<1>2. NoPreferences \in Preferences
  BY DEF NoPreferences, Preferences
<1>3. r \in Reaction
  BY <1>2 DEF Reaction
<1>4. /\ r.kind = kind /\ r.from = from /\ r.notice = n /\ r.stage = "sent" /\ r.marked = {}
      /\ r.fresh = {} /\ r.seen = TRUE
  OBVIOUS
<1> HIDE DEF r
<1>5. reactions' \in Seq(Reaction) /\ Len(reactions) \in Nat
  BY <1>0, <1>1, <1>3
<1>6. /\ DOMAIN reactions = 1..Len(reactions) /\ DOMAIN reactions' = 1..(Len(reactions) + 1)
      /\ reactions'[Len(reactions) + 1] = r
      /\ \A i \in 1..Len(reactions) : reactions'[i] = reactions[i]
  BY <1>0, <1>1, <1>3
<1>7. \A i \in DOMAIN reactions' : i \in DOMAIN reactions \/ i = Len(reactions) + 1
  BY <1>5, <1>6
<1>8. DOMAIN reactions \subseteq DOMAIN reactions'
  BY <1>5, <1>6
<1>9. \A i \in DOMAIN reactions : reactions'[i] = reactions[i]
  BY <1>6
<1>a. PICK new \in Nat : new = Len(reactions) + 1
  BY <1>5
<1>10. reactions'[new] = r /\ new \in DOMAIN reactions' /\ new \notin DOMAIN reactions
  BY <1>5, <1>6, <1>a
<1>11. NoticesTyped'
  BY <1>1, <1>5 DEF NoticesInv, NoticesTyped, QueriesOK
<1>12. Marks'
  <2>1. ASSUME NEW i \in DOMAIN reactions PROVE ReactionOK(i)'
    <3>1. SameReaction(i)
      BY <1>1, <1>9 DEF SameReaction
    <3> QED
      BY <1>1, <3>1, ReactionKept DEF NoticesInv, Marks, Read
  <2>2. ReactionOK(new)'
    BY <1>1, <1>4, <1>10 DEF ReactionOK
  <2> QED
    BY <1>7, <1>a, <2>1, <2>2 DEF Marks
<1>13. SwitchesOK'
  <2>1. ASSUME NEW i \in DOMAIN reactions' PROVE SwitchOK(i)'
    <3>1. CASE i \in DOMAIN reactions
      BY <1>1, <1>9, <3>1 DEF NoticesInv, SwitchesOK, SwitchOK
    <3>2. CASE i = new
      BY <1>1, <1>4, <1>10, <3>2 DEF SwitchOK
    <3> QED
      BY <1>7, <1>a, <3>1, <3>2
  <2>2. Unsaved' = IF kind = "switch" THEN Unsaved \cup {new} ELSE Unsaved
    <3>1. \A i \in DOMAIN reactions : i \in Unsaved' <=> i \in Unsaved
      BY <1>8, <1>9 DEF Unsaved
    <3>2. new \in Unsaved' <=> kind = "switch"
      BY <1>4, <1>10 DEF Unsaved
    <3>3. Unsaved' \subseteq DOMAIN reactions' /\ Unsaved \subseteq DOMAIN reactions
      BY DEF Unsaved
    <3>4. \A i \in DOMAIN reactions' : i \in DOMAIN reactions \/ i = new
      BY <1>7, <1>a
    <3> QED
      BY <1>8, <3>1, <3>2, <3>3, <3>4
  <2>3. \A i, j \in Unsaved' : i = j
    <3>1. CASE kind = "switch"
      BY <2>2, <3>1
    <3>2. CASE kind # "switch"
      BY <2>2, <3>2 DEF NoticesInv, SwitchesOK
    <3> QED
      BY <3>1, <3>2
  <2>4. (\E i \in Unsaved : reactions[i].stage # "sent") => \E i \in Unsaved' : reactions'[i].stage # "sent"
    <3> SUFFICES ASSUME NEW i \in Unsaved, reactions[i].stage # "sent" PROVE i \in Unsaved' /\ reactions'[i].stage # "sent"
      OBVIOUS
    <3>1. i \in DOMAIN reactions
      BY DEF Unsaved
    <3> QED
      BY <1>9, <2>2, <3>1
  <2>5. Agree' = Agree
    BY <1>1 DEF Agree
  <2> QED
    BY <1>1, <2>1, <2>3, <2>4, <2>5 DEF NoticesInv, SwitchesOK
<1> QED
  BY <1>11, <1>12, <1>13 DEF NoticesInv

\* What the user does to a notice or a switch.
LEMMA UserReactsOK ==
  ASSUME NoticesInv,
         \/ markAll
         \/ \E n \in Notice : NotificationItem(n) \/ dismissal(n) \/ NoticeBanner(n)
         \/ \E type \in EmailType : handleChange(type)
  PROVE  NoticesInv'
<1>1. AnyType \in EmailType
  BY NotificationsAssumption DEF AnyType
<1>2. queries["bell"].data \subseteq arrived /\ queries["banner"].data \subseteq arrived
  BY DEF NoticesInv, NoticesTyped, QueriesOK, QueryOf, Lists
<1>3. CASE markAll
  BY <1>1, <1>3, ReactsOK DEF markAll
<1>4. ASSUME NEW n \in Notice, NotificationItem(n) \/ dismissal(n) \/ NoticeBanner(n) PROVE NoticesInv'
  <2>1. n \in arrived
    BY <1>2, <1>4 DEF NotificationItem, dismissal, NoticeBanner, TopBanner
  <2>2. CASE NotificationItem(n)
    BY <1>1, <2>1, <2>2, ReactsOK DEF NotificationItem
  <2>3. CASE dismissal(n)
    BY <1>1, <2>1, <2>3, ReactsOK DEF dismissal
  <2>4. CASE NoticeBanner(n)
    BY <1>1, <2>1, <2>4, ReactsOK DEF NoticeBanner
  <2> QED
    BY <1>4, <2>2, <2>3, <2>4
<1>5. ASSUME NEW type \in EmailType, handleChange(type) PROVE NoticesInv'
  <2> DEFINE value == ~queries.switches.data[type]
  <2>1. value \in BOOLEAN
    OBVIOUS
  <2>2. Unsaved = {}
    BY <1>5 DEF handleChange, isPending, Unsaved, NoticesInv, SwitchesOK, SwitchOK
  <2>3. "switches" \in mounted /\ Reacts("switch", "form", 0, type, value)
    BY <1>5 DEF handleChange
  <2> HIDE DEF value
  <2> QED
    BY <2>1, <2>2, <2>3, ReactsOK
<1> QED
  BY <1>3, <1>4, <1>5

\* A reaction that is no switch goes on, or is refused, without a change to any query.
LEMMA GoesOnOK ==
  ASSUME NoticesInv, UNCHANGED <<mounted, arrived, unread, prefs, queries, overlapped, crashed>>,
         NEW i \in DOMAIN reactions, reactions[i].kind # "switch",
         NEW seen \in BOOLEAN, NEW stage \in {"handled", "refused", "done"},
         reactions' = [reactions EXCEPT ![i].stage = stage, ![i].seen = seen]
  PROVE  NoticesInv'
<1>0. reactions \in Seq(Reaction) /\ reactions[i] \in Reaction
  BY LenProperties DEF NoticesInv, NoticesTyped
<1> DEFINE r == [reactions[i] EXCEPT !.stage = stage, !.seen = seen]
<1>1. reactions' = [reactions EXCEPT ![i] = r]
  BY <1>0
<1>2. r \in Reaction
  BY <1>0 DEF Reaction
<1>3. /\ r.kind = reactions[i].kind /\ r.notice = reactions[i].notice /\ r.marked = reactions[i].marked
      /\ r.fresh = reactions[i].fresh /\ r.waits = reactions[i].waits /\ r.stage = stage
  BY <1>0 DEF Reaction
<1> HIDE DEF r
<1>4. reactions'[i] = r
  BY <1>0, <1>1
<1>5. ReactionOK(i)' /\ SameSwitch(i)
  BY <1>3, <1>4 DEF NoticesInv, Marks, ReactionOK, SameSwitch
<1> QED
  BY <1>1, <1>2, <1>5, OneReaction DEF NoticesInv, NoticesTyped

\* MSS handles a reaction: what it marks has arrived, and is unread no more.
LEMMA HandledOK ==
  ASSUME NoticesInv, NEW i \in DOMAIN reactions, NEW marks \in SUBSET arrived,
         reactions[i].kind # "switch", Handled(i, marks)
  PROVE  NoticesInv'
<1>0. reactions \in Seq(Reaction) /\ reactions[i] \in Reaction /\ arrived \subseteq Notice
  BY LenProperties DEF NoticesInv, NoticesTyped
<1> DEFINE r == [reactions[i] EXCEPT !.stage = "handled", !.marked = marks]
<1>1. /\ reactions' = [reactions EXCEPT ![i] = r] /\ unread' = unread \ marks /\ reactions[i].stage = "sent"
      /\ UNCHANGED <<mounted, arrived, prefs, queries, overlapped, crashed>>
  BY <1>0 DEF Handled
<1>2. r \in Reaction
  BY <1>0 DEF Reaction
<1>3. /\ r.kind = reactions[i].kind /\ r.notice = reactions[i].notice /\ r.marked = marks
      /\ r.fresh = reactions[i].fresh
  BY <1>0 DEF Reaction
<1> HIDE DEF r
<1>4. reactions'[i] = r
  BY <1>0, <1>1
<1>5. reactions[i].fresh = {}
  BY <1>1 DEF NoticesInv, Marks, ReactionOK
<1>6. ReactionOK(i)'
  BY <1>1, <1>3, <1>4, <1>5 DEF NoticesInv, Marks, ReactionOK
<1>7. SameSwitch(i)
  BY <1>3, <1>4 DEF SameSwitch
<1> QED
  BY <1>1, <1>2, <1>6, <1>7, OneReaction

\* MSS marks notices as read, or decides a request.
LEMMA MarksOK ==
  ASSUME NoticesInv, NEW i \in DOMAIN reactions,
         dismissNotice(i) \/ dismissAllMyNotices(i) \/ approveMyRequest(i)
  PROVE  NoticesInv'
<1>0. reactions \in Seq(Reaction) /\ reactions[i] \in Reaction /\ unread \subseteq arrived
  BY LenProperties DEF NoticesInv, NoticesTyped
<1>1. reactions[i].kind \in {"dismiss", "decide"} => reactions[i].notice \in arrived
  BY DEF NoticesInv, Marks, ReactionOK
<1>2. CASE dismissNotice(i)
  BY <1>1, <1>2, HandledOK DEF dismissNotice
<1>3. CASE dismissAllMyNotices(i)
  BY <1>0, <1>3, HandledOK DEF dismissAllMyNotices
<1>4. CASE approveMyRequest(i)
  <2>1. CASE Handled(i, {reactions[i].notice})
    BY <1>1, <1>4, <2>1, HandledOK DEF approveMyRequest
  <2>2. CASE ~Handled(i, {reactions[i].notice})
    <3>1. /\ reactions' = [reactions EXCEPT ![i].stage = "refused"] /\ reactions[i].kind # "switch"
          /\ UNCHANGED <<mounted, arrived, unread, prefs, queries, overlapped, crashed>>
      BY <1>4, <2>2 DEF approveMyRequest
    <3>2. reactions' = [reactions EXCEPT ![i].stage = "refused", ![i].seen = reactions[i].seen]
          /\ reactions[i].seen \in BOOLEAN
      BY <1>0, <3>1 DEF Reaction
    <3> QED
      BY <3>1, <3>2, GoesOnOK
  <2> QED
    BY <2>1, <2>2
<1> QED
  BY <1>2, <1>3, <1>4

\* A notice arrives, or another approver takes a prompt away.
LEMMA OthersOK ==
  ASSUME NoticesInv, NEW n \in Notice, noticeArrives(n) \/ otherDecides(n)
  PROVE  NoticesInv'
<1>1. arrived \subseteq Notice /\ unread \subseteq arrived
  BY DEF NoticesInv, NoticesTyped
<1>2. CASE noticeArrives(n)
  BY <1>1, <1>2, NoReaction DEF noticeArrives, Read
<1>3. CASE otherDecides(n)
  BY <1>1, <1>3, NoReaction DEF otherDecides, Read
<1> QED
  BY <1>2, <1>3

\* A step on the switch that is being saved: the others are done.
LEMMA OneSwitch ==
  ASSUME NoticesInv, UNCHANGED <<mounted, arrived, unread, crashed>>, prefs' \in Preferences,
         overlapped' \in BOOLEAN, QueriesOK', \A q \in Lists : queries'[q] = queries[q],
         NEW i \in DOMAIN reactions, reactions[i].kind = "switch", reactions[i].stage # "done",
         NEW r \in Reaction, reactions' = [reactions EXCEPT ![i] = r],
         r.kind = "switch", r.notice = reactions[i].notice, r.from = reactions[i].from,
         r.marked = reactions[i].marked, r.waits = reactions[i].waits, r.fresh = reactions[i].fresh,
         r.stage \in {"handled", "refused", "done"}, r.stage # "done" => r.seen,
         r.stage = "handled" => r.answer = prefs'
  PROVE  /\ NoticesTyped' /\ Marks' /\ "switches" \in mounted
         /\ \A k \in DOMAIN reactions' : SwitchOK(k)'
         /\ Unsaved' = IF r.stage = "done" THEN {} ELSE {i}
         /\ reactions'[i] = r
<1>1. /\ reactions' \in Seq(Reaction) /\ DOMAIN reactions' = DOMAIN reactions /\ reactions'[i] = r
      /\ \A k \in DOMAIN reactions \ {i} : reactions'[k] = reactions[k]
  BY OneTyped DEF NoticesInv, NoticesTyped
<1>2. NoticesTyped'
  BY <1>1 DEF NoticesInv, NoticesTyped
<1>3. Marks'
  <2>0. \A k \in DOMAIN reactions : reactions[k].fresh \subseteq Lists
    <3>1. \A k \in DOMAIN reactions : reactions[k] \in Reaction
      BY LenProperties DEF NoticesInv, NoticesTyped
    <3> QED
      BY <3>1 DEF Reaction
  <2>1. ASSUME NEW k \in DOMAIN reactions PROVE SameReaction(k)
    BY <1>1, <2>0 DEF SameReaction
  <2> QED
    BY <1>1, <2>1, ReactionKept DEF NoticesInv, Marks, Read
<1>4. SwitchOK(i) /\ \A k \in DOMAIN reactions \ {i} : reactions[k].kind = "switch" => reactions[k].stage = "done"
  BY DEF NoticesInv, SwitchesOK, Unsaved
<1>5. "switches" \in mounted
  BY <1>4 DEF SwitchOK
<1>6. ASSUME NEW k \in DOMAIN reactions' PROVE SwitchOK(k)'
  <2>1. CASE k = i
    BY <1>1, <1>4, <2>1 DEF SwitchOK
  <2>2. CASE k # i
    BY <1>1, <1>4, <2>2 DEF NoticesInv, SwitchesOK, SwitchOK
  <2> QED
    BY <2>1, <2>2
<1>7. Unsaved' = IF r.stage = "done" THEN {} ELSE {i}
  BY <1>1, <1>4 DEF Unsaved
<1> QED
  BY <1>1, <1>2, <1>3, <1>5, <1>6, <1>7

\* MSS saves a switch, and answers with all of them.
LEMMA SaveOK ==
  ASSUME NoticesInv, NEW i \in DOMAIN reactions, updateNoticePreferences(i)
  PROVE  NoticesInv'
<1>0. /\ reactions \in Seq(Reaction) /\ reactions[i] \in Reaction /\ prefs \in Preferences
      /\ QueriesOK /\ overlapped \in BOOLEAN
  BY LenProperties DEF NoticesInv, NoticesTyped
<1> DEFINE r == [reactions[i] EXCEPT !.stage = "handled", !.answer = prefs']
<1>1. /\ reactions[i].kind = "switch" /\ reactions[i].stage = "sent"
      /\ prefs' = [prefs EXCEPT ![reactions[i].type] = reactions[i].value]
      /\ reactions' = [reactions EXCEPT ![i] = r]
      /\ UNCHANGED <<mounted, arrived, unread, queries, overlapped, crashed>>
  BY <1>0 DEF updateNoticePreferences
<1>2. prefs' \in Preferences
  BY <1>0, <1>1 DEF Preferences, Reaction
<1>3. r \in Reaction
  BY <1>0, <1>2 DEF Reaction
<1>4. /\ r.kind = reactions[i].kind /\ r.notice = reactions[i].notice /\ r.from = reactions[i].from
      /\ r.marked = reactions[i].marked /\ r.waits = reactions[i].waits /\ r.fresh = reactions[i].fresh
      /\ r.stage = "handled" /\ r.seen = reactions[i].seen /\ r.answer = prefs'
  BY <1>0 DEF Reaction
<1>5. reactions[i].seen
  BY <1>1 DEF NoticesInv, SwitchesOK, SwitchOK
<1> HIDE DEF r
<1>6. QueriesOK' /\ \A q \in Lists : queries'[q] = queries[q]
  BY <1>0, <1>1 DEF QueriesOK
<1>7. /\ NoticesTyped' /\ Marks' /\ "switches" \in mounted
      /\ \A k \in DOMAIN reactions' : SwitchOK(k)'
      /\ Unsaved' = {i} /\ reactions'[i] = r
  BY <1>0, <1>1, <1>2, <1>3, <1>4, <1>5, <1>6, OneSwitch
<1>8. SwitchesOK'
  BY <1>1, <1>4, <1>7 DEF SwitchesOK
<1> QED
  BY <1>7, <1>8 DEF NoticesInv

\* A request fails, before or after MSS has handled it.
LEMMA RequestFaultOK ==
  ASSUME NoticesInv, NEW i \in DOMAIN reactions, requestFault(i)
  PROVE  NoticesInv'
<1>0. /\ reactions \in Seq(Reaction) /\ reactions[i] \in Reaction /\ prefs \in Preferences
      /\ QueriesOK /\ overlapped \in BOOLEAN
  BY LenProperties DEF NoticesInv, NoticesTyped
<1>1. /\ reactions[i].stage \in {"sent", "handled"}
      /\ reactions' = [reactions EXCEPT ![i].stage = "refused"]
      /\ UNCHANGED <<mounted, arrived, unread, prefs, queries, overlapped, crashed>>
  BY DEF requestFault
<1>2. CASE reactions[i].kind # "switch"
  <2>1. reactions' = [reactions EXCEPT ![i].stage = "refused", ![i].seen = reactions[i].seen]
        /\ reactions[i].seen \in BOOLEAN
    BY <1>0, <1>1 DEF Reaction
  <2> QED
    BY <1>1, <1>2, <2>1, GoesOnOK
<1>3. CASE reactions[i].kind = "switch"
  <2> DEFINE r == [reactions[i] EXCEPT !.stage = "refused"]
  <2>1. reactions' = [reactions EXCEPT ![i] = r]
    BY <1>0, <1>1
  <2>2. r \in Reaction
    BY <1>0 DEF Reaction
  <2>3. /\ r.kind = reactions[i].kind /\ r.notice = reactions[i].notice /\ r.from = reactions[i].from
        /\ r.marked = reactions[i].marked /\ r.waits = reactions[i].waits /\ r.fresh = reactions[i].fresh
        /\ r.stage = "refused" /\ r.seen = reactions[i].seen
    BY <1>0 DEF Reaction
  <2>4. reactions[i].seen
    BY <1>1, <1>3 DEF NoticesInv, SwitchesOK, SwitchOK
  <2> HIDE DEF r
  <2>5. QueriesOK' /\ (\A q \in Lists : queries'[q] = queries[q]) /\ prefs' \in Preferences
    BY <1>0, <1>1 DEF QueriesOK
  <2>6. /\ NoticesTyped' /\ Marks' /\ "switches" \in mounted
        /\ \A k \in DOMAIN reactions' : SwitchOK(k)'
        /\ Unsaved' = {i} /\ reactions'[i] = r
    <3>1. /\ UNCHANGED <<mounted, arrived, unread, crashed>> /\ overlapped' \in BOOLEAN
          /\ reactions[i].stage # "done"
      BY <1>0, <1>1
    <3> QED
      BY <1>3, <2>1, <2>2, <2>3, <2>4, <2>5, <3>1, OneSwitch
  <2>7. SwitchesOK'
    BY <1>1, <2>3, <2>6 DEF SwitchesOK
  <2> QED
    BY <2>6, <2>7 DEF NoticesInv
<1> QED
  BY <1>2, <1>3

\* The answer is set as the switches' data; a fetch in flight may replace it.
LEMMA SetDataOK ==
  ASSUME NoticesInv, NEW i \in DOMAIN reactions, setQueryData(i)
  PROVE  NoticesInv'
<1>0. /\ reactions \in Seq(Reaction) /\ reactions[i] \in Reaction /\ prefs \in Preferences
      /\ QueriesOK /\ overlapped \in BOOLEAN
  BY LenProperties DEF NoticesInv, NoticesTyped
<1> DEFINE r == [reactions[i] EXCEPT !.stage = "done", !.seen = FALSE, !.answer = NoPreferences]
           q == queries["switches"]
           a == reactions[i].answer
           s == [q EXCEPT !.data = a, !.answer = IF q.fetch = "answered" THEN q.answer ELSE a]
<1>1. /\ reactions[i].kind = "switch" /\ reactions[i].stage = "handled"
      /\ reactions' = [reactions EXCEPT ![i] = r]
      /\ queries' = [queries EXCEPT !["switches"] = s]
      /\ overlapped' = (q.fetch = "answered" /\ q.answer # a)
      /\ UNCHANGED <<mounted, arrived, unread, prefs, crashed>>
  BY <1>0 DEF setQueryData
<1>2. r \in Reaction
  BY <1>0 DEF Reaction, NoPreferences, Preferences
<1>3. /\ r.kind = reactions[i].kind /\ r.notice = reactions[i].notice /\ r.from = reactions[i].from
      /\ r.marked = reactions[i].marked /\ r.waits = reactions[i].waits /\ r.fresh = reactions[i].fresh
      /\ r.stage = "done"
  BY <1>0 DEF Reaction
<1> HIDE DEF r
<1>4. a = prefs
  BY <1>1 DEF NoticesInv, SwitchesOK, SwitchOK
<1>5. q \in QueryOf(Preferences) /\ q.has
  BY <1>0 DEF QueriesOK
<1>6. /\ s \in QueryOf(Preferences) /\ s.has /\ s.data = prefs /\ s.fetch = q.fetch
      /\ q.fetch = "answered" => s.answer = q.answer
  BY <1>0, <1>4, <1>5 DEF QueryOf
<1> HIDE DEF s
<1>7. queries'["switches"] = s /\ \A l \in Lists : queries'[l] = queries[l]
  BY <1>0, <1>1 DEF QueriesOK, AllQueries, Mine, Lists
<1>8. QueriesOK'
  BY <1>0, <1>1, <1>6, <1>7 DEF QueriesOK
<1>9. overlapped' \in BOOLEAN /\ prefs' \in Preferences
  BY <1>0, <1>1
<1>10. /\ NoticesTyped' /\ Marks' /\ "switches" \in mounted
       /\ \A k \in DOMAIN reactions' : SwitchOK(k)'
       /\ Unsaved' = {}
  <2> HIDE DEF q, a
  <2> QED
    BY <1>0, <1>1, <1>2, <1>3, <1>7, <1>8, <1>9, OneSwitch
<1>11. overlapped' \/ Agree'
  BY <1>1, <1>4, <1>6, <1>7 DEF Agree
<1>12. SwitchesOK'
  BY <1>1, <1>10, <1>11 DEF SwitchesOK
<1> QED
  BY <1>10, <1>12 DEF NoticesInv

\* An error that is thrown takes the reactions with the frame.
LEMMA BreaksOK ==
  ASSUME NoticesInv, Breaks, UNCHANGED <<mounted, arrived, unread, prefs, queries, overlapped>>
  PROVE  NoticesInv'
<1>1. reactions' = <<>> /\ crashed' = TRUE
  BY DEF Breaks
<1>2. reactions' \in Seq(Reaction) /\ DOMAIN reactions' = {}
  BY <1>1
<1>3. NoticesTyped'
  BY <1>1, <1>2 DEF NoticesInv, NoticesTyped, QueriesOK
<1>4. Marks'
  BY <1>2 DEF Marks
<1>5. SwitchesOK'
  <2>1. Unsaved' = {}
    BY <1>2 DEF Unsaved
  <2>2. Agree' = Agree
    BY DEF Agree
  <2> QED
    BY <1>1, <1>2, <2>1, <2>2 DEF NoticesInv, SwitchesOK
<1> QED
  BY <1>3, <1>4, <1>5 DEF NoticesInv

\* A mutation that failed throws, if its component still shows it.
LEMMA ReactionErrorOK ==
  ASSUME NoticesInv, NEW i \in DOMAIN reactions, reactionError(i)
  PROVE  NoticesInv'
<1>1. CASE Breaks
  BY <1>1, BreaksOK DEF reactionError
<1>2. CASE ~Breaks
  <2>1. /\ reactions[i].stage = "refused" /\ ~reactions[i].seen
        /\ reactions' = [reactions EXCEPT ![i].stage = "done"]
        /\ UNCHANGED <<mounted, arrived, unread, prefs, queries, overlapped, crashed>>
    BY <1>2 DEF reactionError
  <2>2. reactions[i].kind # "switch"
    BY <2>1 DEF NoticesInv, SwitchesOK, SwitchOK
  <2>3. reactions \in Seq(Reaction) /\ reactions[i] \in Reaction
    BY LenProperties DEF NoticesInv, NoticesTyped
  <2>4. reactions' = [reactions EXCEPT ![i].stage = "done", ![i].seen = reactions[i].seen]
        /\ reactions[i].seen \in BOOLEAN
    BY <2>1, <2>3 DEF Reaction
  <2> QED
    BY <2>1, <2>2, <2>4, GoesOnOK
<1> QED
  BY <1>1, <1>2

\* One query changes.
LEMMA OneQuery ==
  ASSUME QueriesOK, UNCHANGED arrived, NEW q \in AllQueries, NEW v,
         queries' = [queries EXCEPT ![q] = v],
         q \in Lists => v \in QueryOf(SUBSET arrived),
         q = "switches" => v \in QueryOf(Preferences) /\ v.has
  PROVE  /\ QueriesOK' /\ queries'[q] = v
         /\ \A p \in AllQueries \ {q} : queries'[p] = queries[p]
<1>1. queries'[q] = v /\ \A p \in AllQueries \ {q} : queries'[p] = queries[p]
  BY DEF QueriesOK
<1>2. queries' = [p \in AllQueries |-> queries'[p]]
  BY DEF QueriesOK
<1>3. "switches" \in AllQueries /\ Lists \subseteq AllQueries
  BY DEF AllQueries, Mine
<1> QED
  BY <1>1, <1>2, <1>3 DEF QueriesOK

\* Facts about the reactions that every step on many of them needs.
LEMMA ReactionsTyped ==
  ASSUME NoticesInv
  PROVE  /\ reactions \in Seq(Reaction) /\ reactions = [i \in DOMAIN reactions |-> reactions[i]]
         /\ \A i \in DOMAIN reactions : reactions[i] \in Reaction /\ reactions[i].fresh \subseteq Lists
         /\ QueriesOK /\ overlapped \in BOOLEAN /\ mounted \subseteq AllQueries
<1>1. reactions \in Seq(Reaction) /\ QueriesOK /\ overlapped \in BOOLEAN /\ mounted \subseteq AllQueries
  BY DEF NoticesInv, NoticesTyped
<1>2. reactions \in [1..Len(reactions) -> Reaction]
  BY <1>1, LenProperties
<1>3. reactions = [i \in DOMAIN reactions |-> reactions[i]]
  BY <1>2
<1>4. \A i \in DOMAIN reactions : reactions[i] \in Reaction
  BY <1>2
<1>5. \A i \in DOMAIN reactions : reactions[i].fresh \subseteq Lists
  BY <1>4 DEF Reaction
<1> QED
  BY <1>1, <1>3, <1>4, <1>5

\* A step on the lists or the badge, and on the reactions, which leaves the switches alone.
LEMMA SwitchesAside ==
  ASSUME NoticesInv, UNCHANGED <<mounted, arrived, unread, prefs, overlapped, crashed>>,
         QueriesOK', queries'["switches"] = queries["switches"],
         reactions' = [i \in DOMAIN reactions |-> reactions'[i]],
         \A i \in DOMAIN reactions : reactions'[i] \in Reaction /\ ReactionOK(i)' /\ SameSwitch(i)
  PROVE  NoticesInv'
<1>1. overlapped' \in BOOLEAN
  BY ReactionsTyped
<1>2. overlapped \/ Agree => overlapped' \/ Agree'
  BY DEF Agree
<1>3. "switches" \notin mounted => queries'["switches"] = queries["switches"] /\ ~overlapped'
  BY DEF NoticesInv, SwitchesOK
<1> QED
  BY <1>1, <1>2, <1>3, AllReactions

\* The queries whose fetches are dropped for new ones
DroppedOf(qs) == {q \in qs : ~JoinsFirstFetch(queries[q])}

\* A new fetch of some queries, and what waits for them after it, for one reaction.
LEMMA DropsOK ==
  ASSUME NoticesInv, NEW qs, NEW d, d = DroppedOf(qs), NEW k \in DOMAIN reactions,
         NEW s, s = Drops(qs)[k]
  PROVE  /\ s \in Reaction /\ s.kind = reactions[k].kind /\ s.notice = reactions[k].notice
         /\ s.marked = reactions[k].marked /\ s.stage = reactions[k].stage
         /\ s.waits = reactions[k].waits \ d /\ s.fresh = reactions[k].fresh \ (d \cap reactions[k].waits)
         /\ s.from = reactions[k].from /\ s.seen = reactions[k].seen /\ s.answer = reactions[k].answer
<1>1. reactions[k] \in Reaction
  BY ReactionsTyped
<1>2. s = [reactions[k] EXCEPT !.waits = @ \ d, !.fresh = @ \ (d \cap reactions[k].waits)]
  BY DEF Drops, DroppedOf
<1>3. s \in Reaction
  BY <1>1, <1>2 DEF Reaction
<1> QED
  BY <1>1, <1>2, <1>3 DEF Reaction

\* The badge is polled, which no reaction awaits more for.
LEMMA PollOK == ASSUME NoticesInv, getNoticeCountQuery PROVE NoticesInv'
<1> DEFINE v == Refetch(queries["badge"])
<1>1. /\ queries' = [queries EXCEPT !["badge"] = v]
      /\ UNCHANGED <<mounted, arrived, unread, prefs, reactions, overlapped, crashed>>
  BY DEF getNoticeCountQuery
<1> HIDE DEF v
<1>2. "badge" \in AllQueries /\ "badge" \notin Lists /\ "switches" \in AllQueries \ {"badge"}
      /\ Lists \subseteq AllQueries
  BY DEF AllQueries, Mine, Lists
<1>3. QueriesOK' /\ \A p \in AllQueries \ {"badge"} : queries'[p] = queries[p]
  BY <1>1, <1>2, ReactionsTyped, OneQuery
<1>4. ASSUME NEW i \in DOMAIN reactions
      PROVE  reactions'[i] \in Reaction /\ ReactionOK(i)' /\ SameSwitch(i)
  <2>1. reactions[i] \in Reaction /\ reactions[i].fresh \subseteq Lists
    BY ReactionsTyped
  <2>2. SameReaction(i)
    BY <1>1, <1>2, <1>3, <2>1 DEF SameReaction
  <2> QED
    BY <1>1, <2>1, <2>2, ReactionKept DEF NoticesInv, Marks, Read, SameSwitch
<1> QED
  BY <1>1, <1>2, <1>3, <1>4, SwitchesAside, ReactionsTyped

\* The count arrives, for all that wait.
LEMMA CountOK == ASSUME NoticesInv, countArrives PROVE NoticesInv'
<1> DEFINE v == Applied(Answer(queries["badge"], Served("badge")))
<1>1. /\ queries' = [queries EXCEPT !["badge"] = v]
      /\ reactions' = [i \in DOMAIN reactions |-> [reactions[i] EXCEPT !.waits = @ \ {"badge"}]]
      /\ UNCHANGED <<mounted, arrived, unread, prefs, overlapped, crashed>>
  BY DEF countArrives
<1> HIDE DEF v
<1>2. "badge" \in AllQueries /\ "badge" \notin Lists /\ "switches" \in AllQueries \ {"badge"}
      /\ Lists \subseteq AllQueries
  BY DEF AllQueries, Mine, Lists
<1>3. QueriesOK' /\ \A p \in AllQueries \ {"badge"} : queries'[p] = queries[p]
  BY <1>1, <1>2, ReactionsTyped, OneQuery
<1>4. ASSUME NEW i \in DOMAIN reactions
      PROVE  reactions'[i] \in Reaction /\ ReactionOK(i)' /\ SameSwitch(i)
  <2>1. reactions[i] \in Reaction /\ reactions[i].fresh \subseteq Lists
    BY ReactionsTyped
  <2>2. reactions'[i] = [reactions[i] EXCEPT !.waits = @ \ {"badge"}]
    BY <1>1
  <2>3. reactions'[i] \in Reaction /\ SameSwitch(i)
    BY <2>1, <2>2 DEF Reaction, SameSwitch
  <2>4. /\ reactions'[i].kind = reactions[i].kind /\ reactions'[i].notice = reactions[i].notice
        /\ reactions'[i].stage = reactions[i].stage /\ reactions'[i].marked = reactions[i].marked
        /\ reactions'[i].waits = reactions[i].waits \ {"badge"} /\ reactions'[i].fresh = reactions[i].fresh
    BY <2>1, <2>2 DEF Reaction
  <2>5. SameReaction(i)
    BY <1>2, <1>3, <2>1, <2>4 DEF SameReaction
  <2> QED
    BY <1>1, <2>3, <2>5, ReactionKept DEF NoticesInv, Marks, Read
<1>5. reactions' = [i \in DOMAIN reactions |-> reactions'[i]]
  BY <1>1
<1> QED
  BY <1>1, <1>2, <1>3, <1>4, <1>5, SwitchesAside

\* The lists have been awaited, and then the badge is fetched anew and awaited.
LEMMA RefreshCountsOK ==
  ASSUME NoticesInv, NEW i \in DOMAIN reactions, refreshAllNoticeCounts(i)
  PROVE  NoticesInv'
<1>q. PICK qs : qs = {"badge"}
  OBVIOUS
<1> DEFINE v == Invalidate(queries["badge"])
           rs == Drops(qs)
           r == [rs[i] EXCEPT !.stage = "counts", !.waits = {"badge"}]
<1>1. /\ reactions[i].stage = "lists" /\ reactions[i].waits = {}
      /\ queries' = [queries EXCEPT !["badge"] = v]
      /\ reactions' = [rs EXCEPT ![i].stage = "counts", ![i].waits = {"badge"}]
      /\ UNCHANGED <<mounted, arrived, unread, prefs, overlapped, crashed>>
  BY <1>q DEF refreshAllNoticeCounts
<1>b. reactions[i].stage = "lists" /\ reactions[i].waits = {}
  BY <1>1
<1> HIDE DEF v
<1>2. "badge" \in AllQueries /\ "badge" \notin Lists /\ "switches" \in AllQueries \ {"badge"}
      /\ Lists \subseteq AllQueries
  BY DEF AllQueries, Mine, Lists
<1>3. QueriesOK' /\ \A p \in AllQueries \ {"badge"} : queries'[p] = queries[p]
  BY <1>1, <1>2, ReactionsTyped, OneQuery
<1>a. rs = [k \in DOMAIN reactions |-> rs[k]]
  BY DEF Drops
<1>4. reactions[i].kind # "switch"
  BY <1>1 DEF NoticesInv, SwitchesOK, SwitchOK
<1>5. PICK d : d = DroppedOf(qs)
  OBVIOUS
<1>6. d \cap Lists = {}
  BY <1>2, <1>5, <1>q DEF DroppedOf
<1> HIDE DEF rs
<1>7. /\ reactions' = [k \in DOMAIN reactions |-> reactions'[k]]
      /\ reactions'[i] = r /\ \A k \in DOMAIN reactions \ {i} : reactions'[k] = rs[k]
  BY <1>1, <1>a
<1>8. ASSUME NEW k \in DOMAIN reactions
      PROVE  reactions'[k] \in Reaction /\ ReactionOK(k)' /\ SameSwitch(k)
  <2>1. /\ rs[k] \in Reaction /\ rs[k].kind = reactions[k].kind /\ rs[k].notice = reactions[k].notice
        /\ rs[k].marked = reactions[k].marked /\ rs[k].stage = reactions[k].stage
        /\ rs[k].waits = reactions[k].waits \ d /\ rs[k].fresh = reactions[k].fresh \ (d \cap reactions[k].waits)
        /\ rs[k].from = reactions[k].from /\ rs[k].seen = reactions[k].seen /\ rs[k].answer = reactions[k].answer
    BY <1>5, DropsOK DEF rs
  <2>2. reactions[k].fresh \subseteq Lists
    BY ReactionsTyped
  <2>3. CASE k = i
    <3>1. /\ r \in Reaction /\ r.kind = rs[i].kind /\ r.notice = rs[i].notice /\ r.marked = rs[i].marked
          /\ r.fresh = rs[i].fresh /\ r.stage = "counts" /\ r.waits = {"badge"}
      BY <1>2, <2>1, <2>3 DEF Reaction
    <3> HIDE DEF r
    <3>2. SameReaction(k)
      BY <1>b, <1>2, <1>3, <1>6, <1>7, <2>1, <2>2, <2>3, <3>1 DEF SameReaction
    <3>3. SameSwitch(k)
      BY <1>4, <1>7, <2>1, <2>3, <3>1 DEF SameSwitch
    <3> QED
      BY <1>1, <1>7, <2>3, <3>1, <3>2, <3>3, ReactionKept DEF NoticesInv, Marks, Read
  <2>4. CASE k # i
    <3>1. reactions'[k] = rs[k]
      BY <1>7, <2>4
    <3> HIDE DEF r
    <3>2. SameReaction(k)
      BY <1>2, <1>3, <1>6, <2>1, <2>2, <3>1 DEF SameReaction
    <3>3. SameSwitch(k)
      BY <2>1, <3>1 DEF SameSwitch
    <3> QED
      BY <1>1, <2>1, <3>1, <3>2, <3>3, ReactionKept DEF NoticesInv, Marks, Read
  <2> QED
    BY <2>3, <2>4
<1> HIDE DEF r
<1> QED
  BY <1>1, <1>2, <1>3, <1>7, <1>8, SwitchesAside

\* Whatever is on the page is fetched; a fetch in flight is joined.
LEMMA FocusOK == ASSUME NoticesInv, windowFocus PROVE NoticesInv'
<1>1. /\ queries' = [q \in AllQueries |-> IF q \in mounted THEN Refetch(queries[q]) ELSE queries[q]]
      /\ overlapped' = (overlapped /\ queries'["switches"].fetch = queries["switches"].fetch)
      /\ UNCHANGED <<mounted, arrived, unread, prefs, reactions, crashed>>
  BY DEF windowFocus, Sent
<1>2. "switches" \in AllQueries /\ Lists \subseteq AllQueries
  BY DEF AllQueries, Mine
<1>3. /\ QueriesOK /\ overlapped \in BOOLEAN
      /\ \A q \in Lists : queries[q] \in QueryOf(SUBSET arrived)
      /\ queries["switches"] \in QueryOf(Preferences) /\ queries["switches"].has
  BY ReactionsTyped DEF QueriesOK
<1>4. \A q \in AllQueries : queries'[q] = IF q \in mounted THEN Refetch(queries[q]) ELSE queries[q]
  BY <1>1
<1>5. ASSUME NEW q \in Lists
      PROVE  /\ queries'[q] \in QueryOf(SUBSET arrived) /\ queries'[q].data = queries[q].data
             /\ queries'[q].fetch = "answered" => queries'[q] = queries[q]
  <2>1. /\ queries[q] \in QueryOf(SUBSET arrived)
        /\ queries'[q] = IF q \in mounted THEN Refetch(queries[q]) ELSE queries[q]
    BY <1>2, <1>3, <1>4
  <2>2. queries'[q] = queries[q] \/ queries'[q] = [queries[q] EXCEPT !.fetch = "sent"]
    BY <2>1 DEF Refetch
  <2> QED
    BY <2>1, <2>2 DEF QueryOf
<1>6. /\ queries'["switches"] \in QueryOf(Preferences) /\ queries'["switches"].has
      /\ queries'["switches"] = queries["switches"]
         \/ ("switches" \in mounted /\ queries["switches"].fetch = "idle" /\ queries'["switches"].fetch = "sent")
  BY <1>2, <1>3, <1>4 DEF QueryOf, Refetch
<1>7. QueriesOK'
  BY <1>1, <1>5, <1>6 DEF QueriesOK
<1>8. ASSUME NEW i \in DOMAIN reactions
      PROVE  reactions'[i] \in Reaction /\ ReactionOK(i)' /\ SameSwitch(i)
  <2>1. reactions[i] \in Reaction /\ reactions[i].fresh \subseteq Lists
    BY ReactionsTyped
  <2>2. SameReaction(i)
    BY <1>1, <1>5, <2>1 DEF SameReaction
  <2> QED
    BY <1>1, <2>1, <2>2, ReactionKept DEF NoticesInv, Marks, Read, SameSwitch
<1>9. overlapped \/ Agree => overlapped' \/ Agree'
  BY <1>1, <1>3, <1>6 DEF Agree
<1>10. "switches" \notin mounted => queries'["switches"] = queries["switches"] /\ ~overlapped'
  BY <1>1, <1>6 DEF NoticesInv, SwitchesOK
<1>11. overlapped' \in BOOLEAN /\ reactions' = [i \in DOMAIN reactions |-> reactions'[i]]
  BY <1>1, ReactionsTyped
<1>12. UNCHANGED <<mounted, arrived, unread, prefs, crashed>>
  BY <1>1
<1> QED
  BY <1>7, <1>8, <1>9, <1>10, <1>11, <1>12, AllReactions

\* MSS answers a fetch with what it has: what was marked is not in it.
LEMMA ServedOK == ASSUME NoticesInv, NEW q \in Mine, getMyNoticesQuery(q) PROVE NoticesInv'
<1>0. q \in AllQueries /\ "switches" \in AllQueries /\ Lists \subseteq AllQueries
      /\ (q \in Lists \/ q = "switches") /\ "switches" \notin Lists
  BY DEF AllQueries, Mine, Lists
<1>1. PICK v : v = Answer(queries[q], Served(q))
  OBVIOUS
<1>2. /\ queries' = [queries EXCEPT ![q] = v] /\ queries[q].fetch = "sent"
      /\ UNCHANGED <<mounted, arrived, unread, prefs, reactions, overlapped, crashed>>
  BY <1>1 DEF getMyNoticesQuery
<1>3. /\ QueriesOK /\ unread \subseteq arrived /\ prefs \in Preferences
      /\ \A l \in Lists : queries[l] \in QueryOf(SUBSET arrived)
      /\ queries["switches"] \in QueryOf(Preferences) /\ queries["switches"].has
  BY DEF NoticesInv, NoticesTyped, QueriesOK
<1>4. ASSUME q \in Lists
      PROVE  v \in QueryOf(SUBSET arrived) /\ v.data = queries[q].data /\ v.answer \subseteq unread
  <2>1. Served(q) \subseteq unread
    BY <1>4 DEF Lists, Served
  <2> QED
    BY <1>1, <1>3, <1>4, <2>1 DEF Answer, QueryOf
<1>5. ASSUME q = "switches"
      PROVE  v \in QueryOf(Preferences) /\ v.has /\ v.fetch = "answered" /\ v.answer = prefs
  <2>1. Served(q) = prefs
    BY <1>5 DEF Served
  <2> QED
    BY <1>1, <1>3, <1>5, <2>1 DEF Answer, QueryOf
<1>6. QueriesOK' /\ queries'[q] = v /\ \A p \in AllQueries \ {q} : queries'[p] = queries[p]
  BY <1>0, <1>2, <1>3, <1>4, <1>5, OneQuery
<1>7. ASSUME NEW i \in DOMAIN reactions
      PROVE  reactions'[i] \in Reaction /\ ReactionOK(i)' /\ SameSwitch(i)
  <2>1. reactions[i] \in Reaction /\ reactions[i].fresh \subseteq Lists
    BY ReactionsTyped
  <2>2. ReactionOK(i)
    BY DEF NoticesInv, Marks
  <2>3. ASSUME NEW l \in reactions[i].fresh
        PROVE  /\ l \notin reactions[i].waits => reactions[i].marked \cap queries'[l].data = {}
               /\ queries'[l].fetch = "answered" => reactions[i].marked \cap queries'[l].answer = {}
    <3>1. CASE l = q
      BY <1>4, <1>6, <2>1, <2>2, <3>1 DEF ReactionOK
    <3>2. CASE l # q
      BY <1>0, <1>6, <2>1, <2>2, <3>2 DEF ReactionOK
    <3> QED
      BY <3>1, <3>2
  <2>4. ReactionOK(i)'
    BY <1>2, <2>2, <2>3 DEF ReactionOK
  <2> QED
    BY <1>2, <2>1, <2>4 DEF SameSwitch
<1>8. overlapped \/ Agree => overlapped' \/ Agree'
  <2>1. CASE q = "switches"
    BY <1>2, <1>5, <1>6, <2>1 DEF Agree
  <2>2. CASE q # "switches"
    BY <1>0, <1>2, <1>6, <2>2 DEF Agree
  <2> QED
    BY <2>1, <2>2
<1>9. "switches" \notin mounted => queries'["switches"] = queries["switches"] /\ ~overlapped'
  BY <1>0, <1>2, <1>6 DEF NoticesInv, SwitchesOK
<1>10. overlapped' \in BOOLEAN /\ reactions' = [i \in DOMAIN reactions |-> reactions'[i]]
  BY <1>2, ReactionsTyped
<1>11. UNCHANGED <<mounted, arrived, unread, prefs, crashed>>
  BY <1>2
<1> QED
  BY <1>6, <1>7, <1>8, <1>9, <1>10, <1>11, AllReactions

\* An answer arrives: those of a reaction's own fetch do not have what it has marked.
LEMMA ArriveOK == ASSUME NoticesInv, NEW q \in Mine, noticesArrive(q) PROVE NoticesInv'
<1>0. q \in AllQueries /\ "switches" \in AllQueries /\ Lists \subseteq AllQueries
      /\ (q \in Lists \/ q = "switches") /\ "switches" \notin Lists
  BY DEF AllQueries, Mine, Lists
<1>1. PICK v : v = Applied(queries[q])
  OBVIOUS
<1> DEFINE ws == [i \in DOMAIN reactions |-> [reactions[i] EXCEPT !.waits = @ \ {q}]]
<1>2. /\ queries' = [queries EXCEPT ![q] = v] /\ queries[q].fetch = "answered"
      /\ reactions' = Drawn(ws, queries', panel)
      /\ UNCHANGED <<mounted, arrived, unread, prefs, overlapped, crashed>>
  BY <1>1 DEF noticesArrive
<1>3. /\ QueriesOK
      /\ \A l \in Lists : queries[l] \in QueryOf(SUBSET arrived)
      /\ queries["switches"] \in QueryOf(Preferences) /\ queries["switches"].has
  BY DEF NoticesInv, NoticesTyped, QueriesOK
<1>4. v.data = queries[q].answer /\ v.fetch = "idle" /\ v.has
  BY <1>1 DEF Applied
<1>5. /\ q \in Lists => v \in QueryOf(SUBSET arrived)
      /\ q = "switches" => v \in QueryOf(Preferences)
  BY <1>1, <1>3 DEF Applied, QueryOf
<1>6. QueriesOK' /\ queries'[q] = v /\ \A p \in AllQueries \ {q} : queries'[p] = queries[p]
  BY <1>0, <1>2, <1>3, <1>4, <1>5, OneQuery
<1>7. ASSUME NEW i \in DOMAIN reactions
      PROVE  /\ ws[i] \in Reaction
             /\ ws[i].kind = reactions[i].kind /\ ws[i].notice = reactions[i].notice
             /\ ws[i].stage = reactions[i].stage /\ ws[i].marked = reactions[i].marked
             /\ ws[i].waits = reactions[i].waits \ {q} /\ ws[i].fresh = reactions[i].fresh
             /\ ws[i].from = reactions[i].from /\ ws[i].seen = reactions[i].seen
             /\ ws[i].answer = reactions[i].answer
  <2>1. reactions[i] \in Reaction
    BY ReactionsTyped
  <2>2. ws[i] = [reactions[i] EXCEPT !.waits = @ \ {q}]
    OBVIOUS
  <2> HIDE DEF ws
  <2>3. ws[i] \in Reaction
    BY <2>1, <2>2 DEF Reaction
  <2> QED
    BY <2>1, <2>2, <2>3 DEF Reaction
<1>8. ws = [i \in DOMAIN reactions |-> ws[i]]
  OBVIOUS
<1> HIDE DEF ws
<1>9. ws \in Seq(Reaction) /\ DOMAIN ws = DOMAIN reactions
  BY <1>7, <1>8, ReactionsTyped, MapTyped
<1>10. ASSUME NEW i \in DOMAIN reactions
       PROVE  reactions'[i] \in Reaction /\ ReactionOK(i)' /\ SameSwitch(i)
  <2>1. reactions[i] \in Reaction /\ reactions[i].fresh \subseteq Lists
    BY ReactionsTyped
  <2>2. ReactionOK(i) /\ SwitchOK(i)
    BY DEF NoticesInv, Marks, SwitchesOK
  <2>3. /\ reactions'[i] \in Reaction
        /\ reactions'[i].kind = ws[i].kind /\ reactions'[i].notice = ws[i].notice
        /\ reactions'[i].stage = ws[i].stage /\ reactions'[i].marked = ws[i].marked
        /\ reactions'[i].waits = ws[i].waits /\ reactions'[i].fresh = ws[i].fresh
        /\ ws[i].from = "form" => reactions'[i] = ws[i]
    BY <1>2, <1>9, DrawnOK
  <2>4. ASSUME NEW l \in reactions[i].fresh
        PROVE  /\ l \notin reactions[i].waits \ {q} => reactions[i].marked \cap queries'[l].data = {}
               /\ queries'[l].fetch = "answered" => reactions[i].marked \cap queries'[l].answer = {}
    <3>1. CASE l = q
      BY <1>2, <1>4, <1>6, <2>2, <3>1 DEF ReactionOK
    <3>2. CASE l # q
      BY <1>0, <1>6, <2>1, <2>2, <3>2 DEF ReactionOK
    <3> QED
      BY <3>1, <3>2
  <2>5. UNCHANGED <<arrived, unread>>
    BY <1>2
  <2>6. ReactionOK(i)'
    BY <1>7, <2>2, <2>3, <2>4, <2>5 DEF ReactionOK
  <2>7. SameSwitch(i)
    BY <1>7, <2>2, <2>3 DEF SwitchOK, SameSwitch
  <2> QED
    BY <2>3, <2>6, <2>7
<1>11. overlapped \/ Agree => overlapped' \/ Agree'
  <2>1. CASE q = "switches"
    BY <1>2, <1>4, <1>6, <2>1 DEF Agree
  <2>2. CASE q # "switches"
    BY <1>0, <1>2, <1>6, <2>2 DEF Agree
  <2> QED
    BY <2>1, <2>2
<1>12. "switches" \notin mounted => queries'["switches"] = queries["switches"] /\ ~overlapped'
  BY <1>0, <1>2, <1>6 DEF NoticesInv, SwitchesOK
<1>13. overlapped' \in BOOLEAN
  BY <1>2, ReactionsTyped
<1>14. reactions' = [i \in DOMAIN reactions |-> reactions'[i]]
  BY <1>2, <1>9 DEF Drawn
<1>15. UNCHANGED <<mounted, arrived, unread, prefs, crashed>>
  BY <1>2
<1> QED
  BY <1>6, <1>10, <1>11, <1>12, <1>13, <1>14, <1>15, AllReactions

\* The lists and the switches are fetched anew: what was in flight is dropped, and with it the
\* wait of those who awaited it.
LEMMA RefreshOK ==
  ASSUME NoticesInv, NEW i \in DOMAIN reactions, refreshMyNotices(i)
  PROVE  NoticesInv'
<1>q. PICK qs : qs = Mine \cap mounted
  OBVIOUS
<1>f. PICK fresh : fresh = {q \in Lists \cap mounted : ~JoinsFirstFetch(queries[q])}
  OBVIOUS
<1> DEFINE rs == Drops(qs)
           r == [rs[i] EXCEPT !.stage = "lists", !.waits = qs, !.fresh = fresh]
<1>1. /\ reactions[i].stage = "handled" /\ reactions[i].kind # "switch"
      /\ queries' = [q \in AllQueries |-> IF q \in qs THEN Invalidate(queries[q]) ELSE queries[q]]
      /\ overlapped' = (overlapped /\ JoinsFirstFetch(queries["switches"]))
      /\ reactions' = [rs EXCEPT ![i].stage = "lists", ![i].waits = qs, ![i].fresh = fresh]
      /\ UNCHANGED <<mounted, arrived, unread, prefs, crashed>>
  BY <1>q, <1>f DEF refreshMyNotices
<1>2. "switches" \in AllQueries /\ Lists \subseteq AllQueries /\ qs \subseteq AllQueries
      /\ fresh \subseteq qs /\ fresh \subseteq Lists
  BY <1>q, <1>f DEF AllQueries, Mine
<1>3. /\ QueriesOK /\ overlapped \in BOOLEAN
      /\ \A q \in Lists : queries[q] \in QueryOf(SUBSET arrived)
      /\ queries["switches"] \in QueryOf(Preferences) /\ queries["switches"].has
  BY ReactionsTyped DEF QueriesOK
<1>4. \A q \in AllQueries : queries'[q] = IF q \in qs THEN Invalidate(queries[q]) ELSE queries[q]
  BY <1>1
<1>d. PICK d : d = DroppedOf(qs)
  OBVIOUS
<1>5. ASSUME NEW q \in Lists
      PROVE  /\ queries'[q] \in QueryOf(SUBSET arrived) /\ queries'[q].data = queries[q].data
             /\ q \in d => queries'[q].fetch = "sent"
             /\ q \notin d => queries'[q] = queries[q]
  <2>1. /\ queries[q] \in QueryOf(SUBSET arrived)
        /\ queries'[q] = IF q \in qs THEN Invalidate(queries[q]) ELSE queries[q]
    BY <1>2, <1>3, <1>4
  <2>2. q \in d <=> q \in qs /\ ~JoinsFirstFetch(queries[q])
    BY <1>d DEF DroppedOf
  <2>3. queries'[q] = IF q \in d THEN [queries[q] EXCEPT !.fetch = "sent", !.answer = queries[q].data]
                      ELSE queries[q]
    BY <2>1, <2>2 DEF Invalidate
  <2> QED
    BY <2>1, <2>3 DEF QueryOf
<1>6. /\ queries'["switches"] \in QueryOf(Preferences) /\ queries'["switches"].has
      /\ queries'["switches"] = queries["switches"]
         \/ ("switches" \in mounted /\ queries'["switches"].fetch = "sent")
  <2>1. queries'["switches"] = queries["switches"]
        \/ ("switches" \in mounted /\ queries'["switches"] = Invalidate(queries["switches"]))
    BY <1>2, <1>4, <1>q
  <2> QED
    BY <1>3, <2>1 DEF QueryOf, Invalidate
<1>7. QueriesOK'
  BY <1>1, <1>5, <1>6 DEF QueriesOK
<1>8. overlapped' = FALSE
  BY <1>1, <1>3 DEF JoinsFirstFetch
<1>9. overlapped \/ Agree => overlapped' \/ Agree'
  <2>1. CASE "switches" \in mounted
    <3>1. queries'["switches"] = Invalidate(queries["switches"])
      BY <1>2, <1>4, <1>q, <2>1 DEF Mine
    <3>2. queries'["switches"].fetch = "sent"
      BY <1>3, <3>1 DEF Invalidate, JoinsFirstFetch, QueryOf
    <3> QED
      BY <3>2 DEF Agree
  <2>2. CASE "switches" \notin mounted
    BY <1>1, <1>6, <2>2 DEF Agree, NoticesInv, SwitchesOK
  <2> QED
    BY <2>1, <2>2
<1>10. "switches" \notin mounted => queries'["switches"] = queries["switches"] /\ ~overlapped'
  BY <1>6, <1>8
<1>a. rs = [k \in DOMAIN reactions |-> rs[k]]
  BY DEF Drops
<1>k. reactions[i].kind # "switch"
  BY <1>1
<1> HIDE DEF rs
<1>11. /\ reactions' = [k \in DOMAIN reactions |-> reactions'[k]]
       /\ reactions'[i] = r /\ \A k \in DOMAIN reactions \ {i} : reactions'[k] = rs[k]
  BY <1>1, <1>a
<1>u. UNCHANGED <<mounted, arrived, unread, prefs, crashed>> /\ overlapped' \in BOOLEAN
  BY <1>1, <1>8
<1>12. ASSUME NEW k \in DOMAIN reactions
       PROVE  reactions'[k] \in Reaction /\ ReactionOK(k)' /\ SameSwitch(k)
  <2>1. /\ rs[k] \in Reaction /\ rs[k].kind = reactions[k].kind /\ rs[k].notice = reactions[k].notice
        /\ rs[k].marked = reactions[k].marked /\ rs[k].stage = reactions[k].stage
        /\ rs[k].waits = reactions[k].waits \ d /\ rs[k].fresh = reactions[k].fresh \ (d \cap reactions[k].waits)
        /\ rs[k].from = reactions[k].from /\ rs[k].seen = reactions[k].seen /\ rs[k].answer = reactions[k].answer
    BY <1>d, DropsOK DEF rs
  <2>2. reactions[k].fresh \subseteq Lists /\ ReactionOK(k)
    BY ReactionsTyped DEF NoticesInv, Marks
  <2>3. CASE k = i
    <3>1. /\ r \in Reaction /\ r.kind = rs[i].kind /\ r.notice = rs[i].notice /\ r.marked = rs[i].marked
          /\ r.fresh = fresh /\ r.stage = "lists" /\ r.waits = qs
      BY <1>2, <2>1, <2>3 DEF Reaction
    <3> HIDE DEF r
    <3>2. fresh \subseteq d
      BY <1>2, <1>d, <1>f DEF DroppedOf
    <3>3. \A q \in fresh : q \in qs /\ queries'[q].fetch = "sent"
      BY <1>2, <1>5, <3>2
    <3>4. ReactionOK(k)'
      BY <1>u, <1>11, <2>1, <2>2, <2>3, <3>1, <3>3 DEF ReactionOK
    <3>5. SameSwitch(k)
      BY <1>k, <1>11, <2>1, <2>3, <3>1 DEF SameSwitch
    <3> QED
      BY <1>11, <2>3, <3>1, <3>4, <3>5
  <2>4. CASE k # i
    <3> HIDE DEF r
    <3>1. reactions'[k] = rs[k]
      BY <1>11, <2>4
    <3>2. SameReaction(k)
      BY <1>5, <2>1, <2>2, <3>1 DEF SameReaction
    <3>3. SameSwitch(k)
      BY <2>1, <3>1 DEF SameSwitch
    <3> QED
      BY <1>u, <2>1, <2>2, <3>1, <3>2, <3>3, ReactionKept DEF Read
  <2> QED
    BY <2>3, <2>4
<1> HIDE DEF r
<1> QED
  BY <1>7, <1>9, <1>10, <1>11, <1>12, <1>u, AllReactions

\* The refreshes are over.
LEMMA RefreshedOK ==
  ASSUME NoticesInv, NEW i \in DOMAIN reactions, refreshed(i)
  PROVE  NoticesInv'
<1>1. /\ reactions[i].stage = "counts"
      /\ reactions' = [reactions EXCEPT ![i].stage = "done", ![i].seen = FALSE]
      /\ UNCHANGED <<mounted, arrived, unread, prefs, queries, overlapped, crashed>>
  BY DEF refreshed
<1>2. reactions[i].kind # "switch"
  BY <1>1 DEF NoticesInv, SwitchesOK, SwitchOK
<1> QED
  BY <1>1, <1>2, GoesOnOK

\* Every step of the notifications keeps what is known of the reactions and the switches.
LEMMA NoticesStepOK == NoticesInv /\ NotificationsNext => NoticesInv'
<1> SUFFICES ASSUME NoticesInv, NotificationsNext PROVE NoticesInv'
  OBVIOUS
<1>1. ASSUME NEW i \in DOMAIN reactions, ReactionStep(i) \/ requestFault(i) PROVE NoticesInv'
  <2>1. CASE dismissNotice(i) \/ dismissAllMyNotices(i) \/ approveMyRequest(i)
    BY <2>1, MarksOK
  <2>2. CASE updateNoticePreferences(i) \/ setQueryData(i) \/ requestFault(i)
    BY <2>2, SaveOK, SetDataOK, RequestFaultOK
  <2>3. CASE refreshMyNotices(i) \/ refreshAllNoticeCounts(i) \/ refreshed(i)
    BY <2>3, RefreshOK, RefreshCountsOK, RefreshedOK
  <2>4. CASE reactionError(i)
    BY <2>4, ReactionErrorOK
  <2> QED
    BY <1>1, <2>1, <2>2, <2>3, <2>4 DEF ReactionStep
<1>2. ASSUME NEW q \in AllQueries, queryFault(q) PROVE NoticesInv'
  BY <1>2, BreaksOK DEF queryFault
<1>3. CASE NotificationsBell \/ windowFocus \/ getNoticeCountQuery \/ countArrives
  BY <1>3, BellOK, FocusOK, PollOK, CountOK
<1>4. CASE \E q \in Mine : getMyNoticesQuery(q) \/ noticesArrive(q)
  BY <1>4, ServedOK, ArriveOK
<1>5. CASE \E n \in Notice : noticeArrives(n) \/ otherDecides(n)
  BY <1>5, OthersOK
<1>6. CASE \/ markAll
           \/ \E n \in Notice : NotificationItem(n) \/ dismissal(n) \/ NoticeBanner(n)
           \/ \E type \in EmailType : handleChange(type)
  BY <1>6, UserReactsOK
<1> QED
  BY <1>1, <1>2, <1>3, <1>4, <1>5, <1>6 DEF NotificationsNext

\* It holds when the frame is mounted.
LEMMA NoticesInitOK == NotificationsInit => NoticesInv
<1> SUFFICES ASSUME NotificationsInit PROVE NoticesInv
  OBVIOUS
<1>1. /\ mounted \in {{"bell", "badge", "switches"}, {"bell", "badge", "banner"}}
      /\ arrived \in SUBSET OnPage /\ unread = arrived
      /\ prefs = [t \in EmailType |-> TRUE]
      /\ reactions = <<>> /\ overlapped = FALSE /\ crashed = FALSE
  BY DEF NotificationsInit
<1> DEFINE first == [bell |-> NewQuery({}), banner |-> NewQuery({}), badge |-> NewQuery(0),
                     switches |-> LoadedQuery(prefs)]
<1>2. queries = [q \in AllQueries |-> IF q \in mounted THEN Refetch(first[q]) ELSE first[q]]
  BY DEF NotificationsInit
<1>3. first["bell"] = NewQuery({}) /\ first["banner"] = NewQuery({}) /\ first["switches"] = LoadedQuery(prefs)
  OBVIOUS
<1> HIDE DEF first
<1>4. prefs \in Preferences
  BY <1>1 DEF Preferences
<1>5. reactions \in Seq(Reaction) /\ DOMAIN reactions = {}
  BY <1>1
<1>6. arrived \subseteq Notice /\ mounted \subseteq AllQueries
  BY <1>1, NotificationsAssumption DEF OnPage, AllQueries, Mine, Lists
<1>7. ASSUME NEW q \in Lists PROVE queries[q] \in QueryOf(SUBSET arrived)
  <2>1. q \in AllQueries /\ first[q] = NewQuery({})
    BY <1>3 DEF AllQueries, Mine, Lists
  <2>2. first[q] \in QueryOf(SUBSET arrived)
    BY <2>1 DEF NewQuery, QueryOf
  <2>3. queries[q] = first[q] \/ queries[q] = Refetch(first[q])
    BY <1>2, <2>1
  <2> QED
    BY <2>2, <2>3 DEF Refetch, QueryOf
<1>8. /\ queries["switches"] \in QueryOf(Preferences) /\ queries["switches"].has
      /\ queries["switches"].data = prefs /\ queries["switches"].fetch # "answered"
      /\ "switches" \notin mounted => queries["switches"].fetch = "idle"
  <2>1. queries["switches"] = IF "switches" \in mounted THEN Refetch(first["switches"]) ELSE first["switches"]
    BY <1>2 DEF AllQueries, Mine
  <2>2. first["switches"] = [has |-> TRUE, data |-> prefs, fetch |-> "idle", answer |-> prefs]
    BY <1>3 DEF LoadedQuery, NewQuery
  <2>3. first["switches"] \in QueryOf(Preferences)
    BY <1>4, <2>2 DEF QueryOf
  <2>4. CASE "switches" \in mounted
    <3>1. first["switches"].fetch = "idle" /\ first["switches"].has /\ first["switches"].data = prefs
      BY <2>2
    <3>2. queries["switches"] = [first["switches"] EXCEPT !.fetch = "sent"]
      BY <2>1, <2>4, <3>1 DEF Refetch
    <3> QED
      BY <2>3, <2>4, <3>1, <3>2 DEF QueryOf
  <2>5. CASE "switches" \notin mounted
    BY <2>1, <2>2, <2>3, <2>5
  <2> QED
    BY <2>4, <2>5
<1>9. NoticesTyped
  <2>1. queries = [q \in AllQueries |-> queries[q]]
    BY <1>2
  <2>2. QueriesOK
    BY <1>7, <1>8, <2>1 DEF QueriesOK
  <2>3. overlapped \in BOOLEAN /\ crashed \in BOOLEAN /\ unread \subseteq arrived
    BY <1>1
  <2> QED
    BY <1>4, <1>5, <1>6, <2>2, <2>3 DEF NoticesTyped
<1>10. Marks
  BY <1>5 DEF Marks
<1>11. SwitchesOK
  BY <1>1, <1>5, <1>8 DEF SwitchesOK, Unsaved, Agree
<1> QED
  BY <1>9, <1>10, <1>11 DEF NoticesInv

\* And it holds whichever part of the frame is at work.
LEMMA NoticesInvariant == Spec => []NoticesInv
<1>1. Init => NoticesInv
  BY NoticesInitOK DEF Init
<1>2. NoticesInv /\ [Next]_vars => NoticesInv'
  <2> SUFFICES ASSUME NoticesInv, [Next]_vars PROVE NoticesInv'
    OBVIOUS
  <2>1. CASE NotificationsNext
    BY <2>1, NoticesStepOK
  <2>2. CASE UNCHANGED notificationsVars
    <3>1. UNCHANGED <<mounted, arrived, unread, prefs, queries, reactions, overlapped, crashed>>
      BY <2>2 DEF notificationsVars
    <3>2. arrived \subseteq arrived' /\ arrived' \subseteq Notice /\ unread' \subseteq arrived' /\ Read
      BY <3>1 DEF NoticesInv, NoticesTyped, Read
    <3> QED
      BY <3>1, <3>2, NoReaction
  <2> QED
    BY <2>1, <2>2 DEF Next, vars
<1> QED
  BY <1>1, <1>2, PTL DEF Spec

\* dismissNotice, dismissAllNotices and approveMyRequest with refreshMyNotices: a notice that
\* was marked as read is on neither list once the refetch that its mutation began is answered,
\* for any notices and however many mutations, looks and faults there are.
THEOREM ReadNoticesAreGone == Spec => []DismissedIsGone
<1>1. NoticesInv => DismissedIsGone
  BY DEF NoticesInv, Marks, ReactionOK, DismissedIsGone
<1> QED
  BY <1>1, NoticesInvariant, PTL

\* handleChange of the email switches with setQueryData: when nothing is being saved or
\* fetched, the switches are as MSS has them, unless an older answer replaced what was saved,
\* for any types of notices and however often they are switched.
THEOREM SwitchesAreAsSaved == Spec => []SwitchesAreSaved
<1>1. NoticesInv => SwitchesAreSaved
  BY DEF NoticesInv, SwitchesOK, Unsaved, Agree, SwitchesAreSaved
<1> QED
  BY <1>1, NoticesInvariant, PTL

-----------------------------------------------------------------------------
\* The toasts

Toast == [id : ToastId, open : BOOLEAN]

\* The newest is first, so that no two have an id, and no timer is set for one that is open
ToastsInv ==
    /\ ToastsTypeOK
    /\ \A j, k \in DOMAIN toasts : j < k => toasts[k].id < toasts[j].id
    /\ \A k \in DOMAIN toasts : toasts[k].id <= lastId
    /\ \A k \in DOMAIN toasts : toasts[k].open => toasts[k].id \notin toastTimeouts
    /\ \A id \in toastTimeouts : id <= lastId

IsCut(s, k, c) == c = SubSeq(s, 1, k - 1) \o SubSeq(s, k + 1, Len(s))

\* What is left without an element of a sequence, in its order.
LEMMA CutOut ==
  ASSUME NEW S, NEW s \in Seq(S), NEW k \in 1..Len(s),
         NEW c, IsCut(s, k, c)
  PROVE  /\ c \in Seq(S) /\ Len(c) = Len(s) - 1 /\ DOMAIN c = 1..(Len(s) - 1)
         /\ \A i \in 1..(Len(s) - 1) : c[i] = IF i < k THEN s[i] ELSE s[i + 1]
<1>1. Len(s) \in Nat /\ k \in Nat /\ 1 <= k /\ k <= Len(s)
  BY LenProperties
<1>2. PICK a : a = SubSeq(s, 1, k - 1)
  OBVIOUS
<1>3. PICK b : b = SubSeq(s, k + 1, Len(s))
  OBVIOUS
<1>4. a \in Seq(S) /\ Len(a) = k - 1 /\ \A i \in 1..(k - 1) : a[i] = s[i]
  BY <1>1, <1>2, SubSeqProperties
<1>5. b \in Seq(S) /\ Len(b) = Len(s) - k /\ \A i \in 1..(Len(s) - k) : b[i] = s[i + k]
  BY <1>1, <1>3, SubSeqProperties
<1>6. c = a \o b
  BY <1>2, <1>3 DEF IsCut
<1>7. /\ c \in Seq(S) /\ Len(c) = Len(a) + Len(b)
      /\ \A i \in 1..(Len(a) + Len(b)) : c[i] = IF i <= Len(a) THEN a[i] ELSE b[i - Len(a)]
  <2>1. /\ a \o b \in Seq(S) /\ Len(a \o b) = Len(a) + Len(b)
        /\ \A i \in 1..(Len(a) + Len(b)) : (a \o b)[i] = IF i <= Len(a) THEN a[i] ELSE b[i - Len(a)]
    BY <1>4, <1>5, ConcatProperties
  <2> QED
    BY <1>6, <2>1, Zenon
<1>8. Len(a) + Len(b) = Len(s) - 1
  BY <1>1, <1>4, <1>5
<1>9. c \in Seq(S) /\ Len(c) = Len(s) - 1 /\ DOMAIN c = 1..(Len(s) - 1)
  <2>1. c \in Seq(S) /\ Len(c) = Len(s) - 1
    BY <1>7, <1>8
  <2> QED
    BY <2>1, LenProperties
<1>10. ASSUME NEW i \in 1..(Len(s) - 1) PROVE c[i] = IF i < k THEN s[i] ELSE s[i + 1]
  <2>1. CASE i < k
    <3>1. i <= Len(a) /\ i \in 1..(k - 1)
      BY <1>1, <1>4, <2>1
    <3>2. c[i] = a[i]
      BY <1>7, <1>8, <3>1
    <3> QED
      BY <1>4, <2>1, <3>1, <3>2
  <2>2. CASE ~(i < k)
    <3>1. c[i] = b[i - (k - 1)]
      <4>1. ~(i <= Len(a)) /\ i - Len(a) = i - (k - 1)
        BY <1>1, <1>4, <2>2
      <4> QED
        BY <1>7, <1>8, <4>1
    <3>2. i - (k - 1) \in 1..(Len(s) - k) /\ i - (k - 1) + k = i + 1
      BY <1>1, <2>2
    <3> QED
      BY <1>5, <2>2, <3>1, <3>2
  <2> QED
    BY <2>1, <2>2
<1> QED
  BY <1>9, <1>10

\* A timer takes the toast that it was set for, as a filter does, and leaves the others in
\* their order.
LEMMA WithoutFilters ==
  ASSUME ToastsInv, NEW id, NEW c, c = Without(toasts, id)
  PROVE  /\ c \in Seq(Toast) /\ Len(c) <= Len(toasts)
         /\ \A i \in DOMAIN c : \E k \in DOMAIN toasts : c[i] = toasts[k]
         /\ \A i, j \in DOMAIN c : i < j => c[j].id < c[i].id
         /\ Kept(c) = Kept(toasts) \ {id}
<1>1. /\ toasts \in Seq(Toast) /\ DOMAIN toasts = 1..Len(toasts) /\ Len(toasts) \in Nat
      /\ \A k \in DOMAIN toasts : toasts[k] \in Toast /\ toasts[k].id \in Nat
      /\ \A j, k \in DOMAIN toasts : j < k => toasts[k].id < toasts[j].id
  <2>1. toasts \in Seq(Toast)
    BY DEF ToastsInv, ToastsTypeOK, Toast
  <2>2. DOMAIN toasts = 1..Len(toasts) /\ Len(toasts) \in Nat
    BY <2>1, LenProperties
  <2>3. \A k \in DOMAIN toasts : toasts[k] \in Toast
    BY <2>1, <2>2, ElementOfSeq
  <2> QED
    BY <2>1, <2>2, <2>3, ToastsAssumption DEF ToastsInv, Toast, ToastId
<1>2. CASE id \notin Kept(toasts)
  <2>1. c = toasts /\ Kept(toasts) = Kept(toasts) \ {id}
    BY <1>2 DEF Without
  <2> QED
    BY <1>1, <2>1
<1>3. CASE id \in Kept(toasts)
  <2>1. PICK k \in DOMAIN toasts : /\ toasts[k].id = id
                                  /\ c = SubSeq(toasts, 1, k - 1) \o SubSeq(toasts, k + 1, Len(toasts))
    BY <1>3 DEF Without, Kept
  <2>2. /\ c \in Seq(Toast) /\ Len(c) = Len(toasts) - 1 /\ DOMAIN c = 1..(Len(toasts) - 1)
        /\ \A i \in 1..(Len(toasts) - 1) : c[i] = IF i < k THEN toasts[i] ELSE toasts[i + 1]
    <3>1. k \in 1..Len(toasts) /\ toasts \in Seq(Toast)
      BY <1>1
    <3>2. IsCut(toasts, k, c)
      BY <2>1 DEF IsCut
    <3> QED
      BY <3>1, <3>2, CutOut
  <2>3. ASSUME NEW i \in DOMAIN c
        PROVE  \E m \in DOMAIN toasts : m = (IF i < k THEN i ELSE i + 1) /\ m # k /\ c[i] = toasts[m]
    <3>1. CASE i < k
      <4>1. i \in DOMAIN toasts /\ i # k
        BY <1>1, <2>2, <3>1
      <4>2. c[i] = toasts[i]
        BY <2>2, <3>1
      <4> QED
        BY <3>1, <4>1, <4>2
    <3>2. CASE ~(i < k)
      <4>1. i + 1 \in DOMAIN toasts /\ i + 1 # k
        BY <1>1, <2>2, <3>2
      <4>2. c[i] = toasts[i + 1]
        BY <2>2, <3>2
      <4> QED
        BY <3>2, <4>1, <4>2
    <3> QED
      BY <3>1, <3>2
  <2>4. ASSUME NEW i \in DOMAIN c, NEW j \in DOMAIN c, i < j PROVE c[j].id < c[i].id
    <3>1. PICK m \in DOMAIN toasts : m = (IF i < k THEN i ELSE i + 1) /\ c[i] = toasts[m]
      BY <2>3
    <3>2. PICK n \in DOMAIN toasts : n = (IF j < k THEN j ELSE j + 1) /\ c[j] = toasts[n]
      BY <2>3
    <3>3. m < n
      BY <1>1, <2>1, <2>2, <2>4, <3>1, <3>2
    <3> QED
      BY <1>1, <3>1, <3>2, <3>3
  <2>5. ASSUME NEW m \in DOMAIN toasts, m # k PROVE \E i \in DOMAIN c : c[i] = toasts[m]
    <3>1. CASE m < k
      <4>1. m \in 1..(Len(toasts) - 1)
        BY <1>1, <3>1
      <4> QED
        BY <2>2, <3>1, <4>1
    <3>2. CASE k < m
      <4>1. m - 1 \in 1..(Len(toasts) - 1) /\ ~(m - 1 < k) /\ (m - 1) + 1 = m
        BY <1>1, <3>2
      <4> QED
        BY <2>2, <4>1
    <3>3. m < k \/ k < m
      BY <1>1, <2>5
    <3> QED
      BY <3>1, <3>2, <3>3
  <2>6. ASSUME NEW m \in DOMAIN toasts, m # k PROVE toasts[m].id # id
    <3>1. m < k \/ k < m
      BY <1>1, <2>6
    <3>2. toasts[m].id < toasts[k].id \/ toasts[k].id < toasts[m].id
      BY <1>1, <3>1
    <3> QED
      BY <1>1, <2>1, <3>2
  <2>7. Kept(c) = Kept(toasts) \ {id}
    <3>1. ASSUME NEW x \in Kept(c) PROVE x \in Kept(toasts) \ {id}
      BY <2>3, <2>6, <3>1 DEF Kept
    <3>2. ASSUME NEW x \in Kept(toasts), x # id PROVE x \in Kept(c)
      <4>1. PICK m \in DOMAIN toasts : x = toasts[m].id
        BY <3>2 DEF Kept
      <4>2. m # k
        BY <2>1, <3>2, <4>1
      <4>3. PICK i \in DOMAIN c : c[i] = toasts[m]
        BY <2>5, <4>2
      <4> QED
        BY <4>1, <4>3 DEF Kept
    <3> QED
      BY <3>1, <3>2
  <2>8. Len(c) <= Len(toasts)
    BY <1>1, <2>2
  <2> QED
    BY <2>2, <2>3, <2>4, <2>7, <2>8
<1> QED
  BY <1>2, <1>3

\* Every step of the toasts keeps this.
LEMMA ToastsStepOK == ToastsInv /\ ToastsNext => ToastsInv'
<1> SUFFICES ASSUME ToastsInv, ToastsNext PROVE ToastsInv'
  OBVIOUS
<1>1. /\ toasts \in Seq(Toast) /\ DOMAIN toasts = 1..Len(toasts) /\ Len(toasts) \in Nat
      /\ Len(toasts) <= TOAST_LIMIT /\ \A k \in DOMAIN toasts : toasts[k] \in Toast
  <2>1. toasts \in Seq(Toast)
    BY DEF ToastsInv, ToastsTypeOK, Toast
  <2>2. DOMAIN toasts = 1..Len(toasts) /\ Len(toasts) \in Nat
    BY <2>1, LenProperties
  <2>3. \A k \in DOMAIN toasts : toasts[k] \in Toast
    BY <2>1, <2>2, ElementOfSeq
  <2> QED
    BY <2>1, <2>2, <2>3 DEF ToastsInv, ToastsTypeOK
<1>2. /\ toastTimeouts \subseteq ToastId /\ lastId \in 0..MaxToasts /\ \A id \in toastTimeouts : id <= lastId
      /\ \A k \in DOMAIN toasts : toasts[k].id \in Nat /\ toasts[k].id <= lastId
      /\ \A k \in DOMAIN toasts : toasts[k].open => toasts[k].id \notin toastTimeouts
      /\ \A j, k \in DOMAIN toasts : j < k => toasts[k].id < toasts[j].id
  BY <1>1 DEF ToastsInv, ToastsTypeOK, Toast, ToastId
<1>3. CASE toast
  <2>1. PICK new \in Toast : new = [id |-> lastId + 1, open |-> TRUE]
    <3>1. lastId + 1 \in ToastId
      BY <1>2, <1>3, ToastsAssumption DEF toast, ToastId
    <3> QED
      BY <3>1 DEF Toast
  <2>2. PICK added : added = <<new>> \o toasts
    OBVIOUS
  <2>3. /\ added \in Seq(Toast) /\ Len(added) = Len(toasts) + 1 /\ added[1] = new
        /\ \A k \in 2..(Len(toasts) + 1) : added[k] = toasts[k - 1]
    <3>1. <<new>> \in Seq(Toast) /\ Len(<<new>>) = 1 /\ <<new>>[1] = new
      OBVIOUS
    <3> QED
      BY <1>1, <2>2, <3>1, ConcatProperties
  <2>4. PICK n : n = IF Len(added) < TOAST_LIMIT THEN Len(added) ELSE TOAST_LIMIT
    OBVIOUS
  <2>5. n \in Nat /\ 1 <= n /\ n <= TOAST_LIMIT /\ n <= Len(toasts) + 1
    BY <1>1, <2>3, <2>4, ToastsAssumption
  <2>6. toasts' = SubSeq(added, 1, n) /\ lastId' = lastId + 1 /\ toastTimeouts' = toastTimeouts /\ lastId < MaxToasts
    BY <1>3, <2>1, <2>2, <2>4 DEF toast
  <2>7. toasts' \in Seq(Toast) /\ Len(toasts') = n /\ \A k \in 1..n : toasts'[k] = added[k]
    <3>1. \A k \in 1..n : added[k] \in Toast
      BY <1>1, <2>3, <2>5, ElementOfSeq
    <3> QED
      BY <2>5, <2>6, <3>1, SubSeqProperties
  <2>8. DOMAIN toasts' = 1..n
    BY <2>7, LenProperties
  <2>9. toasts'[1] = new /\ \A k \in 2..n : k - 1 \in DOMAIN toasts /\ toasts'[k] = toasts[k - 1]
    BY <1>1, <2>3, <2>5, <2>7
  <2>10. ASSUME NEW k \in DOMAIN toasts'
         PROVE  /\ toasts'[k].id <= lastId' /\ (toasts'[k].open => toasts'[k].id \notin toastTimeouts')
                /\ \A j \in DOMAIN toasts' : j < k => toasts'[k].id < toasts'[j].id
    <3>1. CASE k = 1
      BY <1>2, <2>1, <2>5, <2>6, <2>8, <2>9, <3>1, ToastsAssumption DEF ToastId
    <3>2. CASE k # 1
      <4>1. k \in 2..n /\ k - 1 \in DOMAIN toasts /\ toasts'[k] = toasts[k - 1]
        BY <2>5, <2>8, <2>9, <3>2
      <4>2. ASSUME NEW j \in DOMAIN toasts', j < k PROVE toasts'[k].id < toasts'[j].id
        <5>1. CASE j = 1
          BY <1>2, <2>1, <2>9, <4>1, <5>1, ToastsAssumption
        <5>2. CASE j # 1
          <6>1. j \in 2..n /\ j - 1 \in DOMAIN toasts /\ toasts'[j] = toasts[j - 1] /\ j - 1 < k - 1
            BY <2>5, <2>8, <2>9, <4>1, <4>2, <5>2
          <6> QED
            BY <1>2, <4>1, <6>1
        <5> QED
          BY <5>1, <5>2
      <4>3. toasts'[k].id <= lastId'
        <5>1. toasts'[k].id \in Nat /\ toasts'[k].id <= lastId /\ lastId \in Nat
          BY <1>2, <4>1, ToastsAssumption
        <5>2. lastId' = lastId + 1
          BY <2>6
        <5> QED
          BY <5>1, <5>2
      <4> QED
        BY <1>2, <2>6, <4>1, <4>2, <4>3
    <3> QED
      BY <3>1, <3>2
  <2>11. /\ lastId' \in 0..MaxToasts /\ toastTimeouts' \subseteq ToastId
         /\ \A id \in toastTimeouts' : id <= lastId'
    BY <1>2, <2>6, ToastsAssumption DEF ToastId
  <2> QED
    BY <2>5, <2>7, <2>10, <2>11 DEF ToastsInv, ToastsTypeOK, Toast
<1>4. ASSUME NEW id \in ToastId, dismiss(id) PROVE ToastsInv'
  <2>1. PICK k \in DOMAIN toasts : toasts[k] = [id |-> id, open |-> TRUE]
    BY <1>4 DEF dismiss
  <2>2. id <= lastId
    BY <1>2, <2>1
  <2>3. toasts' = [j \in DOMAIN toasts |-> toasts'[j]] /\ toastTimeouts' = toastTimeouts \cup {id} /\ lastId' = lastId
    BY <1>4 DEF dismiss
  <2>4. ASSUME NEW j \in DOMAIN toasts
        PROVE  /\ toasts'[j] \in Toast /\ toasts'[j].id = toasts[j].id
               /\ toasts'[j].open => toasts[j].open /\ toasts[j].id # id
    <3>1. toasts'[j] = [toasts[j] EXCEPT !.open = @ /\ toasts[j].id # id]
      BY <1>4 DEF dismiss
    <3>2. PICK b \in BOOLEAN : b = (toasts[j].open /\ toasts[j].id # id)
      OBVIOUS
    <3>3. toasts'[j] = [toasts[j] EXCEPT !.open = b]
      BY <3>1, <3>2
    <3>4. toasts'[j] \in Toast /\ toasts'[j].id = toasts[j].id /\ toasts'[j].open = b
      BY <1>1, <3>3 DEF Toast
    <3> QED
      BY <3>2, <3>4
  <2>5. toasts' \in [1..Len(toasts) -> Toast]
    BY <1>1, <2>3, <2>4
  <2>6. toasts' \in Seq(Toast) /\ Len(toasts') = Len(toasts) /\ DOMAIN toasts' = DOMAIN toasts
    BY <1>1, <2>5
  <2>7. toastTimeouts' \subseteq ToastId /\ \A i \in toastTimeouts' : i <= lastId'
    BY <1>2, <2>2, <2>3
  <2>8. \A j \in DOMAIN toasts' : /\ toasts'[j].id <= lastId'
                                  /\ toasts'[j].open => toasts'[j].id \notin toastTimeouts'
    BY <1>2, <2>3, <2>4, <2>6
  <2>9. \A j, i \in DOMAIN toasts' : j < i => toasts'[i].id < toasts'[j].id
    BY <1>2, <2>4, <2>6
  <2> QED
    BY <1>1, <1>2, <2>3, <2>6, <2>7, <2>8, <2>9 DEF ToastsInv, ToastsTypeOK, Toast
<1>5. ASSUME NEW id \in ToastId, addToRemoveQueue(id) PROVE ToastsInv'
  <2>1. toasts' = Without(toasts, id) /\ toastTimeouts' = toastTimeouts \ {id} /\ lastId' = lastId
    BY <1>5 DEF addToRemoveQueue
  <2>2. /\ toasts' \in Seq(Toast) /\ Len(toasts') <= Len(toasts)
        /\ \A i \in DOMAIN toasts' : \E k \in DOMAIN toasts : toasts'[i] = toasts[k]
        /\ \A i, j \in DOMAIN toasts' : i < j => toasts'[j].id < toasts'[i].id
    BY <2>1, WithoutFilters
  <2>3. Len(toasts') <= TOAST_LIMIT
    <3>1. Len(toasts') \in Nat
      BY <2>2, LenProperties
    <3> QED
      BY <1>1, <2>2, <3>1, ToastsAssumption
  <2>4. \A i \in DOMAIN toasts' : /\ toasts'[i].id <= lastId'
                                  /\ toasts'[i].open => toasts'[i].id \notin toastTimeouts'
    BY <1>2, <2>1, <2>2
  <2>5. /\ lastId' \in 0..MaxToasts /\ toastTimeouts' \subseteq ToastId
        /\ \A i \in toastTimeouts' : i <= lastId'
    BY <1>2, <2>1
  <2> QED
    BY <2>2, <2>3, <2>4, <2>5 DEF ToastsInv, ToastsTypeOK, Toast
<1> QED
  BY <1>3, <1>4, <1>5 DEF ToastsNext

\* An open toast is left where it is by every step but a new toast: a timer is of another.
LEMMA ToastsLeaveOpen ==
  ASSUME ToastsInv, ToastsNext, NEW k \in DOMAIN toasts, toasts[k].open
  PROVE  toasts[k].id \in Kept(toasts') \/ lastId' # lastId
<1>1. CASE toast
  BY <1>1, ToastsAssumption DEF toast, ToastsInv, ToastsTypeOK
<1>2. ASSUME NEW id \in ToastId, dismiss(id) PROVE toasts[k].id \in Kept(toasts')
  <2>1. DOMAIN toasts' = DOMAIN toasts /\ toasts'[k] = [toasts[k] EXCEPT !.open = @ /\ toasts[k].id # id]
    BY <1>2 DEF dismiss
  <2>2. toasts[k] \in Toast
    <3>1. toasts \in Seq(Toast)
      BY DEF ToastsInv, ToastsTypeOK, Toast
    <3> QED
      BY <3>1, ElementOfSeq, LenProperties
  <2>3. toasts'[k].id = toasts[k].id
    BY <2>1, <2>2 DEF Toast
  <2> QED
    BY <2>1, <2>3 DEF Kept
<1>3. ASSUME NEW id \in ToastId, addToRemoveQueue(id) PROVE toasts[k].id \in Kept(toasts')
  <2>1. toasts' = Without(toasts, id) /\ id \in toastTimeouts
    BY <1>3 DEF addToRemoveQueue
  <2>2. toasts[k].id # id /\ toasts[k].id \in Kept(toasts)
    BY <2>1 DEF ToastsInv, Kept
  <2>3. Kept(toasts') = Kept(toasts) \ {id}
    BY <2>1, WithoutFilters
  <2> QED
    BY <2>2, <2>3
<1> QED
  BY <1>1, <1>2, <1>3 DEF ToastsNext

\* And so does every step of the frame.
LEMMA ToastsInvariant == Spec => []ToastsInv
<1>1. Init => ToastsInv
  BY ToastsAssumption DEF Init, ToastsInit, ToastsInv, ToastsTypeOK
<1>2. ToastsInv /\ [Next]_vars => ToastsInv'
  <2> SUFFICES ASSUME ToastsInv, [Next]_vars PROVE ToastsInv'
    OBVIOUS
  <2>1. CASE ToastsNext
    BY <2>1, ToastsStepOK
  <2>2. CASE UNCHANGED toastsVars
    BY <2>2 DEF toastsVars, ToastsInv, ToastsTypeOK
  <2> QED
    BY <2>1, <2>2 DEF Next, vars
<1> QED
  BY <1>1, <1>2, PTL DEF Spec

\* A toast that is open stays until it is dismissed or a newer one takes its place, however many
\* timers are set for the toasts that were there before: REMOVE_TOAST is of another.
THEOREM OpenToastsStay == Spec => OpenToastStays
<1>1. ToastsInv /\ [Next]_vars =>
        [\A k \in DOMAIN toasts :
            toasts[k].open => toasts[k].id \in Kept(toasts') \/ lastId' # lastId]_toastsVars
  <2> SUFFICES ASSUME ToastsInv, [Next]_vars, ~(UNCHANGED toastsVars), NEW k \in DOMAIN toasts, toasts[k].open
               PROVE  toasts[k].id \in Kept(toasts') \/ lastId' # lastId
    OBVIOUS
  <2>1. ToastsNext
    BY DEF Next, vars
  <2> QED
    BY <2>1, ToastsLeaveOpen
<1> QED
  BY <1>1, ToastsInvariant, PTL DEF Spec, OpenToastStays

-----------------------------------------------------------------------------
\* The rest of the types of the notifications

PartTyped == part \in {"session", "notifications", "toasts"}

RestTyped ==
    /\ decided \subseteq arrived
    /\ queries["badge"] \in QueryOf(0..Cardinality(Notice))
    /\ Len(reactions) <= MaxReactions
    /\ panel \in BOOLEAN /\ looks \in 0..MaxLooks /\ faults \in 0..MaxFaults

\* A badge counts some of the notices.
LEMMA CountTyped == ASSUME NoticesInv PROVE Served("badge") \in 0..Cardinality(Notice)
<1>1. unread \subseteq Notice /\ IsFiniteSet(Notice)
  BY NotificationsAssumption DEF NoticesInv, NoticesTyped
<1>2. IsFiniteSet(unread) /\ Cardinality(unread) <= Cardinality(Notice)
  BY <1>1, FS_Subset
<1>3. Cardinality(unread) \in Nat /\ Cardinality(Notice) \in Nat
  BY <1>1, <1>2, FS_CardinalityType
<1>4. Served("badge") = Cardinality(unread)
  BY DEF Served
<1> QED
  BY <1>2, <1>3, <1>4

\* What a step does to the query of the badge leaves it one.
LEMMA BadgeTyped ==
  ASSUME NoticesInv, RestTyped,
         \/ queries'["badge"] = queries["badge"]
         \/ queries'["badge"] = Refetch(queries["badge"])
         \/ queries'["badge"] = Invalidate(queries["badge"])
         \/ queries'["badge"] = Applied(Answer(queries["badge"], Served("badge")))
  PROVE  queries'["badge"] \in QueryOf(0..Cardinality(Notice))
<1> DEFINE D == 0..Cardinality(Notice)
<1>1. queries["badge"] \in QueryOf(D) /\ Served("badge") \in D
  BY CountTyped DEF RestTyped
<1> HIDE DEF D
<1>2. Answer(queries["badge"], Served("badge")) \in QueryOf(D)
  BY <1>1, QueryTyped
<1>3. /\ Refetch(queries["badge"]) \in QueryOf(D) /\ Invalidate(queries["badge"]) \in QueryOf(D)
      /\ Applied(Answer(queries["badge"], Served("badge"))) \in QueryOf(D)
  BY <1>1, <1>2, QueryTyped
<1>4. queries'["badge"] \in QueryOf(D)
  BY <1>1, <1>3
<1> QED
  BY <1>4 DEF D

ReactionsStep ==
    \/ DOMAIN reactions' = DOMAIN reactions \/ reactions' = <<>>
    \/ Len(reactions) < MaxReactions /\ \E r : reactions' = Append(reactions, r)

\* A step leaves as many reactions as there were, or one more, or none.
LEMMA ReactionsFit ==
  ASSUME NoticesInv, NoticesInv', RestTyped,
         ReactionsStep
  PROVE  Len(reactions') <= MaxReactions
<1>1. reactions \in Seq(Reaction) /\ reactions' \in Seq(Reaction) /\ MaxReactions \in Nat
  BY NotificationsAssumption DEF NoticesInv, NoticesTyped
<1>2. Len(reactions) \in Nat /\ Len(reactions') \in Nat /\ DOMAIN reactions = 1..Len(reactions)
      /\ DOMAIN reactions' = 1..Len(reactions')
  BY <1>1, LenProperties
<1>3. CASE DOMAIN reactions' = DOMAIN reactions
  <2>1. 1..Len(reactions') = 1..Len(reactions)
    BY <1>2, <1>3
  <2>2. Len(reactions') <= Len(reactions)
    <3>1. CASE Len(reactions') = 0
      BY <1>2, <3>1
    <3>2. CASE Len(reactions') # 0
      <4>1. Len(reactions') \in 1..Len(reactions')
        BY <1>2, <3>2
      <4>2. Len(reactions') \in 1..Len(reactions)
        BY <2>1, <4>1, Zenon
      <4> QED
        BY <1>2, <4>2
    <3> QED
      BY <3>1, <3>2
  <2> QED
    BY <1>1, <1>2, <2>2 DEF RestTyped
<1>4. CASE reactions' = <<>>
  BY <1>1, <1>4
<1>5. ASSUME NEW r, reactions' = Append(reactions, r), Len(reactions) < MaxReactions
      PROVE  Len(reactions') <= MaxReactions
  <2>1. reactions \in Seq(Reaction \cup {r})
    <3>1. reactions \in [1..Len(reactions) -> Reaction \cup {r}]
      BY <1>1, <1>2, ElementOfSeq
    <3> QED
      BY <1>2, <3>1
  <2>2. Len(Append(reactions, r)) = Len(reactions) + 1
    BY <2>1, AppendProperties
  <2>3. Len(reactions') = Len(reactions) + 1
    BY <1>5, <2>2
  <2> QED
    BY <1>1, <1>2, <1>5, <2>3
<1> QED
  BY <1>3, <1>4, <1>5 DEF ReactionsStep

\* A step that is typed in each of these ways is typed.
LEMMA RestStep ==
  ASSUME NoticesInv, NoticesInv', RestTyped,
         ReactionsStep,
         \/ queries'["badge"] = queries["badge"]
         \/ queries'["badge"] = Refetch(queries["badge"])
         \/ queries'["badge"] = Invalidate(queries["badge"])
         \/ queries'["badge"] = Applied(Answer(queries["badge"], Served("badge"))),
         decided' \subseteq arrived', panel' \in BOOLEAN,
         looks' = looks \/ Looks, faults' = faults \/ (faults < MaxFaults /\ faults' = faults + 1)
  PROVE  RestTyped'
<1>1. Len(reactions') <= MaxReactions /\ queries'["badge"] \in QueryOf(0..Cardinality(Notice))
  BY ReactionsFit, BadgeTyped
<1>2. looks' \in 0..MaxLooks /\ faults' \in 0..MaxFaults
  BY NotificationsAssumption DEF RestTyped, Looks
<1> QED
  BY <1>1, <1>2 DEF RestTyped

\* Every step of the notifications is.
LEMMA RestStepOK == NoticesInv /\ RestTyped /\ NotificationsNext => RestTyped'
<1> SUFFICES ASSUME NoticesInv, RestTyped, NotificationsNext PROVE RestTyped'
  OBVIOUS
<1>0. /\ NoticesInv' /\ decided \subseteq arrived /\ panel \in BOOLEAN
      /\ queries = [q \in AllQueries |-> queries[q]] /\ "badge" \in AllQueries
      /\ \A q \in Mine : q \in AllQueries /\ q # "badge"
  BY NoticesStepOK DEF RestTyped, NoticesInv, NoticesTyped, QueriesOK, AllQueries, Mine, Lists
<1>1. ASSUME NEW i \in DOMAIN reactions,
             \/ dismissNotice(i) \/ dismissAllMyNotices(i) \/ approveMyRequest(i)
             \/ updateNoticePreferences(i) \/ requestFault(i) \/ refreshed(i)
      PROVE  RestTyped'
  <2>1. DOMAIN reactions' = DOMAIN reactions /\ UNCHANGED <<arrived, queries, panel, looks>>
    BY <1>1 DEF dismissNotice, dismissAllMyNotices, approveMyRequest, updateNoticePreferences,
      requestFault, refreshed, Handled
  <2>2. faults' = faults \/ (faults < MaxFaults /\ faults' = faults + 1)
    BY <1>1 DEF dismissNotice, dismissAllMyNotices, approveMyRequest, updateNoticePreferences,
      requestFault, refreshed, Handled
  <2>3. decided' \subseteq arrived
    <3>1. CASE approveMyRequest(i)
      <4>1. reactions[i].notice \in arrived
        BY <3>1 DEF approveMyRequest, NoticesInv, Marks, ReactionOK
      <4> QED
        BY <1>0, <3>1, <4>1 DEF approveMyRequest
    <3>2. CASE ~approveMyRequest(i)
      BY <1>0, <1>1, <3>2 DEF dismissNotice, dismissAllMyNotices, updateNoticePreferences,
        requestFault, refreshed
    <3> QED
      BY <3>1, <3>2
  <2> QED
    BY <1>0, <2>1, <2>2, <2>3, RestStep DEF ReactionsStep
<1>2. ASSUME NEW i \in DOMAIN reactions, refreshMyNotices(i) \/ refreshAllNoticeCounts(i) \/ setQueryData(i)
      PROVE  RestTyped'
  <2>1. DOMAIN reactions' = DOMAIN reactions /\ UNCHANGED <<arrived, decided, panel, looks, faults>>
    BY <1>2 DEF refreshMyNotices, refreshAllNoticeCounts, setQueryData, Drops
  <2>2. queries'["badge"] = queries["badge"] \/ queries'["badge"] = Invalidate(queries["badge"])
    BY <1>0, <1>2 DEF refreshMyNotices, refreshAllNoticeCounts, setQueryData
  <2> QED
    BY <1>0, <2>1, <2>2, RestStep DEF ReactionsStep
<1>3. ASSUME NEW i \in DOMAIN reactions, reactionError(i) PROVE RestTyped'
  <2>1. /\ DOMAIN reactions' = DOMAIN reactions \/ reactions' = <<>>
        /\ UNCHANGED <<arrived, decided, queries, looks, faults>> /\ panel' \in BOOLEAN
    BY <1>0, <1>3 DEF reactionError, Breaks
  <2> QED
    BY <1>0, <2>1, RestStep DEF ReactionsStep
<1>4. ASSUME NEW q \in AllQueries, queryFault(q) PROVE RestTyped'
  <2>1. /\ reactions' = <<>> /\ UNCHANGED <<arrived, decided, queries, looks>> /\ panel' = FALSE
        /\ faults < MaxFaults /\ faults' = faults + 1
    BY <1>4 DEF queryFault, Breaks
  <2> QED
    BY <1>0, <2>1, RestStep DEF ReactionsStep
<1>5. CASE NotificationsBell
  <2>1. /\ DOMAIN reactions' = DOMAIN reactions /\ UNCHANGED <<arrived, decided, queries, faults>>
        /\ panel' \in BOOLEAN /\ (looks' = looks \/ Looks)
    BY <1>5 DEF NotificationsBell, Drawn
  <2> QED
    BY <1>0, <2>1, RestStep DEF ReactionsStep
<1>6. CASE windowFocus
  <2>1. UNCHANGED <<arrived, decided, panel, reactions, faults>> /\ Looks
    BY <1>6 DEF windowFocus
  <2>2. queries'["badge"] = queries["badge"] \/ queries'["badge"] = Refetch(queries["badge"])
    BY <1>0, <1>6 DEF windowFocus
  <2> QED
    BY <1>0, <2>1, <2>2, RestStep DEF ReactionsStep
<1>7. CASE getNoticeCountQuery \/ countArrives
  <2>1. DOMAIN reactions' = DOMAIN reactions /\ UNCHANGED <<arrived, decided, panel, looks, faults>>
    BY <1>7 DEF getNoticeCountQuery, countArrives
  <2>2. \/ queries'["badge"] = Refetch(queries["badge"])
        \/ queries'["badge"] = Applied(Answer(queries["badge"], Served("badge")))
    BY <1>0, <1>7 DEF getNoticeCountQuery, countArrives
  <2> QED
    BY <1>0, <2>1, <2>2, RestStep DEF ReactionsStep
<1>8. ASSUME NEW q \in Mine, getMyNoticesQuery(q) \/ noticesArrive(q) PROVE RestTyped'
  <2>1. DOMAIN reactions' = DOMAIN reactions /\ UNCHANGED <<arrived, decided, panel, looks, faults>>
    BY <1>8 DEF getMyNoticesQuery, noticesArrive, Drawn
  <2>2. queries'["badge"] = queries["badge"]
    BY <1>0, <1>8 DEF getMyNoticesQuery, noticesArrive
  <2> QED
    BY <1>0, <2>1, <2>2, RestStep DEF ReactionsStep
<1>9. ASSUME NEW n \in Notice, noticeArrives(n) \/ otherDecides(n) PROVE RestTyped'
  <2>1. reactions' = reactions /\ UNCHANGED <<queries, panel, looks, faults>> /\ decided' \subseteq arrived'
    BY <1>0, <1>9 DEF noticeArrives, otherDecides
  <2> QED
    BY <1>0, <2>1, RestStep DEF ReactionsStep
<1>10. ASSUME NEW kind, NEW from, NEW n, NEW type, NEW value, Reacts(kind, from, n, type, value) PROVE RestTyped'
  <2>1. /\ Len(reactions) < MaxReactions /\ \E r : reactions' = Append(reactions, r)
        /\ UNCHANGED <<arrived, decided, queries, panel, looks, faults>>
    BY <1>10 DEF Reacts
  <2> QED
    BY <1>0, <2>1, RestStep DEF ReactionsStep
<1>11. CASE \/ markAll
            \/ \E n \in Notice : NotificationItem(n) \/ dismissal(n) \/ NoticeBanner(n)
            \/ \E type \in EmailType : handleChange(type)
  BY <1>10, <1>11 DEF markAll, NotificationItem, dismissal, NoticeBanner, handleChange
<1> QED
  BY <1>1, <1>2, <1>3, <1>4, <1>5, <1>6, <1>7, <1>8, <1>9, <1>11 DEF NotificationsNext, ReactionStep

\* The variables of the frame are of their types, whichever part of it is at work: the session
\* and the router, the notifications with the count of the badge, and the toasts.
THEOREM FrameTypeCorrect == Spec => []TypeOK
<1>1. Init => RestTyped
  <2> SUFFICES ASSUME Init PROVE RestTyped
    OBVIOUS
  <2>1. decided = {} /\ reactions = <<>> /\ panel = FALSE /\ looks = 0 /\ faults = 0
    BY DEF Init, NotificationsInit
  <2>2. queries["badge"] = NewQuery(0) \/ queries["badge"] = Refetch(NewQuery(0))
    BY DEF Init, NotificationsInit, AllQueries
  <2>3. 0 \in 0..Cardinality(Notice)
    BY NotificationsAssumption, FS_CardinalityType
  <2>4. NewQuery(0) \in QueryOf(0..Cardinality(Notice))
    BY <2>3 DEF NewQuery, QueryOf
  <2>5. queries["badge"] \in QueryOf(0..Cardinality(Notice))
    BY <2>2, <2>3, <2>4, QueryTyped
  <2>6. Len(reactions) <= MaxReactions /\ 0 \in 0..MaxLooks /\ 0 \in 0..MaxFaults
    BY <2>1, NotificationsAssumption
  <2> QED
    BY <2>1, <2>5, <2>6 DEF RestTyped
<1>2. NoticesInv /\ RestTyped /\ [Next]_vars => RestTyped'
  <2> SUFFICES ASSUME NoticesInv, RestTyped, [Next]_vars PROVE RestTyped'
    OBVIOUS
  <2>1. CASE NotificationsNext
    BY <2>1, RestStepOK
  <2>2. CASE UNCHANGED notificationsVars
    BY <2>2 DEF notificationsVars, RestTyped
  <2> QED
    BY <2>1, <2>2 DEF Next, vars
<1>3. NoticesInv /\ RestTyped => NotificationsTypeOK
  <2> SUFFICES ASSUME NoticesInv, RestTyped PROVE NotificationsTypeOK
    OBVIOUS
  <2>1. NoticesTyped
    BY DEF NoticesInv
  <2>2. queries["bell"] \in QueryOf(SUBSET Notice) /\ queries["banner"] \in QueryOf(SUBSET Notice)
    BY <2>1 DEF NoticesTyped, QueriesOK, QueryOf, Lists
  <2>3. \A i \in DOMAIN reactions : reactions[i] \in Reaction
    BY <2>1, ElementOfSeq, LenProperties DEF NoticesTyped
  <2>4. {unread, decided} \subseteq SUBSET arrived
    BY <2>1 DEF NoticesTyped, RestTyped
  <2>5. {panel, overlapped, crashed} \subseteq BOOLEAN
    BY <2>1 DEF NoticesTyped, RestTyped
  <2> QED
    BY <2>1, <2>2, <2>3, <2>4, <2>5 DEF NotificationsTypeOK, NoticesTyped, QueriesOK, RestTyped
<1>4. Spec => []PartTyped
  <2>1. Init => PartTyped
    BY DEF Init, PartTyped
  <2>2. PartTyped /\ [Next]_vars => PartTyped'
    BY DEF Next, vars, PartTyped
  <2> QED
    BY <2>1, <2>2, PTL DEF Spec
<1>5. ToastsInv => ToastsTypeOK
  BY DEF ToastsInv
<1>6. Spec => []RestTyped
  BY <1>1, <1>2, NoticesInvariant, PTL DEF Spec
<1>7. PartTyped /\ SessionTypeOK /\ NotificationsTypeOK /\ ToastsTypeOK => TypeOK
  BY DEF TypeOK, PartTyped
<1> QED
  BY <1>3, <1>4, <1>5, <1>6, <1>7, SessionTypeCorrect, NoticesInvariant, ToastsInvariant, PTL
================================================================================
