-------------------------------- MODULE Frame --------------------------------
(***************************************************************************)
(* The frame of the dashboard as a whole: the session and the router, the  *)
(* notifications and the toasts.  They share nothing but the cache that    *)
(* logging out empties, after which the frame is gone, so a behaviour is   *)
(* of one part at work.                                                    *)
(***************************************************************************)
EXTENDS Session, Notifications, Toasts

VARIABLE part  \* the part at work

vars == <<part, sessionVars, notificationsVars, toastsVars>>

-----------------------------------------------------------------------------
\* A type invariant: every variable of the frame is of its type.
TypeOK ==
    /\ part \in {"session", "notifications", "toasts"}
    /\ SessionTypeOK /\ NotificationsTypeOK /\ ToastsTypeOK

\* The parts that are not at work are at rest
Init ==
    /\ part \in {"session", "notifications", "toasts"}
    /\ IF part = "session" THEN SessionInit ELSE HomeIsShown
    /\ NotificationsInit
    /\ part # "notifications" => arrived = {} /\ "banner" \in mounted
    /\ ToastsInit

Next ==
    \/ part = "session" /\ SessionNext /\ UNCHANGED <<part, notificationsVars, toastsVars>>
    \/ part = "notifications" /\ NotificationsNext /\ UNCHANGED <<part, sessionVars, toastsVars>>
    \/ part = "toasts" /\ ToastsNext /\ UNCHANGED <<part, sessionVars, notificationsVars>>

Loads == part = "session" /\ LoaderStep /\ UNCHANGED <<part, notificationsVars, toastsVars>>

\* The requests of loaders are answered or fail; what mutations await may be late for ever
Fairness == WF_vars(Loads)

Spec == Init /\ [][Next]_vars /\ Fairness
=============================================================================
