------------------------------- MODULE Toasts -------------------------------
(***************************************************************************)
(* The toasts of the dashboard, in which operations tell their outcome.    *)
(* They are kept outside of React, newest first and no more than           *)
(* TOAST_LIMIT; one that is dismissed is drawn closing until a timer       *)
(* removes it.  Timers outlive the toasts that they are for.               *)
(***************************************************************************)
EXTENDS Integers, Sequences

CONSTANTS
    TOAST_LIMIT,  \* how many toasts are kept
    MaxToasts     \* how many operations tell something

ASSUME ToastsAssumption == TOAST_LIMIT \in Nat \ {0} /\ MaxToasts \in Nat

VARIABLES
    toasts,         \* memoryState.toasts
    toastTimeouts,  \* the ids whose removal a timer is set for
    lastId          \* the id that was given last

toastsVars == <<toasts, toastTimeouts, lastId>>

-----------------------------------------------------------------------------
ToastId == 1..MaxToasts
Kept(ts) == {ts[k].id : k \in DOMAIN ts}

ToastsTypeOK ==
    /\ toasts \in Seq([id : ToastId, open : BOOLEAN]) /\ Len(toasts) <= TOAST_LIMIT
    /\ toastTimeouts \subseteq ToastId
    /\ lastId \in 0..MaxToasts

ToastsInit == toasts = <<>> /\ toastTimeouts = {} /\ lastId = 0

\* ADD_TOAST: the oldest makes way, whether it is open or not
toast ==
    LET added == <<[id |-> lastId + 1, open |-> TRUE]>> \o toasts
    IN  /\ lastId < MaxToasts
        /\ lastId' = lastId + 1
        /\ toasts' = SubSeq(added, 1, IF Len(added) < TOAST_LIMIT THEN Len(added) ELSE TOAST_LIMIT)
        /\ UNCHANGED toastTimeouts

\* DISMISS_TOAST, of a toast that is drawn: its X, or its own time is over
dismiss(id) ==
    /\ \E k \in DOMAIN toasts : toasts[k] = [id |-> id, open |-> TRUE]
    /\ toasts' = [k \in DOMAIN toasts |-> [toasts[k] EXCEPT !.open = @ /\ toasts[k].id # id]]
    /\ toastTimeouts' = toastTimeouts \cup {id} \* addToRemoveQueue
    /\ UNCHANGED lastId

\* Mutant: the timer removes what is there
removesAll(id) ==
    /\ id \in toastTimeouts
    /\ toastTimeouts' = toastTimeouts \ {id}
    /\ toasts' = <<>>
    /\ UNCHANGED lastId

\* The toasts but for the one with an id, which is no other's
Without(ts, id) ==
    IF id \in Kept(ts)
    THEN LET k == CHOOSE k \in DOMAIN ts : ts[k].id = id
         IN  SubSeq(ts, 1, k - 1) \o SubSeq(ts, k + 1, Len(ts))
    ELSE ts

\* REMOVE_TOAST, TOAST_REMOVE_DELAY after a toast was dismissed, though it may have made
\* way for another since
addToRemoveQueue(id) ==
    /\ id \in toastTimeouts
    /\ toastTimeouts' = toastTimeouts \ {id}
    /\ toasts' = Without(toasts, id)
    /\ UNCHANGED lastId

ToastsNext == toast \/ \E id \in ToastId : dismiss(id) \/ addToRemoveQueue(id)

-----------------------------------------------------------------------------
\* A toast that is open stays until it is dismissed or a newer one takes its place: no
\* timer that was set for an earlier toast takes it away.
OpenToastStays ==
    [][\A k \in DOMAIN toasts :
          toasts[k].open => toasts[k].id \in Kept(toasts') \/ lastId' # lastId]_toastsVars

=============================================================================
