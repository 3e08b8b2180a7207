---------------------------- MODULE NoticeEmails ----------------------------
(***************************************************************************)
(* The emails of notices.  Each process of MSS has an emailer, which in    *)
(* rounds finds the notices whose emails are pending, claims them against  *)
(* the other processes, sends them over SMTP and stores the outcomes.      *)
(***************************************************************************)
EXTENDS Naturals, FiniteSets

CONSTANTS
  Notice,        \* notices that are to be emailed
  Process,       \* processes of MSS with an emailer
  Unreachable,   \* the notices of users who are gone
  BatchSize,     \* batch_size: the most notices of a round
  MaxAttempts,   \* notices.email_retry_limit
  MaxCrashes,    \* bound: processes that stop in the middle of a round
  MaxErrors,     \* bound: database calls that fail
  MaxSlow        \* bound: claims that lapse while their process still sends

ASSUME EmailsAssumption ==
  /\ IsFiniteSet(Notice)
  /\ Unreachable \subseteq Notice
  /\ {BatchSize, MaxAttempts} \subseteq Nat \ {0}
  /\ {MaxCrashes, MaxErrors, MaxSlow} \subseteq Nat

VARIABLES
  status,     \* email_status of each notice, or "gone" once it expires
  attempts,   \* email_attempts of each notice
  lapsed,     \* the claims older than _CLAIM_LIFESPAN
  emailer,    \* what each process's emailer is doing
  sends,      \* how often the email of each notice was sent
  disowned,   \* the notices an email of which was sent although its result is an error
  crashes, errors, slow

emailsVars ==
  <<status, attempts, lapsed, emailer, sends, disowned, crashes, errors, slow>>

EmailStatus == {"pending", "sending", "sent", "failed"}

(* The emailer's place in its round: the notices it found, with the        *)
(* attempts it read; those it claimed, with whether they can be retried;   *)
(* and the outcomes to be stored, as sets of notices by status.            *)
EmailerState ==
  [pc : {"find", "claim", "details", "send", "report"},
   claimed : SUBSET (Notice \X BOOLEAN),
   results : SUBSET (Notice \X {"sent", "failed", "pending"})]

Asleep == [pc |-> "find", found |-> {}, claimed |-> {}, results |-> {}]

EmailsTypeOK ==
  /\ status \in [Notice -> EmailStatus \cup {"gone"}]
  /\ attempts \in [Notice -> Nat]
  /\ lapsed \in SUBSET {n \in Notice : status[n] = "sending"}
  /\ \A p \in Process :
       /\ [pc |-> emailer[p].pc, claimed |-> emailer[p].claimed,
           results |-> emailer[p].results] \in EmailerState
       /\ \A x \in emailer[p].found : x[1] \in Notice /\ x[2] \in Nat
       /\ Cardinality(emailer[p].found) + Cardinality(emailer[p].claimed)
            + Cardinality(emailer[p].results) <= BatchSize
  /\ sends \in [Notice -> Nat] /\ disowned \in SUBSET Notice
  /\ crashes \in Nat /\ errors \in Nat /\ slow \in Nat

EmailsInit ==
  /\ status = [n \in Notice |-> "pending"]
  /\ attempts = [n \in Notice |-> 0]
  /\ lapsed = {}
  /\ emailer = [p \in Process |-> Asleep]
  /\ sends = [n \in Notice |-> 0] /\ disowned = {}
  /\ crashes = 0 /\ errors = 0 /\ slow = 0

(* The round of p goes on to pc once `left` is empty.                      *)
Advance(p, state, left, pc) ==
  emailer' = [emailer EXCEPT ![p] =
    IF left = {} THEN [state EXCEPT !.pc = pc] ELSE state]

---------------------------------------------------------------------------
(* Mutant: claims that lapsed are not looked for.                          *)
IsPending_Fresh(n) == status[n] = "pending"

(* Pending, or claimed by a process that stopped.                          *)
IsPending(n) == status[n] = "pending" \/ n \in lapsed

(* A round takes up to a batch of them.                                    *)
_find_notices_pending_email(p) ==
  /\ emailer[p].pc = "find"
  /\ \E found \in SUBSET {n \in Notice : IsPending(n)} :
       /\ found # {}
       /\ Cardinality(found) <= BatchSize
       /\ emailer' = [emailer EXCEPT ![p].pc = "claim",
                        ![p].found = {<<n, attempts[n]>> : n \in found}]
  /\ UNCHANGED <<status, attempts, lapsed, sends, disowned, crashes, errors, slow>>

(* Mutant: the last attempt can be retried.                                *)
can_retry_Once(n) == attempts[n] + 1 <= MaxAttempts

(* Whether a failure is to be retried; the claim has counted this attempt. *)
can_retry(n) == attempts[n] + 1 < MaxAttempts

(* Mutant: the notice is claimed whatever its attempts are by now.         *)
IsClaimable_Any(x) == status[x[1]] # "gone"

(* A notice is claimed if nobody has counted an attempt meanwhile.         *)
IsClaimable(x) == status[x[1]] # "gone" /\ attempts[x[1]] = x[2]

claim_pending_emails(p) ==
  /\ emailer[p].pc = "claim"
  /\ \E x \in emailer[p].found :
       LET n == x[1]
           left == emailer[p].found \ {x} IN
       IF IsClaimable(x)
       THEN /\ attempts' = [attempts EXCEPT ![n] = @ + 1]
            /\ status' = [status EXCEPT ![n] = "sending"]
            /\ lapsed' = lapsed \ {n}
            /\ Advance(p, [emailer[p] EXCEPT
                 !.found = left,
                 !.claimed = @ \cup {<<n, can_retry(n)>>}], left, "details")
       ELSE /\ Advance(p, [emailer[p] EXCEPT !.found = left], left, "details")
            /\ UNCHANGED <<status, attempts, lapsed>>
  /\ UNCHANGED <<sends, disowned, crashes, errors, slow>>

(* The status and the age of the notices that are still there.             *)
SetStatus(notices, s) ==
  /\ status' = [n \in Notice |->
       IF n \in notices /\ status[n] # "gone" THEN s ELSE status[n]]
  /\ lapsed' = lapsed \ notices

(* An outcome is stored; an error is logged and the outcome forgotten.     *)
_set_email_status(notices, s) ==
  \/ SetStatus(notices, s) /\ UNCHANGED errors
  \/ /\ errors < MaxErrors
     /\ errors' = errors + 1
     /\ UNCHANGED <<status, lapsed>>

(* The notices of users who are gone are marked failed.                    *)
_to_email_details(p) ==
  /\ emailer[p].pc = "details"
  /\ LET rest == {x \in emailer[p].claimed : x[1] \notin Unreachable} IN
     /\ IF rest = emailer[p].claimed THEN UNCHANGED <<status, lapsed, errors>>
        ELSE _set_email_status({x[1] : x \in emailer[p].claimed \ rest}, "failed")
     /\ emailer' = [emailer EXCEPT ![p] =
          IF rest = {} THEN Asleep ELSE [@ EXCEPT !.pc = "send", !.claimed = rest]]
  /\ UNCHANGED <<attempts, sends, disowned, crashes, slow>>

(* Each email is sent, or not; and its result is an error if it was not,   *)
(* if the server's answer was lost, or if the connection failed when it    *)
(* was closed, which gives that error to the whole batch.                  *)
_send_batch(p) ==
  /\ emailer[p].pc = "send"
  /\ \E x \in emailer[p].claimed, isSent, isError \in BOOLEAN :
       LET left == emailer[p].claimed \ {x}
           result == IF ~isError THEN "sent" ELSE IF x[2] THEN "pending" ELSE "failed" IN
       /\ isSent \/ isError
       /\ sends' = IF isSent THEN [sends EXCEPT ![x[1]] = @ + 1] ELSE sends
       /\ disowned' = IF isSent /\ isError THEN disowned \cup {x[1]} ELSE disowned
       /\ Advance(p, [emailer[p] EXCEPT
            !.claimed = left, !.results = @ \cup {<<x[1], result>>}], left, "report")
  /\ UNCHANGED <<status, attempts, lapsed, crashes, errors, slow>>

(* The outcomes are stored, those of one kind at a time.                   *)
process_email_batch_results(p) ==
  /\ emailer[p].pc = "report"
  /\ \E s \in {x[2] : x \in emailer[p].results} :
       LET done == {x \in emailer[p].results : x[2] = s}
           left == emailer[p].results \ done IN
       /\ _set_email_status({x[1] : x \in done}, s)
       /\ Advance(p, [emailer[p] EXCEPT !.results = left], left, "find")
  /\ UNCHANGED <<attempts, sends, disowned, crashes, slow>>

---------------------------------------------------------------------------
(* A claim lapses: that of a process that stopped, or that is slow.        *)
Held(n) ==
  \E p \in Process :
    \/ \E x \in emailer[p].claimed : x[1] = n
    \/ \E x \in emailer[p].results : x[1] = n

lapse(n) ==
  /\ status[n] = "sending"
  /\ n \notin lapsed
  /\ Held(n) => slow < MaxSlow
  /\ slow' = IF Held(n) THEN slow + 1 ELSE slow
  /\ lapsed' = lapsed \cup {n}
  /\ UNCHANGED <<status, attempts, emailer, sends, disowned, crashes, errors>>

(* A notice expires.                                                       *)
expire(n) ==
  /\ status[n] # "gone"
  /\ status' = [status EXCEPT ![n] = "gone"]
  /\ lapsed' = lapsed \ {n}
  /\ UNCHANGED <<attempts, emailer, sends, disowned, crashes, errors, slow>>

(* A process stops in the middle of a round, and starts again.             *)
crash(p) ==
  /\ crashes < MaxCrashes
  /\ emailer[p] # Asleep
  /\ emailer' = [emailer EXCEPT ![p] = Asleep]
  /\ crashes' = crashes + 1
  /\ UNCHANGED <<status, attempts, lapsed, sends, disowned, errors, slow>>

(* A database call fails while the batch is put together: it is dropped.   *)
drop_batch(p) ==
  /\ errors < MaxErrors
  /\ emailer[p].pc \in {"claim", "details"}
  /\ emailer' = [emailer EXCEPT ![p] = Asleep]
  /\ errors' = errors + 1
  /\ UNCHANGED <<status, attempts, lapsed, sends, disowned, crashes, slow>>

---------------------------------------------------------------------------
EmailerStep(p) ==
  \/ _find_notices_pending_email(p)
  \/ claim_pending_emails(p)
  \/ _to_email_details(p)
  \/ _send_batch(p)
  \/ process_email_batch_results(p)

EmailsNext ==
  \/ \E p \in Process : EmailerStep(p) \/ crash(p) \/ drop_batch(p)
  \/ \E n \in Notice : lapse(n)
  \/ \E n \in Notice : expire(n)

EmailsSpec == EmailsInit /\ [][EmailsNext]_emailsVars

(* The emailers go on with their rounds, and time passes.                  *)
EmailsFairSpec ==
  /\ EmailsSpec
  /\ \A p \in Process : WF_emailsVars(EmailerStep(p))
  /\ \A n \in Notice : WF_emailsVars(lapse(n))

---------------------------------------------------------------------------
(* Properties.                                                             *)

(* claim_pending_emails claims for one process, "leaving any another       *)
(* claims first": though the emailers of all processes look for the same   *)
(* notices, an email is sent once, and one sent is not sent again, while   *)
(* no process stops, no database call fails and none takes longer than a   *)
(* claim lasts; unless the SMTP server accepted that very email and its    *)
(* result was an error.                                                    *)
SentOnce ==
  crashes = 0 /\ errors = 0 /\ slow = 0 =>
    \A n \in Notice \ disowned :
      /\ sends[n] <= 1
      /\ sends[n] = 1 => status[n] \notin {"pending", "failed"}

(* get_pending_email_batches: "max_attempts: the maximum number of         *)
(* attempts of sending each email".  Each failure of a process or of the   *)
(* database, and each claim that lapses early, costs at most one more.     *)
AttemptsBounded ==
  \A n \in Notice : attempts[n] <= MaxAttempts + crashes + errors + slow

(* Every email is settled: it is sent, or given up, or its notice expires, *)
(* though processes stop while they hold claims.                           *)
EmailsSettle ==
  \A n \in Notice : []<>(status[n] \in {"sent", "failed", "gone"})
=============================================================================
