------------------------------ MODULE Ledger ------------------------------
(***************************************************************************)
(* What the billing of QPU seconds promises: a project has a balance, each *)
(* job is paid for at most once, by one project and in full, an approved   *)
(* request adds seconds, and a deleted project has no balance.             *)
(***************************************************************************)
EXTENDS Integers

CONSTANTS Job, Project, None, Usage, InitialSeconds, TopUpSeconds

VARIABLES
  balance,   \* [Project -> Int, or None once deleted]
  billed     \* the jobs paid for

Init == balance = InitialSeconds /\ billed = {}

Charge(j, p) ==
  /\ j \notin billed
  /\ balance[p] # None
  /\ balance' = [balance EXCEPT ![p] = @ - Usage[j]]
  /\ billed' = billed \cup {j}

Credit(p) ==
  /\ balance[p] # None
  /\ balance' = [balance EXCEPT ![p] = @ + TopUpSeconds]
  /\ UNCHANGED billed

Close(p) ==
  /\ balance[p] # None
  /\ balance' = [balance EXCEPT ![p] = None]
  /\ UNCHANGED billed

Next ==
  \/ \E j \in Job, p \in Project : Charge(j, p)
  \/ \E p \in Project : Credit(p) \/ Close(p)

Spec == Init /\ [][Next]_<<balance, billed>>
===========================================================================
