----------------------------- MODULE MCRequests -----------------------------
(* Instances of Requests for TLC.                                          *)
EXTENDS Requests

CONSTANTS r1, t1

(* Two requests of any kind, served one at a time; and one on a project    *)
(* that stays, two API requests at a time, one of which may be lost.       *)
TwoAndOne ==
  {[kinds |-> RequestType, requests |-> Request, tasks |-> {t1}, updates |-> 3, lost |-> 0],
   [kinds |-> {"create-project", "project-qpu-seconds", "project-access"},
    requests |-> {r1}, tasks |-> Task, updates |-> 2, lost |-> 1]}
=============================================================================
