----------------------------- MODULE MCProjects -----------------------------
(* Instances of Projects for TLC.                                          *)
EXTENDS Projects

CONSTANTS u1, u2, t1

(* Requests on a shared project, one at a time, one of which, or whose     *)
(* notice, may be lost; requests on u1's personal project, two at a time,  *)
(* one of which may be lost.                                               *)
SharedAndPersonal ==
  {[owner |-> [p \in Project |-> None], users |-> User, tasks |-> {t1},
    changes |-> 5, lost |-> 1],
   [owner |-> [p \in Project |-> u1], users |-> {u1, u2}, tasks |-> Task,
    changes |-> 4, lost |-> 1]}
=============================================================================
