------------------------------ MODULE MCJobs ------------------------------
(* Instances of Jobs for TLC.                                              *)
EXTENDS Jobs

CONSTANTS j1, j2, p1, s1, s2

(* Each job takes one second.                                              *)
UsageOne == [j \in Job |-> 1]
SecondsOne == [p \in Project |-> 1]

(* Every job's events come over s1.                                        *)
RouteOne == [j \in Job |-> {s1}]
(* Each job has a socket of its own.                                       *)
RouteOwn == [j \in Job |-> IF j = j1 THEN {s1} ELSE {s2}]
(* A job's events may come over any socket.                                *)
RouteAny == [j \in Job |-> Socket]
===========================================================================
