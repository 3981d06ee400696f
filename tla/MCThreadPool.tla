---------------------------- MODULE MCThreadPool -----------------------------
(* Instances of ThreadPool for TLC. *)
EXTENDS ThreadPool, TLC

CONSTANTS c1, c2, t1, t2, t3

MCClients == {c1, c2}
OneTask == {t1}
TwoTasks == {t1, t2}
ThreeTasks == {t1, t2, t3}

(* Tasks are interchangeable: no property names one of them. *)
TaskSymmetry == Permutations(Tasks)
=============================================================================
