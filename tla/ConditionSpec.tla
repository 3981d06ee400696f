---------------------------- MODULE ConditionSpec ----------------------------
(***************************************************************************)
(* A condition variable of src/platform/windows/pthread.c with every       *)
(* operation atomic: the abstraction ThreadPool uses.  A signal or a       *)
(* broadcast may come at any time; a broadcast ends when waiters_done says *)
(* that the threads it counted have left.                                  *)
(***************************************************************************)
EXTENDS Condition

CONSTANT Threads
VARIABLE condition

Init == condition = FreshCondition

Enter(t) ==
  /\ t \notin condition.registered
  /\ condition' = Register(condition, t)

Exit(t) ==
  /\ CanLeave(condition, t)
  /\ condition' = Leave(condition, t)

Next ==
  \/ condition' \in {Signal(condition), Broadcast(condition)}
  \/ condition.drained /\ condition' = EndBroadcast(condition)
  \/ \E t \in Threads : Enter(t) \/ Exit(t)

Spec == Init /\ [][Next]_condition
=============================================================================
