-------------------------------- MODULE Once ---------------------------------
(***************************************************************************)
(* pthread_once of src/platform/windows/pthread.c (lines 439-465) on one   *)
(* control.  Every stretch under the initialization lock is one action;    *)
(* the routine runs without the lock.  A caller that finds state 1 sleeps  *)
(* and looks again, which changes nothing and is no action.                *)
(***************************************************************************)
EXTENDS Naturals, FiniteSets

CONSTANTS
  Threads,
  MayFail  \* the places where the initialization lock may be refused

OnceAssumption ==
  IsFiniteSet(Threads) /\ MayFail \subseteq {"first", "second"}

VARIABLES
  state,    \* once_control->state: 0 fresh, 1 routine running, 2 done
  pc,       \* "out", "once" in the loop, "routine", "publish"
  answer,   \* what the last call of a thread returned, "none" before
  runs,     \* history: how often the routine was entered
  finished  \* history: how often the routine returned

vars == <<state, pc, answer, runs, finished>>

Init ==
  /\ state = 0
  /\ pc = [t \in Threads |-> "out"]
  /\ answer = [t \in Threads |-> "none"]
  /\ runs = 0 /\ finished = 0

Goto(t, place) == pc' = [pc EXCEPT ![t] = place]

Returns(t, status) ==
  /\ Goto(t, "out")
  /\ answer' = [answer EXCEPT ![t] = status]

(* The routine does not call pthread_once on its own control. *)
Call(t) ==
  /\ pc[t] = "out"
  /\ Goto(t, "once")
  /\ answer' = [answer EXCEPT ![t] = "none"]
  /\ UNCHANGED <<state, runs, finished>>

(* Line 447: no lock. *)
LockFails(t) ==
  /\ pc[t] = "once" /\ "first" \in MayFail
  /\ Returns(t, "EAGAIN")
  /\ UNCHANGED <<state, runs, finished>>

(* Mutation of AlreadyDone: the caller leaves the loop while the routine
   runs, and stays in it afterwards. *)
AlreadyBegunOnly(t) ==
  /\ pc[t] = "once" /\ state = 1
  /\ Returns(t, "0")
  /\ UNCHANGED <<state, runs, finished>>

(* Lines 448-451. *)
AlreadyDone(t) ==
  /\ pc[t] = "once" /\ state = 2
  /\ Returns(t, "0")
  /\ UNCHANGED <<state, runs, finished>>

(* Lines 452-455. *)
Begin(t) ==
  /\ pc[t] = "once" /\ state = 0
  /\ state' = 1
  /\ runs' = runs + 1
  /\ Goto(t, "routine")
  /\ UNCHANGED <<answer, finished>>

RoutineReturns(t) ==
  /\ pc[t] = "routine"
  /\ finished' = finished + 1
  /\ Goto(t, "publish")
  /\ UNCHANGED <<state, answer, runs>>

(* Lines 458-460. *)
Publish(t) ==
  /\ pc[t] = "publish"
  /\ state' = 2
  /\ Returns(t, "0")
  /\ UNCHANGED <<runs, finished>>

(* Line 457: the lock is refused, and the state stays 1. *)
PublishFails(t) ==
  /\ pc[t] = "publish" /\ "second" \in MayFail
  /\ Returns(t, "EAGAIN")
  /\ UNCHANGED <<state, runs, finished>>

-----------------------------------------------------------------------------
Progress(t) ==
  \/ AlreadyDone(t) \/ Begin(t) \/ RoutineReturns(t) \/ Publish(t)

Next ==
  \E t \in Threads : Call(t) \/ Progress(t) \/ LockFails(t) \/ PublishFails(t)

Spec == Init /\ [][Next]_vars

(* Every thread runs, and the routine returns; nobody has to call, and the
   lock need not be refused. *)
FairSpec == Spec /\ \A t \in Threads : WF_vars(Progress(t))

-----------------------------------------------------------------------------
(* Type invariant. *)
TypeOK ==
  /\ state \in 0..2
  /\ pc \in [Threads -> {"out", "once", "routine", "publish"}]
  /\ answer \in [Threads -> {"none", "0", "EAGAIN"}]
  /\ runs \in 0..1 /\ finished \in 0..1

(* The routine runs once, and nobody is told 0 before it has returned
   (docs/req-0071-posix-threads.md:13). *)
SerializesOne ==
  /\ runs <= 1
  /\ \A t \in Threads : answer[t] = "0" => finished = 1

(* The routine is over, and the lock was refused before state 2 could be
   written. *)
Spoiled ==
  /\ state = 1 /\ finished = 1
  /\ \A t \in Threads : pc[t] \notin {"routine", "publish"}

(* Every call returns, whoever runs the routine, whichever threads come while
   it runs and whoever is refused the lock before it, unless the lock was
   refused to the thread that ran the routine (line 457). *)
OnceReturns ==
  \A t \in Threads : pc[t] = "once" ~> pc[t] = "out" \/ Spoiled
=============================================================================
