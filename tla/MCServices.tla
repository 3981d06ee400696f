----------------------------- MODULE MCServices ------------------------------
(***************************************************************************)
(* Instances for TLC of what threads are made of: the condition variable   *)
(* (CondVar) and the life of a thread (ThreadLifecycle), with the          *)
(* constants of the configuration; a worker that uses its identifier       *)
(* early; FirstUse and Once.  A behaviour chooses one of the five.         *)
(***************************************************************************)
EXTENDS ThreadLifecycle, MCCondVar

CONSTANT Racers

VARIABLES
  chosen,
  eblock, eguard, eobject, ehandle, ereferences, eclaimed, eresult, epc, eknown, ewins, erefused,
  memory, pending, first, section, fpc, built, used,
  state, opc, answer, runs, finished

evars == <<eblock, eguard, eobject, ehandle, ereferences, eclaimed, eresult, epc, eknown, ewins, erefused>>
fvars == <<memory, pending, first, section, fpc, built, used>>
ovars == <<state, opc, answer, runs, finished>>
others == <<evars, fvars, ovars>>
allvars == <<chosen, vars, condvars, others>>

(* The worker detaches itself or hands out its identifier before           *)
(* pthread_create has stored the handle.                                   *)
E == INSTANCE ThreadLifecycle WITH
       Early <- {"tell", "detach"}, block <- eblock, guard <- eguard, object <- eobject,
       handle <- ehandle, references <- ereferences, claimed <- eclaimed, result <- eresult,
       pc <- epc, known <- eknown, wins <- ewins, refused <- erefused

(* Three threads race to use one condition for the first time, x86 and x64 *)
(* stores, and the kernel may refuse a part.                               *)
F == INSTANCE FirstUse WITH
       Threads <- Racers, InOrder <- TRUE, Fallible <- TRUE, pc <- fpc

(* Three callers that may come back; the lock may be refused before and    *)
(* after the routine.                                                      *)
O == INSTANCE Once WITH Threads <- Racers, MayFail <- {"first", "second"}, pc <- opc

ASSUME ServicesAssumption == F!FirstUseAssumption /\ O!OnceAssumption

ServicesInit ==
  /\ chosen \in {"condition", "lifecycle", "early", "first", "once"}
  /\ CondInit /\ Init /\ E!Init /\ F!Init /\ O!Init

Conditions(A) == chosen = "condition" /\ A /\ UNCHANGED <<chosen, vars, others>>
Lifecycle(A) == chosen = "lifecycle" /\ A /\ UNCHANGED <<chosen, condvars, others>>
FirstUses(A) == chosen = "first" /\ A /\ UNCHANGED <<chosen, vars, condvars, evars, ovars>>
Onces(A) == chosen = "once" /\ A /\ UNCHANGED <<chosen, vars, condvars, evars, fvars>>

ServicesNext ==
  \/ Conditions(CondNext)
  \/ Lifecycle(Next)
  \/ chosen = "early" /\ E!Next /\ UNCHANGED <<chosen, vars, condvars, fvars, ovars>>
  \/ FirstUses(F!Next)
  \/ Onces(O!Next)

(* The fairness of the FairSpec of each.                                   *)
ServicesSpec ==
  /\ ServicesInit /\ [][ServicesNext]_allvars
  /\ \A t \in Threads :
       WF_allvars(Conditions(Unlock(t))) /\ SF_allvars(Conditions(CondCall(t)))
  /\ WF_allvars(Lifecycle(Create)) /\ SF_allvars(Lifecycle(EndRoutine)) /\ WF_allvars(Lifecycle(StoreResult))
  /\ \A a \in Actors : WF_allvars(Lifecycle(InCall(a)))
  /\ WF_allvars(FirstUses(F!Flush)) /\ \A t \in Racers : SF_allvars(FirstUses(F!Progress(t)))
  /\ \A t \in Racers : WF_allvars(Onces(O!Progress(t)))

-----------------------------------------------------------------------------
(* What a worker does early puts no claim in danger: one join or detach at *)
(* most succeeds, and a join delivers the worker's value                   *)
(* (src/platform/windows/pthread.c:379-419).                               *)
EarlyClaims == E!OneWinner /\ E!JoinDelivers

(* Concurrent first uses build an object exactly once, nobody enters a     *)
(* section still being built, and once an acquisition has succeeded none   *)
(* depends on the kernel (src/internal/lock.h:29-37).  A pthread_once      *)
(* routine runs once, and nobody is told 0 before it has returned          *)
(* (docs/req-0071-posix-threads.md:13).                                    *)
InitializedOnce ==
  /\ []F!TypeOK /\ [](F!BuiltOnce /\ F!NoEarlyUse) /\ F!CannotFailAfterSuccess
  /\ []O!TypeOK /\ []O!SerializesOne

(* Every first use and every pthread_once returns, unless the lock was     *)
(* refused to the thread that ran the routine; and a thread that is joined *)
(* or detached is freed in the end.                                        *)
CallsEnd == F!FirstUseReturns /\ O!OnceReturns /\ FreedAtLast
=============================================================================
