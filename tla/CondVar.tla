------------------------------- MODULE CondVar -------------------------------
(***************************************************************************)
(* pthread_cond_wait, pthread_cond_signal and pthread_cond_broadcast of    *)
(* src/platform/windows/pthread.c (lines 264-335): one condition variable, *)
(* the mutex its waiters hold, and threads that use them.                  *)
(*                                                                         *)
(* A stretch under the condition's critical section is one action, since   *)
(* nothing in it blocks; every wait on a kernel object, every call made    *)
(* outside the section and every acquisition of the mutex is an action of  *)
(* its own.  The semaphore counts released tokens, the auto-reset event    *)
(* done tells a broadcaster that its last waiter has left.                 *)
(*                                                                         *)
(* calls and awaited are history: how many calls a thread has made (at     *)
(* most MaxCalls), and which of the threads a signal or broadcast found    *)
(* registered have not left the condition yet.                             *)
(***************************************************************************)
EXTENDS Condition

CONSTANTS
  Threads,
  May,       \* May[t]: the operations t calls, of {"wait", "signal", "broadcast"}
  Unlocked,  \* the operations callers may use without holding the mutex
  MaxCalls,  \* bound on the calls of one thread
  None       \* no thread

Operations == {"wait", "signal", "broadcast"}

ASSUME CondVarAssumption ==
  /\ IsFiniteSet(Threads) /\ None \notin Threads
  /\ May \in [Threads -> SUBSET Operations]
  /\ Unlocked \subseteq {"signal", "broadcast"}
  /\ MaxCalls \in Nat
  /\ SemMax \in Nat \ {0}

VARIABLES
  waiters, generation, broadcasting, remaining,  \* fields of pthread_cond_t
  sem,          \* the count of the semaphore
  done,         \* whether waiters_done is set
  mutex,        \* the holder of the mutex, or None
  at,           \* where each thread is
  seen,         \* seen[t]: the local variable generation of t's wait
  calls, awaited

condvars == <<waiters, generation, broadcasting, remaining, sem, done, mutex, at,
          seen, calls, awaited>>
fields == <<waiters, generation, broadcasting, remaining>>

CondPlaces == {"user", "registered", "blocked", "check", "notify", "relock",
           "post", "await", "clear"}

Move(t, place) == at' = [at EXCEPT ![t] = place]

(* Threads between "++waiters" and "--waiters". *)
Registered == {t \in Threads : at[t] \in {"registered", "blocked", "check"}}

CondInit ==
  /\ waiters = 0 /\ generation = 0 /\ broadcasting = FALSE /\ remaining = 0
  /\ sem = 0 /\ done = FALSE
  /\ mutex = None
  /\ at = [t \in Threads |-> "user"]
  /\ seen = [t \in Threads |-> 0]
  /\ calls = [t \in Threads |-> 0]
  /\ awaited = [t \in Threads |-> {}]

(* A thread calls op: wait only with the mutex, the others with it unless
   Unlocked says otherwise. *)
Calls(t, op) ==
  /\ at[t] = "user" /\ op \in May[t]
  /\ calls[t] < MaxCalls
  /\ mutex = t \/ op \in Unlocked
  /\ calls' = [calls EXCEPT ![t] = @ + 1]

-----------------------------------------------------------------------------
(* pthread_mutex_lock and pthread_mutex_unlock in the code of the caller. *)
Lock(t) ==
  /\ at[t] = "user" /\ mutex = None
  /\ calls[t] < MaxCalls
  /\ mutex' = t
  /\ UNCHANGED <<fields, sem, done, at, seen, calls, awaited>>

Unlock(t) ==
  /\ at[t] = "user" /\ mutex = t
  /\ mutex' = None
  /\ UNCHANGED <<fields, sem, done, at, seen, calls, awaited>>

-----------------------------------------------------------------------------
(* pthread_cond_wait. *)

(* Lines 272-275. *)
WaitRegister(t) ==
  /\ Calls(t, "wait")
  /\ waiters' = waiters + 1
  /\ seen' = [seen EXCEPT ![t] = generation]
  /\ Move(t, "registered")
  /\ UNCHANGED <<generation, broadcasting, remaining, sem, done, mutex,
                 awaited>>

(* Line 276. *)
LeaveMutex(t) ==
  /\ at[t] = "registered"
  /\ mutex' = None
  /\ Move(t, "blocked")
  /\ UNCHANGED <<fields, sem, done, seen, calls, awaited>>

(* Lines 278-279. *)
TakeToken(t) ==
  /\ at[t] = "blocked" /\ sem > 0
  /\ sem' = sem - 1
  /\ Move(t, "check")
  /\ UNCHANGED <<fields, done, mutex, seen, calls, awaited>>

(* Mutation of PutBack: the token is kept. *)
Keep == sem

(* Lines 280-284: the token was meant for an earlier waiter and goes back;
   a full semaphore refuses it. *)
PutBack == IF sem < SemMax THEN sem + 1 ELSE sem

ReturnToken(t) ==
  /\ at[t] = "check" /\ seen[t] = generation
  /\ sem' = PutBack
  /\ Move(t, "blocked")
  /\ UNCHANGED <<fields, done, mutex, seen, calls, awaited>>

(* Mutation of LeaveCondition: the countdown is tested before it goes down. *)
LeaveConditionLate(t) ==
  /\ at[t] = "check" /\ seen[t] # generation
  /\ waiters' = waiters - 1
  /\ remaining' = IF broadcasting THEN remaining - 1 ELSE remaining
  /\ Move(t, IF broadcasting /\ remaining = 0 THEN "notify" ELSE "relock")
  /\ awaited' = [u \in Threads |-> awaited[u] \ {t}]
  /\ UNCHANGED <<generation, broadcasting, sem, done, mutex, seen, calls>>

(* Lines 281 and 286-289. *)
LeaveCondition(t) ==
  /\ at[t] = "check" /\ seen[t] # generation
  /\ waiters' = waiters - 1
  /\ remaining' = IF broadcasting THEN remaining - 1 ELSE remaining
  /\ Move(t, IF broadcasting /\ remaining' = 0 THEN "notify" ELSE "relock")
  /\ awaited' = [u \in Threads |-> awaited[u] \ {t}]
  /\ UNCHANGED <<generation, broadcasting, sem, done, mutex, seen, calls>>

(* Line 290. *)
Notify(t) ==
  /\ at[t] = "notify"
  /\ done' = TRUE
  /\ Move(t, "relock")
  /\ UNCHANGED <<fields, sem, mutex, seen, calls, awaited>>

(* Line 291. *)
Relock(t) ==
  /\ at[t] = "relock" /\ mutex = None
  /\ mutex' = t
  /\ Move(t, "user")
  /\ UNCHANGED <<fields, sem, done, seen, calls, awaited>>

-----------------------------------------------------------------------------
(* pthread_cond_signal, lines 300-303. *)
Signals(t) ==
  /\ Calls(t, "signal")
  /\ IF waiters > 0
       THEN /\ generation' = generation + 1
            /\ awaited' = [awaited EXCEPT ![t] = Registered]
            /\ Move(t, "post")
       ELSE UNCHANGED <<generation, awaited, at>>
  /\ UNCHANGED <<waiters, broadcasting, remaining, sem, done, mutex, seen>>

(* Lines 304-305, outside the section. *)
Post(t) ==
  /\ at[t] = "post"
  /\ sem' = PutBack
  /\ Move(t, "user")
  /\ UNCHANGED <<fields, done, mutex, seen, calls, awaited>>

-----------------------------------------------------------------------------
(* pthread_cond_broadcast, lines 314-328. *)
Broadcasts(t) ==
  /\ Calls(t, "broadcast")
  /\ IF waiters = 0
       THEN UNCHANGED <<fields, sem, at, awaited>>
       ELSE /\ remaining' = waiters
            /\ generation' = generation + 1
            /\ broadcasting' = (sem + waiters <= SemMax)
            /\ sem' = IF broadcasting' THEN sem + waiters ELSE sem
            /\ awaited' = [awaited EXCEPT ![t] = Registered]
            /\ Move(t, IF broadcasting' THEN "await" ELSE "user")
            /\ UNCHANGED waiters
  /\ UNCHANGED <<done, mutex, seen>>

(* Mutation of AwaitDone: a manual-reset event. *)
AwaitStillSet(t) ==
  /\ at[t] = "await" /\ done
  /\ Move(t, "clear")
  /\ UNCHANGED <<fields, sem, done, mutex, seen, calls, awaited>>

(* Lines 329-330: the auto-reset event lets one broadcaster through. *)
AwaitDone(t) ==
  /\ at[t] = "await" /\ done
  /\ done' = FALSE
  /\ Move(t, "clear")
  /\ UNCHANGED <<fields, sem, mutex, seen, calls, awaited>>

(* Lines 331-333. *)
Clear(t) ==
  /\ at[t] = "clear"
  /\ broadcasting' = FALSE
  /\ Move(t, "user")
  /\ UNCHANGED <<waiters, generation, remaining, sem, done, mutex, seen,
                 calls, awaited>>

-----------------------------------------------------------------------------
(* What t does inside a call. *)
CondCall(t) ==
  \/ LeaveMutex(t) \/ TakeToken(t) \/ ReturnToken(t) \/ LeaveCondition(t)
  \/ Notify(t) \/ Relock(t) \/ Post(t) \/ AwaitDone(t) \/ Clear(t)

CondStep(t) ==
  \/ Lock(t) \/ Unlock(t)
  \/ WaitRegister(t) \/ Signals(t) \/ Broadcasts(t)
  \/ CondCall(t)

CondNext == \E t \in Threads : CondStep(t)

CondSpec == CondInit /\ [][CondNext]_condvars

(* Windows serves the waiters of a semaphore and of a critical section in
   turn, so a call that can go on again and again does; a caller that holds
   the mutex and calls nothing unlocks it. *)
CondFairSpec ==
  CondSpec /\ \A t \in Threads : WF_condvars(Unlock(t)) /\ SF_condvars(CondCall(t))

-----------------------------------------------------------------------------
(* The condition as its callers see it. *)
Holders(place) == {t \in Threads : at[t] = place}

condition ==
  [registered |-> Registered,
   eligible |-> {t \in Registered : seen[t] # generation},
   tokens |-> sem + Cardinality(Holders("check") \union Holders("post")),
   remaining |-> remaining,
   broadcasting |-> broadcasting,
   drained |-> done \/ Holders("notify") \union Holders("clear") # {}]

Atomic == INSTANCE ConditionSpec WITH condition <- condition

(* Generation counter, semaphore and event together implement the atomic
   condition ThreadPool is built on: a token in the hands of a waiter that
   must return it, or of a signaller that has not posted it yet, is never
   lost and never counted twice. *)
ImplementsCondition == Atomic!Spec

(* A broadcast returns only when every thread it found registered has left
   the condition (docs/req-0071-posix-threads.md:8), however many stale
   tokens are around. *)
BroadcastCovers ==
  [][\A t \in Threads :
       at[t] = "clear" /\ at'[t] = "user" => awaited[t] = {}]_condvars

Broadcasters == {t \in Threads : "broadcast" \in May[t]}

(* Every thread a broadcast found registered is released
   (docs/req-0071-posix-threads.md:8: "Broadcast shall release every
   registered waiter"). *)
BroadcastReleasesAll ==
  \A t \in Broadcasters : at[t] = "await" ~> awaited[t] = {}

(* A broadcaster gets out of pthread_cond_broadcast. *)
BroadcastReturns ==
  \A t \in Broadcasters : at[t] = "await" ~> at[t] = "user"
=============================================================================
