------------------------------ MODULE Condition ------------------------------
(***************************************************************************)
(* What one condition variable of src/platform/windows/pthread.c promises  *)
(* to the code that waits on it, signals it and broadcasts it.  The value  *)
(* of a condition is a record:                                             *)
(*                                                                         *)
(*   registered   threads between "++waiters" and "--waiters"              *)
(*   eligible     registered threads whose saved generation is no longer   *)
(*                the current one: they leave as soon as they get a token  *)
(*   tokens       semaphore units nobody has consumed for good             *)
(*   remaining    broadcast_remaining                                      *)
(*   broadcasting the flag of the same name                                *)
(*   drained      the auto-reset event waiters_done                        *)
(*                                                                         *)
(* A waiter that takes a token although it is not eligible gives it back   *)
(* (lines 282-284); that detour is invisible here and is a step of its     *)
(* own in CondVar, which is shown to implement this module.                *)
(***************************************************************************)
EXTENDS Integers, FiniteSets

CONSTANT SemMax   \* the maximum count of the semaphore, 0x7fffffff

(* A condition that pthread_cond_init has just prepared. *)
FreshCondition ==
  [registered |-> {}, eligible |-> {}, tokens |-> 0,
   remaining |-> 0, broadcasting |-> FALSE, drained |-> FALSE]

(* The values a condition takes when the threads of S use it. *)
ConditionType(S) ==
  [registered : SUBSET S, eligible : SUBSET S, tokens : Nat,
   remaining : Int, broadcasting : BOOLEAN, drained : BOOLEAN]

(* pthread_cond_wait up to the semaphore: the caller is counted in and
   remembers the current generation, so it is not eligible yet. *)
Register(c, t) == [c EXCEPT !.registered = @ \union {t}]

(* Mutation of Signal: a token for an unchanged generation. *)
SignalSameGeneration(c) ==
  IF c.registered = {}
    THEN c
    ELSE [c EXCEPT !.tokens = IF @ < SemMax THEN @ + 1 ELSE @]

(* pthread_cond_signal: a new generation makes every registered thread
   eligible, and one token is posted unless the semaphore is full; nothing
   happens without waiters. *)
Signal(c) ==
  IF c.registered = {}
    THEN c
    ELSE [c EXCEPT !.eligible = c.registered,
                   !.tokens = IF @ < SemMax THEN @ + 1 ELSE @]

(* The first half of pthread_cond_broadcast: a countdown of the registered
   threads and a token for each, or no token at all and EINVAL when the
   semaphore cannot hold them (lines 323-327). *)
Fits(c) == c.tokens + Cardinality(c.registered) <= SemMax

Broadcast(c) ==
  IF c.registered = {}
    THEN c
    ELSE [c EXCEPT !.eligible = c.registered,
                   !.tokens = IF Fits(c)
                                THEN @ + Cardinality(c.registered) ELSE @,
                   !.remaining = Cardinality(c.registered),
                   !.broadcasting = Fits(c)]

(* A thread may leave pthread_cond_wait's loop. *)
CanLeave(c, t) == t \in c.eligible /\ c.tokens > 0

(* The end of the wait: the thread consumes a token and is counted out; the
   one that brings the countdown to zero sets waiters_done. *)
Leave(c, t) ==
  [c EXCEPT !.registered = @ \ {t}, !.eligible = @ \ {t}, !.tokens = @ - 1,
            !.remaining = IF c.broadcasting THEN @ - 1 ELSE @,
            !.drained = @ \/ (c.broadcasting /\ c.remaining = 1)]

(* The second half of the broadcast, once waiters_done is set. *)
EndBroadcast(c) == [c EXCEPT !.broadcasting = FALSE, !.drained = FALSE]
=============================================================================
