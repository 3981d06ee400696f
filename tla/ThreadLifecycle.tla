--------------------------- MODULE ThreadLifecycle ---------------------------
(***************************************************************************)
(* The life of one thread made by pthread_create: its control block, which *)
(* the worker and the holder of the identifier share, and pthread_join,    *)
(* pthread_detach and pthread_exit (src/platform/windows/pthread.c).       *)
(*                                                                         *)
(* A stretch under control->guard contains no other wait and is one        *)
(* action.  The worker may run before pthread_create has stored the handle *)
(* CreateThread returns: the store (handle), and the identifier given to   *)
(* the caller (known), are steps of the creator that come later.           *)
(*                                                                         *)
(* Any number of joins and detaches may be under way at once, and the      *)
(* worker may end, and the winner of the claim free the block, while       *)
(* others have yet to look at it.  Only a call that begins when the block  *)
(* has been freed already is left out: it names no thread.                 *)
(***************************************************************************)
EXTENDS Naturals, FiniteSets

CONSTANTS
  Callers,  \* threads that may join or detach the new one
  Creator,  \* the caller of pthread_create, one of Callers
  Worker,   \* the new thread
  Early     \* what the worker may do before the handle is stored:
            \* a subset of {"tell", "detach"}

ASSUME ThreadLifecycleAssumption ==
  /\ IsFiniteSet(Callers) /\ Creator \in Callers
  /\ Worker \notin Callers
  /\ Early \subseteq {"tell", "detach"}

VARIABLES
  block,      \* the control block: "none", "allocated" or "freed"
  guard,      \* its mutex: "none", "open" or "closed"
  object,     \* the kernel's thread object: "none", "open" or "closed"
  handle,     \* whether control->handle has been stored
  references, claimed,
  result,     \* control->result: "none", or the "value" of the routine
  pc,         \* where each thread is
  known,      \* the callers that have the identifier
  wins,       \* history: how many joins and detaches have succeeded
  refused     \* history: some join or detach has returned EINVAL

control == <<handle, references, claimed, result>>
resources == <<block, guard, object>>
history == <<wins, refused>>
vars == <<resources, control, pc, known, history>>

Actors == Callers \union {Worker}

Places ==
  {"user", "calloc", "guard", "spawn", "store", "publish",
   "join", "await", "collect", "unclaim", "detach", "release", "free",
   "astray", "unborn", "routine", "finish", "ended"}

Init ==
  /\ block = "none" /\ guard = "none" /\ object = "none"
  /\ handle = FALSE /\ references = 0 /\ claimed = FALSE /\ result = "none"
  /\ pc = [a \in Actors |-> IF a = Worker THEN "unborn"
                            ELSE IF a = Creator THEN "calloc" ELSE "user"]
  /\ known = {}
  /\ wins = 0 /\ refused = FALSE

Goto(a, place) == pc' = [pc EXCEPT ![a] = place]

(* Where a goes when its call is over. *)
Back(a) ==
  IF a # Worker THEN "user" ELSE IF result = "none" THEN "routine" ELSE "ended"

-----------------------------------------------------------------------------
(* pthread_create. *)

(* No TLS key for pthread_self, or no memory. *)
CreateFails ==
  /\ pc[Creator] = "calloc"
  /\ Goto(Creator, "user")
  /\ UNCHANGED <<resources, control, known, history>>

Allocate ==
  /\ pc[Creator] = "calloc"
  /\ block' = "allocated"
  /\ Goto(Creator, "guard")
  /\ UNCHANGED <<guard, object, control, known, history>>

GuardFails ==
  /\ pc[Creator] = "guard"
  /\ block' = "freed"
  /\ Goto(Creator, "user")
  /\ UNCHANGED <<guard, object, control, known, history>>

MakeGuard ==
  /\ pc[Creator] = "guard"
  /\ guard' = "open"
  /\ references' = 2
  /\ Goto(Creator, "spawn")
  /\ UNCHANGED <<block, object, handle, claimed, result, known, history>>

(* Mutation of SpawnFails: the mutex stays open. *)
SpawnFailsOpen ==
  /\ pc[Creator] = "spawn"
  /\ block' = "freed"
  /\ Goto(Creator, "user")
  /\ UNCHANGED <<guard, object, control, known, history>>

SpawnFails ==
  /\ pc[Creator] = "spawn"
  /\ block' = "freed" /\ guard' = "closed"
  /\ Goto(Creator, "user")
  /\ UNCHANGED <<object, control, known, history>>

(* CreateThread: from here on the worker runs. *)
Spawn ==
  /\ pc[Creator] = "spawn"
  /\ object' = "open"
  /\ pc' = [pc EXCEPT ![Creator] = "store", ![Worker] = "routine"]
  /\ UNCHANGED <<block, guard, control, known, history>>

(* control->handle = CreateThread(...). *)
StoreHandle ==
  /\ pc[Creator] = "store"
  /\ handle' = TRUE
  /\ Goto(Creator, "publish")
  /\ UNCHANGED <<resources, references, claimed, result, known, history>>

(* *thread = control; the caller may pass the identifier on. *)
Publish ==
  /\ pc[Creator] = "publish"
  /\ known' = Callers
  /\ Goto(Creator, "user")
  /\ UNCHANGED <<resources, control, history>>

-----------------------------------------------------------------------------
(* How the program uses the identifier. *)

Claiming == {a \in Actors : pc[a] \in {"join", "detach"}}

(* A call begins while the block is there. *)
Call(a, place) ==
  /\ block = "allocated"
  /\ Goto(a, place)
  /\ UNCHANGED <<resources, control, known, history>>

CallJoin(c) == pc[c] = "user" /\ c \in known /\ Call(c, "join")

CallDetach(c) == pc[c] = "user" /\ c \in known /\ Call(c, "detach")

(* pthread_detach(pthread_self()) in the routine. *)
CallDetachSelf ==
  /\ pc[Worker] = "routine"
  /\ handle \/ "detach" \in Early
  /\ Call(Worker, "detach")

(* The routine hands pthread_self() to the others. *)
Tell ==
  /\ pc[Worker] = "routine"
  /\ handle \/ "tell" \in Early
  /\ known' = known \union (Callers \ {Creator})
  /\ UNCHANGED <<resources, control, pc, history>>

(* The routine returns or calls pthread_exit.  What the destructors of
   thread-specific values do is the subject of ThreadKeys. *)
EndRoutine ==
  /\ pc[Worker] = "routine"
  /\ Goto(Worker, "finish")
  /\ UNCHANGED <<resources, control, known, history>>

-----------------------------------------------------------------------------
(* Inside the calls. *)

Claim(a, from, to) ==
  /\ pc[a] = from
  /\ block = "allocated" /\ ~claimed
  /\ claimed' = TRUE
  /\ Goto(a, to)
  /\ UNCHANGED <<resources, handle, references, result, known, history>>

ClaimJoin(c) == Claim(c, "join", "await")

(* Mutation of ClaimDetach: the claim is not recorded. *)
ClaimDetachSilently(a) ==
  /\ pc[a] = "detach" /\ block = "allocated" /\ ~claimed
  /\ Goto(a, "release")
  /\ UNCHANGED <<resources, control, known, history>>

ClaimDetach(a) == Claim(a, "detach", "release")

(* Somebody else has claimed the thread: EINVAL. *)
Refuse(a) ==
  /\ a \in Claiming /\ block = "allocated" /\ claimed
  /\ refused' = TRUE
  /\ Goto(a, Back(a))
  /\ UNCHANGED <<resources, control, known, wins>>

(* A call that looks at the guard after the winner and the worker have gone:
   what it reads is no longer a control block, and nothing is said of what
   becomes of it. *)
Overtaken(a) ==
  /\ a \in Claiming /\ block = "freed"
  /\ Goto(a, "astray")
  /\ UNCHANGED <<resources, control, known, history>>

(* Mutation of Await: the outcome of the wait is ignored. *)
AwaitNothing(c) ==
  /\ pc[c] = "await" /\ handle
  /\ Goto(c, "collect")
  /\ UNCHANGED <<resources, control, known, history>>

(* The thread object is signalled when the worker has ended. *)
Await(c) ==
  /\ pc[c] = "await" /\ handle
  /\ pc[Worker] = "ended"
  /\ Goto(c, "collect")
  /\ UNCHANGED <<resources, control, known, history>>

(* A wait on the null handle fails at once... *)
AwaitFails(c) ==
  /\ pc[c] = "await" /\ ~handle
  /\ Goto(c, "unclaim")
  /\ UNCHANGED <<resources, control, known, history>>

(* ...and the claim is given up: EINVAL. *)
Unclaim(c) ==
  /\ pc[c] = "unclaim"
  /\ claimed' = FALSE
  /\ refused' = TRUE
  /\ Goto(c, "user")
  /\ UNCHANGED <<resources, handle, references, result, known, wins>>

(* The joiner reads control->result. *)
Collect(c) ==
  /\ pc[c] = "collect"
  /\ Goto(c, "release")
  /\ UNCHANGED <<resources, control, known, history>>

(* wcrt_finish_thread after the destructors. *)
StoreResult ==
  /\ pc[Worker] = "finish"
  /\ result' = "value"
  /\ Goto(Worker, "release")
  /\ UNCHANGED <<resources, handle, references, claimed, known, history>>

(* Mutation of Release: the last but one frees. *)
ReleaseEarly(a) ==
  /\ pc[a] = "release"
  /\ references' = references - 1
  /\ wins' = IF Back(a) = "ended" THEN wins ELSE wins + 1
  /\ Goto(a, IF references = 2 THEN "free" ELSE Back(a))
  /\ UNCHANGED <<resources, handle, claimed, result, known, refused>>

(* wcrt_release_thread under the guard; without the free, the call of the
   holder is over. *)
Release(a) ==
  /\ pc[a] = "release"
  /\ references' = references - 1
  /\ wins' = IF Back(a) = "ended" THEN wins ELSE wins + 1
  /\ Goto(a, IF references' = 0 THEN "free" ELSE Back(a))
  /\ UNCHANGED <<resources, handle, claimed, result, known, refused>>

(* The last one closes what control->handle names, closes the guard and
   frees the block. *)
Free(a) ==
  /\ pc[a] = "free"
  /\ block' = "freed" /\ guard' = "closed"
  /\ object' = IF handle THEN "closed" ELSE object
  /\ Goto(a, Back(a))
  /\ UNCHANGED <<control, known, history>>

-----------------------------------------------------------------------------
Create ==
  \/ CreateFails \/ Allocate \/ GuardFails \/ MakeGuard \/ SpawnFails \/ Spawn
  \/ StoreHandle \/ Publish

(* What an actor does inside a call, and the worker at its end. *)
InCall(a) ==
  \/ ClaimDetach(a) \/ Refuse(a) \/ Overtaken(a) \/ Release(a) \/ Free(a)
  \/ a \in Callers /\ (\/ ClaimJoin(a) \/ Await(a) \/ AwaitFails(a)
                       \/ Unclaim(a) \/ Collect(a))

Next ==
  \/ Create \/ Tell \/ CallDetachSelf \/ EndRoutine \/ StoreResult
  \/ \E c \in Callers : CallJoin(c) \/ CallDetach(c)
  \/ \E a \in Actors : InCall(a)

Spec == Init /\ [][Next]_vars

(* Threads run: creation goes on, calls proceed, and the routine ends even
   if it first detaches itself again and again. *)
FairSpec ==
  /\ Spec
  /\ WF_vars(Create) /\ SF_vars(EndRoutine) /\ WF_vars(StoreResult)
  /\ \A a \in Actors : WF_vars(InCall(a))

-----------------------------------------------------------------------------
(* Type invariant. *)
TypeOK ==
  /\ block \in {"none", "allocated", "freed"}
  /\ guard \in {"none", "open", "closed"}
  /\ object \in {"none", "open", "closed"}
  /\ handle \in BOOLEAN /\ references \in 0..2 /\ claimed \in BOOLEAN
  /\ result \in {"none", "value"}
  /\ pc \in [Actors -> Places]
  /\ known \subseteq Callers
  /\ wins \in Nat /\ refused \in BOOLEAN

(* Whoever is about to touch the control block or its guard finds them there:
   "Joinable state shared by a creator and its worker"
   (src/platform/windows/pthread.c:51) is freed by its last user.  The
   exception is a join or detach that has begun and not yet looked whether
   the thread is claimed, when another call has won the claim and the worker
   has ended: nothing keeps the block for it. *)
TouchesLive ==
  \A a \in Actors :
    /\ pc[a] \in {"store", "await", "collect", "unclaim", "release", "free",
                 "routine", "finish"}
         => block = "allocated" /\ guard = "open"
    /\ a \in Claiming
         => \/ block = "allocated" /\ guard = "open"
            \/ a # Worker /\ claimed /\ wins = 1 /\ pc[Worker] = "ended"

(* However joins and detaches overlap, one of them at most succeeds. *)
OneWinner == wins <= 1

(* A join that goes on to read the result finds the value of the start
   routine or of pthread_exit (docs/req-0071-posix-threads.md:10). *)
JoinDelivers ==
  \A c \in Callers :
    pc[c] = "collect" => result = "value" /\ pc[Worker] = "ended"

Idle ==
  /\ pc[Worker] \in {"unborn", "ended"}
  /\ \A c \in Callers : pc[c] \in {"user", "astray"}

(* When the worker has ended, or was never made, and its holder has let go,
   nothing is left of it: block, guard and kernel object are released. *)
ReleasedAtEnd ==
  Idle /\ (wins > 0 \/ pc[Worker] = "unborn")
    => block # "allocated" /\ guard # "open" /\ object # "open"

(* A join or detach of a live thread is refused only for the sake of another
   call: "Start-routine and explicit-exit values shall be returned by
   pthread_join" (docs/req-0071-posix-threads.md:10). *)
RefusedForAnother == refused => claimed

(* A thread that is joined or detached is freed in the end. *)
FreedAtLast == wins > 0 ~> block = "freed"
=============================================================================
