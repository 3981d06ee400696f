----------------------------- MODULE ThreadPool ------------------------------
(***************************************************************************)
(* The worker pool of src/thread_pool.c: one pool, its worker threads and  *)
(* the client threads that create it, submit to it, wait for it, shut it   *)
(* down and destroy it.                                                    *)
(*                                                                         *)
(* Every field of the pool is read and written under pool->mutex only, so  *)
(* a critical section that neither waits nor broadcasts is one action,     *)
(* enabled while the mutex is free.  pthread_cond_wait registers the       *)
(* thread and frees the mutex; the thread leaves the condition in a step   *)
(* of its own (Wake) and must get the mutex again.  pthread_cond_broadcast *)
(* does not return before every registered thread has left, so a section   *)
(* that broadcasts keeps the mutex for several steps.                      *)
(*                                                                         *)
(* status, owed and joins are history: they say what happened to a task,   *)
(* which tasks submitted before a wait call are still to finish, and how   *)
(* often a worker was joined.                                              *)
(***************************************************************************)
EXTENDS Condition, Sequences

CONSTANTS
  WorkerCount,  \* the argument of wcrt_thread_pool_create
  Clients,      \* threads that call the pool
  Owner,        \* the client that creates and destroys it
  Tasks,        \* the tasks clients and tasks may submit
  Reuse,        \* whether a finished task may be submitted again
  None          \* no thread, no task

Workers == 1..WorkerCount
Threads == Workers \union Clients

(* worker_count is a size_t and zero is refused (line 80). *)
ASSUME PoolAssumption ==
  /\ WorkerCount \in Nat \ {0}
  /\ Clients \intersect Workers = {}
  /\ Owner \in Clients
  /\ IsFiniteSet(Clients)
  /\ Reuse \in BOOLEAN
  /\ SemMax \in Nat
  /\ SemMax >= Cardinality(Clients) + WorkerCount
  /\ None \notin Threads \union Tasks

VARIABLES
  queue,      \* the list from head to tail
  queued,     \* pool->queued
  active,     \* pool->active
  accepting, stopping, joining, joined,
  mutex,      \* the thread inside a section that broadcasts, or None
  cond,       \* cond["work"] is work_available, cond["idle"] is idle
  held,       \* the resources of the pool object that exist
  created,    \* how many workers pthread_create has started
  index,      \* index[c] is the loop variable of c's pthread_join loop
  pc, job,    \* where each thread is, and the item each worker took
  retiring,   \* wcrt_thread_pool_destroy has been called
  status, owed, joins

vars == <<queue, queued, active, accepting, stopping, joining, joined, mutex,
          cond, held, created, index, pc, job, retiring, status, owed, joins>>
items == <<queue, queued, active>>
flags == <<accepting, stopping, joining, joined>>
birth == <<held, created, retiring>>
history == <<status, owed, joins>>

-----------------------------------------------------------------------------
(* Where a thread can be. *)

(* The steps of wcrt_thread_pool_create that precede the first thread. *)
Resources == <<"pool", "threads", "mutex", "work_available", "idle">>
AllResources == {Resources[i] : i \in 1..5}

(* A thread in pthread_cond_wait: which condition it is registered on and
   where it continues once it owns the mutex again. *)
Sleeping ==
  [asleep    |-> [on |-> "work", then |-> "lock"],
   waiting   |-> [on |-> "idle", then |-> "wait"],
   draining  |-> [on |-> "idle", then |-> "drain"],
   following |-> [on |-> "idle", then |-> "follow"]]

(* A thread in pthread_cond_broadcast, likewise; the unlock that follows
   each broadcast of the pool belongs to the step that ends it. *)
Broadcasting ==
  [idleBroadcast    |-> [on |-> "idle", then |-> "lock"],
   stopBroadcast    |-> [on |-> "work", then |-> "join"],
   joinedBroadcast  |-> [on |-> "idle", then |-> "outside"],
   abandonBroadcast |-> [on |-> "work", then |-> "abandonJoin"]]

WorkerPlaces == {"unborn", "lock", "asleep", "running", "finishing",
                 "idleBroadcast", "exited"}
ClientPlaces == {"outside", "wait", "waiting", "enter", "drain", "draining",
                 "follow", "following", "stopBroadcast", "join",
                 "joinedBroadcast", "building", "abandon",
                 "abandonBroadcast", "abandonJoin", "failed", "gone"}

(* A worker that has taken an item and not yet decremented active. *)
Busy == {w \in Workers : pc[w] \in {"running", "finishing"}}

Goto(t, place) == pc' = [pc EXCEPT ![t] = place]

(* pthread_cond_wait up to the point where it blocks. *)
Sleep(t, place) ==
  /\ cond' = [cond EXCEPT ![Sleeping[place].on] = Register(@, t)]
  /\ Goto(t, place)

(* Mutation of BroadcastAndUnlock: pthread_cond_signal in its place. *)
SignalAndUnlock(t, place) ==
  LET b == Broadcasting[place] IN
  /\ cond' = [cond EXCEPT ![b.on] = Signal(@)]
  /\ Goto(t, b.then) /\ mutex' = None

(* pthread_cond_broadcast followed by pthread_mutex_unlock: without waiters,
   or with a full semaphore, both are over at once. *)
BroadcastAndUnlock(t, place) ==
  LET b == Broadcasting[place] IN
  /\ cond' = [cond EXCEPT ![b.on] = Broadcast(@)]
  /\ IF cond[b.on].registered = {} \/ ~Fits(cond[b.on])
       THEN Goto(t, b.then) /\ mutex' = None
       ELSE Goto(t, place) /\ mutex' = t

-----------------------------------------------------------------------------
(* Before wcrt_thread_pool_create is called there is no pool. *)
Init ==
  /\ queue = <<>> /\ queued = 0 /\ active = 0
  /\ accepting = FALSE /\ stopping = FALSE
  /\ joining = FALSE /\ joined = FALSE
  /\ mutex = None
  /\ cond = [c \in {"work", "idle"} |-> FreshCondition]
  /\ held = {} /\ created = 0
  /\ index = [c \in Clients |-> 0]
  /\ pc = [t \in Threads |-> CASE t \in Workers -> "unborn"
                               [] t = Owner -> "building"
                               [] OTHER -> "outside"]
  /\ job = [w \in Workers |-> None]
  /\ retiring = FALSE
  /\ status = [k \in Tasks |-> "new"]
  /\ owed = [c \in Clients |-> {}]
  /\ joins = [w \in Workers |-> 0]

(* wcrt_thread_pool_create, lines 84-118: the next resource is obtained; the
   pool accepts work as soon as its thread array exists. *)
Acquire ==
  /\ pc[Owner] = "building"
  /\ Cardinality(held) < 5
  /\ held' = held \union {Resources[Cardinality(held) + 1]}
  /\ accepting' = (accepting \/ "threads" \in held')
  /\ UNCHANGED <<items, stopping, joining, joined, mutex, cond, created,
                 index, pc, job, retiring, history>>

(* What each early return of lines 85-118 releases, by the resource that
   could not be obtained. *)
Unwound(r) ==
  CASE r = "pool" -> {}
    [] r = "threads" -> {"pool"}
    [] r = "mutex" -> {"threads", "pool"}
    [] r = "work_available" -> {"mutex", "threads", "pool"}
    [] r = "idle" -> {"work_available", "mutex", "threads", "pool"}

(* The same, when the resource cannot be obtained: create returns NULL. *)
AcquireFails ==
  /\ pc[Owner] = "building"
  /\ Cardinality(held) < 5
  /\ held' = held \ Unwound(Resources[Cardinality(held) + 1])
  /\ Goto(Owner, "failed")
  /\ UNCHANGED <<items, flags, mutex, cond, created, index, job, retiring,
                 history>>

(* Mutation of StartWorker: the loop of line 119 runs once too often. *)
StartOneTooMany ==
  /\ pc[Owner] = "building"
  /\ held = AllResources
  /\ created' = created + 1
  /\ pc' = [pc EXCEPT ![created + 1] = "lock",
                      ![Owner] = IF created = WorkerCount
                                   THEN "outside" ELSE @]
  /\ UNCHANGED <<items, flags, mutex, cond, held, index, job, retiring,
                 history>>

(* Lines 119-132: pthread_create starts the next worker, which begins at the
   head of its loop; after the last one create returns the pool. *)
StartWorker ==
  /\ pc[Owner] = "building"
  /\ held = AllResources
  /\ created' = created + 1
  /\ pc' = [pc EXCEPT ![created + 1] = "lock",
                      ![Owner] = IF created + 1 = WorkerCount
                                   THEN "outside" ELSE @]
  /\ UNCHANGED <<items, flags, mutex, cond, held, index, job, retiring,
                 history>>

(* Line 120: pthread_create fails, wcrt_thread_pool_stop_created begins. *)
StartWorkerFails ==
  /\ pc[Owner] = "building"
  /\ held = AllResources
  /\ Goto(Owner, "abandon")
  /\ UNCHANGED <<items, flags, mutex, cond, birth, index, job, history>>

(* wcrt_thread_pool_stop_created, lines 67-71. *)
Abandon ==
  /\ pc[Owner] = "abandon" /\ mutex = None
  /\ accepting' = FALSE /\ stopping' = TRUE
  /\ BroadcastAndUnlock(Owner, "abandonBroadcast")
  /\ UNCHANGED <<items, joining, joined, birth, index, job, history>>

(* Lines 123-129: the workers already started are joined, all is freed. *)
AbandonFree ==
  /\ pc[Owner] = "abandonJoin" /\ index[Owner] = created
  /\ held' = {}
  /\ Goto(Owner, "failed")
  /\ UNCHANGED <<items, flags, mutex, cond, created, index, job, retiring,
                 history>>

(* Lines 72-73 and 192-193: pthread_join of the next worker blocks until
   that worker has returned. *)
JoinNext(c) ==
  /\ \/ pc[c] = "join" /\ index[c] < WorkerCount
     \/ pc[c] = "abandonJoin" /\ index[c] < created
  /\ pc[index[c] + 1] = "exited"
  /\ index' = [index EXCEPT ![c] = @ + 1]
  /\ joins' = [joins EXCEPT ![index[c] + 1] = @ + 1]
  /\ UNCHANGED <<items, flags, mutex, cond, birth, pc, job, status, owed>>

-----------------------------------------------------------------------------
(* wcrt_thread_pool_worker. *)

(* Mutation of Take: without "++pool->active". *)
TakeUncounted(w) ==
  /\ pc[w] = "lock" /\ mutex = None
  /\ queue # <<>>
  /\ queue' = Tail(queue)
  /\ queued' = queued - 1
  /\ job' = [job EXCEPT ![w] = Head(queue)]
  /\ status' = [status EXCEPT ![Head(queue)] = "running"]
  /\ Goto(w, "running")
  /\ UNCHANGED <<active, flags, mutex, cond, birth, index, owed, joins>>

(* Lines 45-50: the head item leaves the list. *)
Take(w) ==
  /\ pc[w] = "lock" /\ mutex = None
  /\ queue # <<>>
  /\ queue' = Tail(queue)
  /\ queued' = queued - 1
  /\ active' = active + 1
  /\ job' = [job EXCEPT ![w] = Head(queue)]
  /\ status' = [status EXCEPT ![Head(queue)] = "running"]
  /\ Goto(w, "running")
  /\ UNCHANGED <<flags, mutex, cond, birth, index, owed, joins>>

(* Mutation of Rest: the wait without the test for an item. *)
RestUnchecked(w) ==
  /\ pc[w] = "lock" /\ mutex = None
  /\ ~stopping
  /\ Sleep(w, "asleep")
  /\ UNCHANGED <<items, flags, mutex, birth, index, job, history>>

(* Lines 39-40: nothing to do, the worker waits on work_available. *)
Rest(w) ==
  /\ pc[w] = "lock" /\ mutex = None
  /\ queue = <<>> /\ ~stopping
  /\ Sleep(w, "asleep")
  /\ UNCHANGED <<items, flags, mutex, birth, index, job, history>>

(* Lines 41-44. *)
Exit(w) ==
  /\ pc[w] = "lock" /\ mutex = None
  /\ queue = <<>> /\ stopping
  /\ Goto(w, "exited")
  /\ UNCHANGED <<items, flags, mutex, cond, birth, index, job, history>>

(* Lines 52-53: the task returns and its item is freed. *)
Run(w) ==
  /\ pc[w] = "running"
  /\ status' = [status EXCEPT ![job[w]] = "done"]
  /\ job' = [job EXCEPT ![w] = None]
  /\ owed' = [c \in Clients |-> owed[c] \ {job[w]}]
  /\ Goto(w, "finishing")
  /\ UNCHANGED <<items, flags, mutex, cond, birth, index, joins>>

(* Lines 55-59: the last active worker of a drained pool broadcasts idle. *)
Finish(w) ==
  /\ pc[w] = "finishing" /\ mutex = None
  /\ active' = active - 1
  /\ IF queued = 0 /\ active = 1
       THEN BroadcastAndUnlock(w, "idleBroadcast")
       ELSE Goto(w, "lock") /\ UNCHANGED <<cond, mutex>>
  /\ UNCHANGED <<queue, queued, flags, birth, index, job, history>>

-----------------------------------------------------------------------------
(* The condition variables. *)

(* A registered thread leaves its condition; it goes on when it gets the
   mutex back. *)
Wake(t) ==
  /\ pc[t] \in DOMAIN Sleeping
  /\ LET s == Sleeping[pc[t]] IN
       /\ CanLeave(cond[s.on], t)
       /\ cond' = [cond EXCEPT ![s.on] = Leave(@, t)]
       /\ Goto(t, s.then)
  /\ UNCHANGED <<items, flags, mutex, birth, index, job, history>>

(* The broadcaster finds waiters_done set, ends its broadcast and unlocks. *)
BroadcastReturns(t) ==
  /\ pc[t] \in DOMAIN Broadcasting
  /\ LET b == Broadcasting[pc[t]] IN
       /\ cond[b.on].drained
       /\ cond' = [cond EXCEPT ![b.on] = EndBroadcast(@)]
       /\ Goto(t, b.then)
  /\ mutex' = None
  /\ UNCHANGED <<items, flags, birth, index, job, history>>

-----------------------------------------------------------------------------
(* The calls of clients.  A pool is used only after create has returned it  *)
(* and before destroy is called on it; a task may submit, but neither wait  *)
(* nor shut down (docs/req-0073-thread-pool.md:29).                         *)

Usable == created = WorkerCount /\ held = AllResources /\ ~retiring

CanSubmit(t) ==
  \/ t \in Clients /\ pc[t] = "outside" /\ Usable
  \/ t \in Workers /\ pc[t] = "running"

(* wcrt_thread_pool_submit, lines 145-157.  A submission that cannot
   allocate its item changes nothing and is left out. *)
Submit(t, k) ==
  /\ CanSubmit(t) /\ mutex = None
  /\ status[k] = "new" \/ (Reuse /\ status[k] = "done")
  /\ IF accepting
       THEN /\ queue' = Append(queue, k)
            /\ queued' = queued + 1
            /\ cond' = [cond EXCEPT !["work"] = Signal(@)]
            /\ status' = [status EXCEPT ![k] = "queued"]
       ELSE /\ status' = [status EXCEPT ![k] = "rejected"]
            /\ UNCHANGED <<queue, queued, cond>>
  /\ UNCHANGED <<active, flags, mutex, birth, index, pc, job, owed, joins>>

Unfinished == {k \in Tasks : status[k] \in {"queued", "running"}}

(* A client calls wcrt_thread_pool_wait or wcrt_thread_pool_shutdown. *)
Call(c) ==
  /\ pc[c] = "outside" /\ Usable
  /\ \/ Goto(c, "wait") /\ owed' = [owed EXCEPT ![c] = Unfinished]
     \/ Goto(c, "enter") /\ UNCHANGED owed
  /\ UNCHANGED <<items, flags, mutex, cond, birth, index, job, status, joins>>

(* wcrt_thread_pool_wait, lines 163-167. *)
Drained == queued = 0 /\ active = 0

WaitStep(c) ==
  /\ pc[c] = "wait" /\ mutex = None
  /\ IF Drained THEN Goto(c, "outside") /\ UNCHANGED cond
                ELSE Sleep(c, "waiting")
  /\ UNCHANGED <<items, flags, mutex, birth, index, job, history>>

(* wcrt_thread_pool_shutdown, lines 187-191, with the mutex held. *)
DrainThenStop(c) ==
  IF Drained
    THEN stopping' = TRUE /\ BroadcastAndUnlock(c, "stopBroadcast")
    ELSE Sleep(c, "draining") /\ UNCHANGED <<stopping, mutex>>

(* Mutations of ShutdownLead: a second caller leads too; tasks are accepted
   until the pool is drained. *)
LeadAgain(c) ==
  /\ pc[c] = "enter" /\ mutex = None
  /\ ~joined
  /\ joining' = TRUE /\ accepting' = FALSE
  /\ DrainThenStop(c)
  /\ UNCHANGED <<items, joined, birth, index, job, history>>

LeadAccepting(c) ==
  /\ pc[c] = "enter" /\ mutex = None
  /\ ~joined /\ ~joining
  /\ joining' = TRUE /\ UNCHANGED accepting
  /\ DrainThenStop(c)
  /\ UNCHANGED <<items, joined, birth, index, job, history>>

(* Lines 174-186: the first caller leads, a later one follows. *)
ShutdownLead(c) ==
  /\ pc[c] = "enter" /\ mutex = None
  /\ ~joined /\ ~joining
  /\ joining' = TRUE /\ accepting' = FALSE
  /\ DrainThenStop(c)
  /\ UNCHANGED <<items, joined, birth, index, job, history>>

(* Mutation of ShutdownFollow: it does not wait for the leader. *)
FollowInHaste(c) ==
  /\ pc[c] \in {"enter", "follow"} /\ mutex = None
  /\ pc[c] = "enter" => joined \/ joining
  /\ Goto(c, "outside")
  /\ UNCHANGED <<items, flags, mutex, cond, birth, index, job, history>>

ShutdownFollow(c) ==
  /\ pc[c] \in {"enter", "follow"} /\ mutex = None
  /\ pc[c] = "enter" => joined \/ joining
  /\ IF joined THEN Goto(c, "outside") /\ UNCHANGED cond
               ELSE Sleep(c, "following")
  /\ UNCHANGED <<items, flags, mutex, birth, index, job, history>>

(* The leader, woken in its loop of lines 187-188. *)
ShutdownDrain(c) ==
  /\ pc[c] = "drain" /\ mutex = None
  /\ DrainThenStop(c)
  /\ UNCHANGED <<items, accepting, joining, joined, birth, index, job,
                 history>>

(* Lines 194-198, after the last join. *)
ShutdownPublish(c) ==
  /\ pc[c] = "join" /\ index[c] = WorkerCount /\ mutex = None
  /\ joined' = TRUE
  /\ index' = [index EXCEPT ![c] = 0]
  /\ BroadcastAndUnlock(c, "joinedBroadcast")
  /\ UNCHANGED <<items, accepting, stopping, joining, birth, job, history>>

(* Mutation of Destroy: without the call of shutdown. *)
DestroyAtOnce ==
  /\ pc[Owner] = "outside" /\ Usable
  /\ \A c \in Clients \ {Owner} : pc[c] = "outside"
  /\ retiring' = TRUE
  /\ UNCHANGED <<items, flags, mutex, cond, held, created, index, pc, job,
                 history>>

(* wcrt_thread_pool_destroy.  Its caller owns the pool: no other client is
   inside it, and none calls it from now on. *)
Destroy ==
  /\ pc[Owner] = "outside" /\ Usable
  /\ \A c \in Clients \ {Owner} : pc[c] = "outside"
  /\ retiring' = TRUE
  /\ Goto(Owner, "enter")
  /\ UNCHANGED <<items, flags, mutex, cond, held, created, index, job,
                 history>>

(* Lines 205-209, once its call of shutdown has returned. *)
DestroyFree ==
  /\ pc[Owner] = "outside" /\ retiring
  /\ held' = {}
  /\ Goto(Owner, "gone")
  /\ UNCHANGED <<items, flags, mutex, cond, created, index, job, retiring,
                 history>>

-----------------------------------------------------------------------------
WorkerStep(w) == Take(w) \/ Rest(w) \/ Exit(w) \/ Run(w) \/ Finish(w)

(* What a client does inside a call it has made. *)
ClientStep(c) ==
  \/ WaitStep(c) \/ ShutdownLead(c) \/ ShutdownFollow(c)
  \/ ShutdownDrain(c) \/ JoinNext(c) \/ ShutdownPublish(c)

ThreadStep(t) == Wake(t) \/ BroadcastReturns(t)

CreateStep ==
  Acquire \/ AcquireFails \/ StartWorker \/ StartWorkerFails
    \/ Abandon \/ AbandonFree

(* A created pool has no further step once it is destroyed, or when its
   clients call nothing more. *)
Next ==
  \/ CreateStep
  \/ Destroy \/ DestroyFree
  \/ \E w \in Workers : WorkerStep(w)
  \/ \E c \in Clients : Call(c) \/ ClientStep(c)
  \/ \E t \in Threads : ThreadStep(t) \/ \E k \in Tasks : Submit(t, k)

Spec == Init /\ [][Next]_vars

(* Every thread that can go on does: tasks return, and a thread that finds
   the mutex free again and again gets it.  Clients need not call. *)
Fairness ==
  /\ WF_vars(CreateStep) /\ WF_vars(DestroyFree)
  /\ \A w \in Workers : SF_vars(WorkerStep(w))
  /\ \A c \in Clients : SF_vars(ClientStep(c))
  /\ \A t \in Threads : SF_vars(ThreadStep(t))

FairSpec == Spec /\ Fairness

-----------------------------------------------------------------------------
(* Type invariant: every variable of the pool, of its two conditions and of
   the history has a value of its kind. *)
TypeOK ==
  /\ queue \in Seq(Tasks) /\ queued \in Nat /\ active \in Nat
  /\ accepting \in BOOLEAN /\ stopping \in BOOLEAN
  /\ joining \in BOOLEAN /\ joined \in BOOLEAN
  /\ mutex \in Threads \union {None}
  /\ cond \in [{"work", "idle"} -> ConditionType(Threads)]
  /\ held \subseteq AllResources /\ created \in 0..WorkerCount
  /\ index \in [Clients -> 0..WorkerCount]
  /\ pc \in [Threads -> WorkerPlaces \union ClientPlaces]
  /\ \A w \in Workers : pc[w] \in WorkerPlaces
  /\ \A c \in Clients : pc[c] \in ClientPlaces
  /\ job \in [Workers -> Tasks \union {None}]
  /\ retiring \in BOOLEAN
  /\ status \in [Tasks -> {"new", "queued", "running", "done", "rejected"}]
  /\ owed \in [Clients -> SUBSET Tasks]
  /\ joins \in [Workers -> Nat]

(* The two counters wait and shutdown test (lines 164 and 187) agree with
   the list and with the workers that hold an item, so neither call can see
   a drained pool while an item is still in somebody's hands. *)
CountersExact == queued = Len(queue) /\ active = Cardinality(Busy)

(* A worker that will look at the queue again without being woken. *)
Attending(w) == pc[w] \in {"lock", "running", "finishing", "idleBroadcast"}

(* A worker that pthread_cond_wait is about to let go. *)
Woken == cond["work"].eligible # {} /\ cond["work"].tokens > 0

(* No lost wake-up on work_available: an accepted item never sits in the
   list of a complete pool while every worker sleeps with no token to come,
   however signals, stale tokens and busy workers interleave. *)
NoLostWork ==
  queue # <<>> /\ created = WorkerCount =>
    (\E w \in Workers : Attending(w)) \/ Woken

(* No lost wake-up on idle: when nobody is inside a section, nobody sleeps
   for a drain that has happened, and no second shutdown sleeps for a join
   that has happened. *)
NoLostIdle ==
  mutex = None =>
    \A c \in Clients :
      \/ Drained /\ pc[c] \in {"waiting", "draining"}
      \/ joined /\ pc[c] = "following"
      => CanLeave(cond["idle"], c)

(* Shutdown finishes accepted work and joins every worker
   (docs/req-0073-thread-pool.md:8): once joined is set, no task is left
   behind and each worker has returned and was joined once, even if two
   clients shut down at the same time; and the wake-up for it is not lost. *)
ShutdownComplete ==
  /\ NoLostIdle
  /\ joined => Unfinished = {} /\ ~accepting
  /\ joined => \A w \in Workers : pc[w] = "exited" /\ joins[w] = 1
  /\ \A w \in Workers : joins[w] <= 1

(* The pool object outlives its users: as long as a thread is inside one of
   its sections, waits on its conditions or may still lock its mutex,
   nothing of it is released; and nothing is left of a pool that create
   could not build or that destroy took apart. *)
Inside(t) ==
  pc[t] \notin {"unborn", "exited", "outside", "building", "failed", "gone"}

ResourcesOutliveUsers ==
  /\ (\E t \in Threads : Inside(t)) => held = AllResources
  /\ pc[Owner] \in {"failed", "gone"} => held = {}

(* Once shutdown has begun, a task is never accepted again. *)
NoLateAccept ==
  [][joining => \A k \in Tasks : status'[k] = "queued" => status[k] = "queued"]_vars

(* How the pool looks from outside. *)
Phase ==
  IF pc[Owner] \in {"failed", "gone"} THEN pc[Owner]
  ELSE IF joined THEN "closed"
  ELSE IF joining THEN "closing"
  ELSE IF created = WorkerCount THEN "open"
  ELSE "building"

CallOf(c) ==
  IF c = Owner /\ retiring
    THEN IF pc[c] = "gone" THEN "none" ELSE "destroy"
  ELSE IF pc[c] \in {"wait", "waiting"} THEN "wait"
  ELSE IF pc[c] \in {"enter", "drain", "draining", "follow", "following",
                     "stopBroadcast", "join", "joinedBroadcast"}
    THEN "shutdown"
  ELSE "none"

Contract ==
  INSTANCE PoolContract
    WITH phase <- Phase, backlog <- queue,
         call <- [c \in Clients |-> CallOf(c)]

(* The pool keeps the contract of include/wcrt/thread_pool.h: tasks start in
   submission order on at most WorkerCount workers, wait and shutdown return
   from a drained pool only, destroy ends the pool last. *)
ImplementsContract == Contract!Spec

(* An accepted task runs to completion, also when shutdown begins after it
   was accepted. *)
AcceptedRuns ==
  \A k \in Tasks : status[k] = "queued" ~> status[k] = "done"

(* Every call returns from a pool that is not kept busy for ever: no
   interleaving of wait, two shutdowns, destroy and the exit of the workers
   leaves a client asleep.  With Reuse, tasks may be submitted without end,
   and a wait among them need not return. *)
CallsReturn ==
  \A c \in Clients :
    Inside(c) ~> pc[c] \in {"outside", "failed", "gone"}

(* A client in wcrt_thread_pool_wait whose earlier submissions have all
   completed gets out of it (include/wcrt/thread_pool.h:25: "Waits until all
   work submitted so far has completed").  The code waits for a drained pool
   (src/thread_pool.c:164), which those who submit later can put off. *)
WaitEnds ==
  \A c \in Clients :
    pc[c] \in {"wait", "waiting"} /\ owed[c] = {} ~> pc[c] = "outside"
=============================================================================
