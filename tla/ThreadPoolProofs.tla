-------------------------- MODULE ThreadPoolProofs ---------------------------
(***************************************************************************)
(* Theorems about ThreadPool, for any number of workers, clients and tasks *)
(* and any semaphore limit that PoolAssumption allows: first the pool at   *)
(* work, with an inductive invariant of its own, then its shutdown and     *)
(* destruction and the contract, with a second one on top of the first.    *)
(***************************************************************************)
EXTENDS ThreadPool, TLAPS, FiniteSetTheorems, SequenceTheorems

-----------------------------------------------------------------------------
(* The inductive invariant. *)

(* How far the pool's life has come, and what that rules out: an incomplete
   pool has no work, a stopping one gets none. *)
Lifecycle ==
  /\ \A w \in Workers : pc[w] = "unborn" <=> w > created
  /\ pc[Owner] \in {"building", "abandon"} =>
       created < WorkerCount /\ ~stopping
  /\ created < WorkerCount =>
       /\ queue = <<>> /\ ~joining
       /\ \A w \in Workers : pc[w] \notin {"running", "finishing"}
       /\ \A c \in Clients : pc[c] \notin {"enter", "drain", "draining"}
  /\ \A c \in Clients : pc[c] \in {"drain", "draining"} => joining
  /\ joining => ~accepting
  /\ stopping => ~accepting /\ queue = <<>>
  /\ (\E w \in Workers : pc[w] = "exited") => stopping

(* Who is registered on work_available. *)
Registration ==
  /\ cond["work"].registered = {w \in Workers : pc[w] = "asleep"}
  /\ cond["work"].eligible \subseteq cond["work"].registered

IInv == TypeOK /\ CountersExact /\ Lifecycle /\ Registration /\ NoLostWork

-----------------------------------------------------------------------------
(* Constants and tables. *)

(* Workers and clients are different threads, finitely many. *)
LEMMA ThreadFacts ==
  /\ WorkerCount \in Nat /\ WorkerCount >= 1 /\ SemMax \in Nat /\ SemMax >= 1
  /\ Owner \in Clients /\ Clients \subseteq Threads /\ Workers \subseteq Threads
  /\ \A c \in Clients : c \notin Workers
  /\ IsFiniteSet(Workers) /\ IsFiniteSet(Threads)
  /\ None \notin Tasks /\ None \notin Threads
<1>1. IsFiniteSet(Workers)
  BY FS_Interval, PoolAssumption DEF Workers, PoolAssumption
<1>2. IsFiniteSet(Threads)
  BY <1>1, FS_Union, PoolAssumption DEF Threads, PoolAssumption
<1>3. Cardinality(Clients) \in Nat /\ Cardinality(Clients) >= 0
  BY FS_CardinalityType, PoolAssumption DEF PoolAssumption
<1>4. QED
  BY <1>1, <1>2, <1>3, PoolAssumption DEF PoolAssumption, Threads, Workers

(* The table of places inside pthread_cond_wait. *)
LEMMA SleepingTable ==
  /\ DOMAIN Sleeping = {"asleep", "waiting", "draining", "following"}
  /\ Sleeping["asleep"].on = "work" /\ Sleeping["asleep"].then = "lock"
  /\ Sleeping["waiting"].on = "idle" /\ Sleeping["waiting"].then = "wait"
  /\ Sleeping["draining"].on = "idle" /\ Sleeping["draining"].then = "drain"
  /\ Sleeping["following"].on = "idle" /\ Sleeping["following"].then = "follow"
BY DEF Sleeping

(* The table of places inside pthread_cond_broadcast. *)
LEMMA BroadcastingTable ==
  /\ DOMAIN Broadcasting = {"idleBroadcast", "stopBroadcast",
                            "joinedBroadcast", "abandonBroadcast"}
  /\ Broadcasting["idleBroadcast"].on = "idle"
  /\ Broadcasting["idleBroadcast"].then = "lock"
  /\ Broadcasting["stopBroadcast"].on = "work"
  /\ Broadcasting["stopBroadcast"].then = "join"
  /\ Broadcasting["joinedBroadcast"].on = "idle"
  /\ Broadcasting["joinedBroadcast"].then = "outside"
  /\ Broadcasting["abandonBroadcast"].on = "work"
  /\ Broadcasting["abandonBroadcast"].then = "abandonJoin"
BY DEF Broadcasting

-----------------------------------------------------------------------------
(* The operations of a condition. *)

(* Registering keeps the type and changes nothing but the registered set. *)
LEMMA RegisterFacts ==
  ASSUME NEW c \in ConditionType(Threads), NEW t \in Threads
  PROVE  /\ Register(c, t) \in ConditionType(Threads)
         /\ Register(c, t).registered = c.registered \union {t}
         /\ Register(c, t).eligible = c.eligible
         /\ Register(c, t).tokens = c.tokens
BY DEF ConditionType, Register

(* A signal that finds somebody registered leaves a token for them, even
   when the semaphore is full. *)
LEMMA SignalFacts ==
  ASSUME NEW c \in ConditionType(Threads)
  PROVE  /\ Signal(c) \in ConditionType(Threads)
         /\ Signal(c).registered = c.registered
         /\ c.eligible \subseteq c.registered =>
              Signal(c).eligible \subseteq c.registered
         /\ c.registered # {} =>
              Signal(c).eligible # {} /\ Signal(c).tokens > 0
<1>1. c.tokens \in Nat /\ c.registered \in SUBSET Threads
  BY DEF ConditionType
<1>2. CASE c.registered = {}
  BY <1>2 DEF Signal
<1>3. CASE c.registered # {}
  <2> DEFINE n == IF c.tokens < SemMax THEN c.tokens + 1 ELSE c.tokens
  <2>1. n \in Nat /\ n > 0
    BY <1>1, ThreadFacts
  <2>2. Signal(c) = [c EXCEPT !.eligible = c.registered, !.tokens = n]
    BY <1>3 DEF Signal
  <2> HIDE DEF n
  <2>3. QED
    BY <1>1, <1>3, <2>1, <2>2 DEF ConditionType
<1>4. QED
  BY <1>2, <1>3

(* A broadcast keeps the registered set. *)
LEMMA BroadcastFacts ==
  ASSUME NEW c \in ConditionType(Threads)
  PROVE  /\ Broadcast(c) \in ConditionType(Threads)
         /\ Broadcast(c).registered = c.registered
         /\ c.eligible \subseteq c.registered =>
              Broadcast(c).eligible \subseteq c.registered
<1>1. Cardinality(c.registered) \in Nat
  BY ThreadFacts, FS_Subset, FS_CardinalityType DEF ConditionType
<1>2. c.tokens \in Nat /\ c.registered \in SUBSET Threads
  BY DEF ConditionType
<1>3. CASE c.registered = {}
  BY <1>3 DEF Broadcast
<1>4. CASE c.registered # {}
  <2> DEFINE n == Cardinality(c.registered)
             m == IF Fits(c) THEN c.tokens + n ELSE c.tokens
             f == Fits(c)
  <2>1. n \in Int /\ m \in Nat
    BY <1>1, <1>2
  <2>2. f \in BOOLEAN
    BY DEF Fits
  <2>3. Broadcast(c) = [c EXCEPT !.eligible = c.registered, !.tokens = m,
                                 !.remaining = n, !.broadcasting = f]
    BY <1>4 DEF Broadcast
  <2> HIDE DEF n, m, f
  <2>4. QED
    BY <1>2, <2>1, <2>2, <2>3 DEF ConditionType
<1>5. QED
  BY <1>3, <1>4

(* Leaving takes one thread out, and the token it consumes was there. *)
LEMMA LeaveFacts ==
  ASSUME NEW c \in ConditionType(Threads), NEW t \in Threads, CanLeave(c, t)
  PROVE  /\ Leave(c, t) \in ConditionType(Threads)
         /\ Leave(c, t).registered = c.registered \ {t}
         /\ Leave(c, t).eligible = c.eligible \ {t}
<1>1. /\ c.tokens \in Nat /\ c.tokens > 0 /\ c.remaining \in Int
      /\ c.registered \in SUBSET Threads /\ c.eligible \in SUBSET Threads
  BY DEF ConditionType, CanLeave
<1> DEFINE n == c.tokens - 1
           r == IF c.broadcasting THEN c.remaining - 1 ELSE c.remaining
           d == c.drained \/ (c.broadcasting /\ c.remaining = 1)
           g == c.registered \ {t}
           e == c.eligible \ {t}
<1>2. n \in Nat /\ r \in Int
  BY <1>1
<1>3. d \in BOOLEAN
  BY DEF ConditionType
<1>4. g \in SUBSET Threads /\ e \in SUBSET Threads
  BY <1>1
<1>5. Leave(c, t) = [c EXCEPT !.registered = g, !.eligible = e, !.tokens = n,
                              !.remaining = r, !.drained = d]
  BY DEF Leave
<1> HIDE DEF n, r, d
<1>6. QED
  BY <1>2, <1>3, <1>4, <1>5 DEF ConditionType

(* The end of a broadcast touches neither waiters nor tokens. *)
LEMMA EndBroadcastFacts ==
  ASSUME NEW c \in ConditionType(Threads)
  PROVE  /\ EndBroadcast(c) \in ConditionType(Threads)
         /\ EndBroadcast(c).registered = c.registered
         /\ EndBroadcast(c).eligible = c.eligible
         /\ EndBroadcast(c).tokens = c.tokens
BY DEF ConditionType, EndBroadcast

-----------------------------------------------------------------------------
(* What the building blocks of the actions do to the state. *)

CondType == [{"work", "idle"} -> ConditionType(Threads)]

(* A thread that goes to sleep is registered where its place says. *)
LEMMA SleepEffect ==
  ASSUME TypeOK, NEW t \in Threads, NEW p \in DOMAIN Sleeping, Sleep(t, p)
  PROVE  /\ cond' \in CondType
         /\ pc' = [pc EXCEPT ![t] = p]
         /\ cond'["work"].eligible = cond["work"].eligible
         /\ cond'["work"].tokens = cond["work"].tokens
         /\ p = "asleep" => cond'["work"].registered =
                              cond["work"].registered \union {t}
         /\ p # "asleep" => cond'["work"] = cond["work"]
<1> DEFINE on == Sleeping[p].on
<1>1. /\ on \in {"work", "idle"}
      /\ on = "work" <=> p = "asleep"
  BY SleepingTable
<1>2. cond[on] \in ConditionType(Threads)
  BY <1>1 DEF TypeOK
<1>3. /\ cond' = [cond EXCEPT ![on] = Register(cond[on], t)]
      /\ pc' = [pc EXCEPT ![t] = p]
  BY DEF Sleep, Goto
<1> HIDE DEF on
<1>4. QED
  BY <1>1, <1>2, <1>3, RegisterFacts DEF TypeOK, CondType

(* A broadcast leaves the registered threads where they are, and its caller
   either in the broadcast or past it. *)
LEMMA BroadcastEffect ==
  ASSUME TypeOK, NEW t \in Threads, NEW p \in DOMAIN Broadcasting,
         BroadcastAndUnlock(t, p)
  PROVE  /\ cond' \in CondType
         /\ \E q \in {p, Broadcasting[p].then} : pc' = [pc EXCEPT ![t] = q]
         /\ mutex' \in Threads \union {None}
         /\ cond'["work"].registered = cond["work"].registered
         /\ cond["work"].eligible \subseteq cond["work"].registered =>
              cond'["work"].eligible \subseteq cond["work"].registered
         /\ Broadcasting[p].on = "idle" => cond'["work"] = cond["work"]
<1> DEFINE on == Broadcasting[p].on
<1>1. on \in {"work", "idle"}
  BY BroadcastingTable
<1>2. cond[on] \in ConditionType(Threads)
  BY <1>1 DEF TypeOK
<1>3. /\ cond' = [cond EXCEPT ![on] = Broadcast(cond[on])]
      /\ \/ pc' = [pc EXCEPT ![t] = Broadcasting[p].then] /\ mutex' = None
         \/ pc' = [pc EXCEPT ![t] = p] /\ mutex' = t
  BY DEF BroadcastAndUnlock, Goto
<1> HIDE DEF on
<1>4. cond' \in CondType
  BY <1>1, <1>2, <1>3, BroadcastFacts DEF TypeOK, CondType
<1>5. /\ cond'["work"].registered = cond["work"].registered
      /\ cond["work"].eligible \subseteq cond["work"].registered =>
           cond'["work"].eligible \subseteq cond["work"].registered
      /\ on = "idle" => cond'["work"] = cond["work"]
  BY <1>1, <1>2, <1>3, BroadcastFacts DEF TypeOK
<1>6. QED
  BY <1>3, <1>4, <1>5 DEF on

(* The leader of a shutdown sleeps until the pool is drained, then stops it
   and broadcasts. *)
DrainsOrStops(c) ==
  /\ cond' \in CondType /\ mutex' \in Threads \union {None}
  /\ \E q \in {"draining", "stopBroadcast", "join"} : pc' = [pc EXCEPT ![c] = q]
  /\ stopping' \in BOOLEAN /\ (stopping => stopping')
  /\ stopping' => stopping \/ queue = <<>>
  /\ cond'["work"].registered = cond["work"].registered
  /\ cond["work"].eligible \subseteq cond["work"].registered =>
       cond'["work"].eligible \subseteq cond["work"].registered
  /\ queue # <<>> => cond'["work"] = cond["work"]

LEMMA DrainEffect ==
  ASSUME TypeOK, CountersExact, NEW c \in Clients, DrainThenStop(c)
  PROVE  DrainsOrStops(c)
<1>1. CASE Drained
  <2>1. queue = <<>>
    BY <1>1, EmptySeq DEF Drained, CountersExact, TypeOK
  <2>2. stopping' = TRUE /\ BroadcastAndUnlock(c, "stopBroadcast")
    BY <1>1 DEF DrainThenStop
  <2>3. QED
    BY <2>1, <2>2, BroadcastEffect, BroadcastingTable, ThreadFacts
    DEF DrainsOrStops
<1>2. CASE ~Drained
  <2>1. Sleep(c, "draining") /\ UNCHANGED <<stopping, mutex>>
    BY <1>2 DEF DrainThenStop
  <2>2. /\ cond' \in CondType
        /\ pc' = [pc EXCEPT ![c] = "draining"]
        /\ cond'["work"] = cond["work"]
    BY <2>1, SleepEffect, SleepingTable, ThreadFacts
  <2>3. QED
    BY <2>1, <2>2 DEF TypeOK, DrainsOrStops
<1>3. QED
  BY <1>1, <1>2

(* A woken worker is no longer registered on work_available; a woken client
   leaves that condition alone. *)
WokenWorker(w) ==
  /\ pc[w] = "asleep" /\ pc' = [pc EXCEPT ![w] = "lock"]
  /\ cond'["work"].registered = cond["work"].registered \ {w}
  /\ cond'["work"].eligible = cond["work"].eligible \ {w}

WokenClient(c) ==
  /\ \/ pc[c] = "draining" /\ pc' = [pc EXCEPT ![c] = "drain"]
     \/ /\ pc[c] \in {"waiting", "following"}
        /\ \E q \in {"wait", "follow"} : pc' = [pc EXCEPT ![c] = q]
  /\ cond'["work"] = cond["work"]

LEMMA WakeEffect ==
  ASSUME TypeOK, NEW t \in Threads, Wake(t)
  PROVE  /\ cond' \in CondType
         /\ \/ t \in Workers /\ WokenWorker(t)
            \/ t \in Clients /\ WokenClient(t)
<1> DEFINE on == Sleeping[pc[t]].on
<1>1. /\ pc[t] \in DOMAIN Sleeping
      /\ CanLeave(cond[on], t)
      /\ cond' = [cond EXCEPT ![on] = Leave(cond[on], t)]
      /\ pc' = [pc EXCEPT ![t] = Sleeping[pc[t]].then]
  BY DEF Wake, Goto
<1>2. /\ on \in {"work", "idle"}
      /\ on = "work" <=> pc[t] = "asleep"
  BY <1>1, SleepingTable
<1>3. cond[on] \in ConditionType(Threads)
  BY <1>2 DEF TypeOK
<1>4. \/ t \in Workers /\ pc[t] = "asleep"
      \/ t \in Clients /\ pc[t] \in {"waiting", "draining", "following"}
  BY <1>1, SleepingTable, ThreadFacts
  DEF TypeOK, Threads, WorkerPlaces, ClientPlaces
<1> HIDE DEF on
<1>5. cond' \in CondType
  BY <1>1, <1>2, <1>3, LeaveFacts DEF TypeOK, CondType
<1>6. CASE t \in Workers /\ pc[t] = "asleep"
  <2>1. /\ cond'["work"] = Leave(cond["work"], t)
        /\ cond["work"] \in ConditionType(Threads)
        /\ CanLeave(cond["work"], t)
    BY <1>1, <1>2, <1>3, <1>6 DEF TypeOK
  <2>2. pc' = [pc EXCEPT ![t] = "lock"]
    BY <1>1, <1>6, SleepingTable
  <2>3. QED
    BY <1>5, <1>6, <2>1, <2>2, LeaveFacts DEF WokenWorker
<1>7. CASE t \in Clients /\ pc[t] \in {"waiting", "draining", "following"}
  <2>1. cond'["work"] = cond["work"]
    BY <1>1, <1>2, <1>7 DEF TypeOK
  <2>2. QED
    BY <1>1, <1>5, <1>7, <2>1, SleepingTable DEF WokenClient
<1>8. QED
  BY <1>4, <1>6, <1>7

(* A broadcast that ends moves its caller on and leaves the waiters of
   work_available and their tokens alone. *)
PastBroadcast(t) ==
  \/ t \in Workers /\ pc[t] = "idleBroadcast" /\ pc' = [pc EXCEPT ![t] = "lock"]
  \/ /\ t \in Clients
     /\ pc[t] \in {"stopBroadcast", "joinedBroadcast", "abandonBroadcast"}
     /\ \E q \in {"join", "outside", "abandonJoin"} : pc' = [pc EXCEPT ![t] = q]

LEMMA ReturnEffect ==
  ASSUME TypeOK, NEW t \in Threads, BroadcastReturns(t)
  PROVE  /\ cond' \in CondType
         /\ PastBroadcast(t)
         /\ cond'["work"].registered = cond["work"].registered
         /\ cond'["work"].eligible = cond["work"].eligible
         /\ cond'["work"].tokens = cond["work"].tokens
<1> DEFINE on == Broadcasting[pc[t]].on
<1>1. /\ pc[t] \in DOMAIN Broadcasting
      /\ cond' = [cond EXCEPT ![on] = EndBroadcast(cond[on])]
      /\ pc' = [pc EXCEPT ![t] = Broadcasting[pc[t]].then]
  BY DEF BroadcastReturns, Goto
<1>2. on \in {"work", "idle"}
  BY <1>1, BroadcastingTable
<1>3. cond[on] \in ConditionType(Threads)
  BY <1>2 DEF TypeOK
<1>4. \/ t \in Workers /\ pc[t] = "idleBroadcast"
      \/ t \in Clients /\ pc[t] \in {"stopBroadcast", "joinedBroadcast",
                                     "abandonBroadcast"}
  BY <1>1, BroadcastingTable, ThreadFacts
  DEF TypeOK, Threads, WorkerPlaces, ClientPlaces
<1> HIDE DEF on
<1>5. /\ cond' \in CondType
      /\ cond'["work"].registered = cond["work"].registered
      /\ cond'["work"].eligible = cond["work"].eligible
      /\ cond'["work"].tokens = cond["work"].tokens
  BY <1>1, <1>2, <1>3, EndBroadcastFacts DEF TypeOK, CondType
<1>6. QED
  BY <1>1, <1>4, <1>5, BroadcastingTable DEF PastBroadcast

-----------------------------------------------------------------------------
(* Each action preserves the invariant. *)

(* The places of the two kinds of threads, apart from the rest of TypeOK. *)
PcOK ==
  /\ pc \in [Threads -> WorkerPlaces \union ClientPlaces]
  /\ \A w \in Workers : pc[w] \in WorkerPlaces
  /\ \A c \in Clients : pc[c] \in ClientPlaces

(* Moving one thread to a place of its kind keeps them. *)
LEMMA MoveType ==
  ASSUME TypeOK, NEW t \in Threads, NEW q,
         t \in Workers => q \in WorkerPlaces,
         t \in Clients => q \in ClientPlaces,
         pc' = [pc EXCEPT ![t] = q]
  PROVE  PcOK'
BY ThreadFacts DEF TypeOK, PcOK, Threads

(* create obtains one of the five resources at a time. *)
LEMMA ResourceFacts ==
  ASSUME held \subseteq AllResources, Cardinality(held) < 5
  PROVE  Resources[Cardinality(held) + 1] \in AllResources
<1>1. AllResources = {Resources[1], Resources[2], Resources[3], Resources[4],
                      Resources[5]}
  BY DEF AllResources
<1>2. IsFiniteSet(AllResources)
  <2>1. IsFiniteSet({Resources[1]})
    BY FS_Singleton
  <2>2. IsFiniteSet({Resources[1]} \union {Resources[2]})
    BY <2>1, FS_AddElement
  <2>3. IsFiniteSet({Resources[1]} \union {Resources[2]}
                      \union {Resources[3]})
    BY <2>2, FS_AddElement
  <2>4. IsFiniteSet({Resources[1]} \union {Resources[2]}
                      \union {Resources[3]} \union {Resources[4]})
    BY <2>3, FS_AddElement
  <2>5. IsFiniteSet({Resources[1]} \union {Resources[2]}
                      \union {Resources[3]} \union {Resources[4]}
                      \union {Resources[5]})
    BY <2>4, FS_AddElement
  <2>6. AllResources = {Resources[1]} \union {Resources[2]}
                         \union {Resources[3]} \union {Resources[4]}
                         \union {Resources[5]}
    BY <1>1
  <2>7. QED
    BY <2>5, <2>6
<1>3. Cardinality(held) \in Nat
  BY <1>2, FS_Subset, FS_CardinalityType
<1>4. QED
  BY <1>3 DEF AllResources

(* Acquiring a resource. *)
LEMMA AcquireInv ==
  ASSUME IInv, Acquire
  PROVE  IInv'
<1>1. TypeOK'
  <2>1. Resources[Cardinality(held) + 1] \in AllResources
    BY ResourceFacts DEF IInv, TypeOK, Acquire
  <2>2. held' \subseteq AllResources /\ accepting' \in BOOLEAN
    BY <2>1 DEF IInv, TypeOK, Acquire
  <2>3. QED
    BY <2>2 DEF IInv, TypeOK, items, flags, birth, history, Acquire
<1>2. CountersExact'
  <2>1. Busy' = Busy
    BY DEF Busy, Acquire
  <2>2. QED
    BY <2>1 DEF IInv, CountersExact, items, Acquire
<1>3. Lifecycle'
  BY DEF IInv, Lifecycle, items, flags, Acquire
<1>4. Registration'
  BY DEF IInv, Registration, Acquire
<1>5. NoLostWork'
  BY ThreadFacts DEF IInv, Lifecycle, NoLostWork, Acquire
<1>6. QED
  BY <1>1, <1>2, <1>3, <1>4, <1>5 DEF IInv

(* Giving up on a resource. *)
LEMMA AcquireFailsInv ==
  ASSUME IInv, AcquireFails
  PROVE  IInv'
<1>1. TypeOK'
  BY ThreadFacts
  DEF IInv, TypeOK, ClientPlaces, items, flags, birth, history, AcquireFails,
      Goto
<1>2. CountersExact'
  <2>1. Busy' = Busy
    BY DEF Busy, AcquireFails, Goto
  <2>2. QED
    BY <2>1 DEF IInv, CountersExact, items, AcquireFails
<1>3. Lifecycle'
  BY DEF IInv, Lifecycle, items, flags, AcquireFails, Goto
<1>4. Registration'
  BY DEF IInv, Registration, AcquireFails, Goto
<1>5. NoLostWork'
  BY ThreadFacts DEF IInv, Lifecycle, NoLostWork, AcquireFails
<1>6. QED
  BY <1>1, <1>2, <1>3, <1>4, <1>5 DEF IInv

(* Starting a worker. *)
LEMMA StartWorkerInv ==
  ASSUME IInv, StartWorker
  PROVE  IInv'
<1>0. /\ created < WorkerCount /\ created + 1 \in Workers
      /\ created' = created + 1 /\ pc[Owner] = "building"
      /\ \A w \in Workers : pc'[w] = IF w = created + 1 THEN "lock" ELSE pc[w]
      /\ \A c \in Clients \ {Owner} : pc'[c] = pc[c]
      /\ pc'[Owner] = IF created + 1 = WorkerCount THEN "outside"
                                                  ELSE "building"
      /\ PcOK'
  <2>1. created < WorkerCount /\ created \in Nat
    BY DEF IInv, TypeOK, Lifecycle, StartWorker
  <2>2. created + 1 \in Workers
    BY <2>1, ThreadFacts DEF Workers
  <2>3. /\ pc \in [Threads -> WorkerPlaces \union ClientPlaces]
        /\ pc[Owner] = "building" /\ created' = created + 1
        /\ pc' = [pc EXCEPT ![created + 1] = "lock",
                            ![Owner] = IF created + 1 = WorkerCount
                                         THEN "outside" ELSE pc[Owner]]
    BY ThreadFacts, <2>2 DEF IInv, TypeOK, StartWorker
  <2>4. /\ \A w \in Workers : pc[w] \in WorkerPlaces
        /\ \A c \in Clients : pc[c] \in ClientPlaces
    BY DEF IInv, TypeOK
  <2>5. /\ "lock" \in WorkerPlaces
        /\ "outside" \in ClientPlaces /\ "building" \in ClientPlaces
    BY DEF WorkerPlaces, ClientPlaces
  <2>6. QED
    BY <2>1, <2>2, <2>3, <2>4, <2>5, ThreadFacts DEF PcOK
<1>1. TypeOK'
  <2>1. created' \in 0..WorkerCount
    BY <1>0, ThreadFacts DEF Workers
  <2>2. QED
    BY <1>0, <2>1 DEF IInv, TypeOK, PcOK, items, flags, history, StartWorker
<1>2. CountersExact'
  <2>1. Busy' = Busy
    BY <1>0, ThreadFacts DEF IInv, TypeOK, Lifecycle, Busy, StartWorker
  <2>2. QED
    BY <2>1 DEF IInv, CountersExact, items, StartWorker
<1>3. Lifecycle'
  <2>1. /\ \A w \in Workers : pc'[w] = "unborn" <=> w > created'
        /\ pc'[Owner] = "building" => created' < WorkerCount
        /\ pc'[Owner] \in {"building", "outside"}
    BY <1>0, ThreadFacts DEF IInv, TypeOK, Lifecycle, Workers
  <2>2. UNCHANGED <<queue, accepting, stopping, joining>>
    BY DEF items, flags, StartWorker
  <2>3. QED
    BY <1>0, <2>1, <2>2, ThreadFacts DEF IInv, Lifecycle
<1>4. Registration'
  BY <1>0, ThreadFacts DEF IInv, TypeOK, Lifecycle, Registration, StartWorker
<1>5. NoLostWork'
  BY <1>0 DEF IInv, Lifecycle, NoLostWork, items, StartWorker
<1>6. QED
  BY <1>1, <1>2, <1>3, <1>4, <1>5 DEF IInv

(* Failing to start a worker. *)
LEMMA StartWorkerFailsInv ==
  ASSUME IInv, StartWorkerFails
  PROVE  IInv'
<1>1. TypeOK'
  BY ThreadFacts
  DEF IInv, TypeOK, ClientPlaces, items, flags, birth, history,
      StartWorkerFails, Goto
<1>2. CountersExact'
  <2>1. Busy' = Busy
    BY DEF Busy, StartWorkerFails, Goto
  <2>2. QED
    BY <2>1 DEF IInv, CountersExact, items, StartWorkerFails
<1>3. Lifecycle'
  BY DEF IInv, Lifecycle, items, flags, birth, StartWorkerFails, Goto
<1>4. Registration'
  BY DEF IInv, Registration, StartWorkerFails, Goto
<1>5. NoLostWork'
  BY DEF IInv, Lifecycle, NoLostWork, items, StartWorkerFails
<1>6. QED
  BY <1>1, <1>2, <1>3, <1>4, <1>5 DEF IInv

(* Stopping the workers of an incomplete pool. *)
LEMMA AbandonInv ==
  ASSUME IInv, Abandon
  PROVE  IInv'
<1>0. /\ cond' \in CondType /\ mutex' \in Threads \union {None}
      /\ \E q \in {"abandonBroadcast", "abandonJoin"} :
           pc' = [pc EXCEPT ![Owner] = q]
      /\ cond'["work"].registered = cond["work"].registered
      /\ cond["work"].eligible \subseteq cond["work"].registered =>
           cond'["work"].eligible \subseteq cond["work"].registered
  BY BroadcastEffect, BroadcastingTable, ThreadFacts
  DEF IInv, Abandon
<1>1. TypeOK'
  <2>1. PcOK'
    BY <1>0, MoveType, ThreadFacts
    DEF IInv, WorkerPlaces, ClientPlaces
  <2>2. QED
    BY <1>0, <2>1
    DEF IInv, TypeOK, PcOK, CondType, items, flags, birth, history, Abandon
<1>2. CountersExact'
  <2>1. Busy' = Busy
    BY <1>0 DEF Busy, Abandon
  <2>2. QED
    BY <2>1 DEF IInv, CountersExact, items, Abandon
<1>3. Lifecycle'
  BY <1>0, ThreadFacts
  DEF IInv, TypeOK, Lifecycle, items, flags, birth, Abandon
<1>4. Registration'
  BY <1>0 DEF IInv, Registration, Abandon
<1>5. NoLostWork'
  BY <1>0 DEF IInv, Lifecycle, NoLostWork, items, Abandon
<1>6. QED
  BY <1>1, <1>2, <1>3, <1>4, <1>5 DEF IInv

(* Freeing an incomplete pool. *)
LEMMA AbandonFreeInv ==
  ASSUME IInv, AbandonFree
  PROVE  IInv'
<1>1. TypeOK'
  BY ThreadFacts
  DEF IInv, TypeOK, ClientPlaces, items, flags, birth, history, AbandonFree,
      Goto
<1>2. CountersExact'
  <2>1. Busy' = Busy
    BY DEF Busy, AbandonFree, Goto
  <2>2. QED
    BY <2>1 DEF IInv, CountersExact, items, AbandonFree
<1>3. Lifecycle'
  BY DEF IInv, Lifecycle, items, flags, AbandonFree, Goto
<1>4. Registration'
  BY DEF IInv, Registration, AbandonFree, Goto
<1>5. NoLostWork'
  BY DEF IInv, TypeOK, Lifecycle, NoLostWork, Attending, Woken, items, birth,
         AbandonFree, Goto
<1>6. QED
  BY <1>1, <1>2, <1>3, <1>4, <1>5 DEF IInv

(* Joining a worker. *)
LEMMA JoinNextInv ==
  ASSUME IInv, NEW c \in Clients, JoinNext(c)
  PROVE  IInv'
<1>1. TypeOK'
  <2>1. index[c] + 1 \in Workers /\ index[c] + 1 \in 0..WorkerCount
    BY ThreadFacts DEF IInv, TypeOK, Workers, JoinNext
  <2>2. QED
    BY <2>1 DEF IInv, TypeOK, items, flags, birth, history, JoinNext
<1>2. CountersExact'
  <2>1. Busy' = Busy
    BY DEF Busy, JoinNext
  <2>2. QED
    BY <2>1 DEF IInv, CountersExact, items, JoinNext
<1>3. Lifecycle'
  BY DEF IInv, Lifecycle, items, flags, birth, JoinNext
<1>4. Registration'
  BY DEF IInv, Registration, JoinNext
<1>5. NoLostWork'
  BY DEF IInv, TypeOK, Lifecycle, NoLostWork, Attending, Woken, items, birth,
         JoinNext
<1>6. QED
  BY <1>1, <1>2, <1>3, <1>4, <1>5 DEF IInv

(* Taking an item. *)
LEMMA TakeInv ==
  ASSUME IInv, NEW w \in Workers, Take(w)
  PROVE  IInv'
<1>1. TypeOK'
  BY ThreadFacts
  DEF IInv, TypeOK, Lifecycle, CountersExact, WorkerPlaces, ClientPlaces,
      CondType, items, flags, birth, history, Take, Goto
<1>2. CountersExact'
  <2>1. Busy' = Busy \union {w} /\ w \notin Busy
    BY ThreadFacts DEF IInv, TypeOK, Busy, Take, Goto
  <2>2. IsFiniteSet(Busy)
    BY ThreadFacts, FS_Subset DEF Busy
  <2>3. Cardinality(Busy') = Cardinality(Busy) + 1
    BY <2>1, <2>2, FS_AddElement
  <2>4. Len(Tail(queue)) = Len(queue) - 1
    BY DEF IInv, TypeOK, Take
  <2>5. QED
    BY <2>3, <2>4 DEF IInv, CountersExact, Take
<1>3. Lifecycle'
  BY DEF IInv, Lifecycle, items, flags, birth, Take, Goto
<1>4. Registration'
  BY DEF IInv, Registration, Take, Goto
<1>5. NoLostWork'
  BY DEF IInv, Lifecycle, Registration, NoLostWork, Attending, items, birth,
         Take, Goto
<1>6. QED
  BY <1>1, <1>2, <1>3, <1>4, <1>5 DEF IInv

(* Going to sleep without work. *)
LEMMA RestInv ==
  ASSUME IInv, NEW w \in Workers, Rest(w)
  PROVE  IInv'
<1>0. /\ cond' \in CondType
      /\ pc' = [pc EXCEPT ![w] = "asleep"]
      /\ cond'["work"].eligible = cond["work"].eligible
      /\ cond'["work"].registered = cond["work"].registered \union {w}
  BY SleepEffect, SleepingTable, ThreadFacts
  DEF IInv, Rest
<1>1. TypeOK'
  BY <1>0, ThreadFacts
  DEF IInv, TypeOK, WorkerPlaces, ClientPlaces, CondType, items, flags, birth,
      history, Rest
<1>2. CountersExact'
  <2>1. Busy' = Busy
    BY <1>0 DEF Busy, Rest
  <2>2. QED
    BY <2>1 DEF IInv, CountersExact, items, Rest
<1>3. Lifecycle'
  BY <1>0 DEF IInv, Lifecycle, items, flags, birth, Rest
<1>4. Registration'
  BY <1>0, ThreadFacts DEF IInv, TypeOK, Registration, Rest
<1>5. NoLostWork'
  BY <1>0 DEF IInv, Lifecycle, NoLostWork, items, Rest
<1>6. QED
  BY <1>1, <1>2, <1>3, <1>4, <1>5 DEF IInv

(* A worker returning. *)
LEMMA ExitInv ==
  ASSUME IInv, NEW w \in Workers, Exit(w)
  PROVE  IInv'
<1>1. TypeOK'
  BY ThreadFacts
  DEF IInv, TypeOK, WorkerPlaces, items, flags, birth, history, Exit, Goto
<1>2. CountersExact'
  <2>1. Busy' = Busy
    BY DEF Busy, Exit, Goto
  <2>2. QED
    BY <2>1 DEF IInv, CountersExact, items, Exit
<1>3. Lifecycle'
  BY DEF IInv, Lifecycle, items, flags, birth, Exit, Goto
<1>4. Registration'
  BY DEF IInv, Registration, Exit, Goto
<1>5. NoLostWork'
  BY DEF IInv, Lifecycle, NoLostWork, items, Exit
<1>6. QED
  BY <1>1, <1>2, <1>3, <1>4, <1>5 DEF IInv

(* A task returning. *)
LEMMA RunInv ==
  ASSUME IInv, NEW w \in Workers, Run(w)
  PROVE  IInv'
<1>1. TypeOK'
  BY ThreadFacts
  DEF IInv, TypeOK, WorkerPlaces, items, flags, birth, history, Run, Goto
<1>2. CountersExact'
  <2>1. Busy' = Busy
    BY DEF Busy, Run, Goto
  <2>2. QED
    BY <2>1 DEF IInv, CountersExact, items, Run
<1>3. Lifecycle'
  BY DEF IInv, Lifecycle, items, flags, birth, Run, Goto
<1>4. Registration'
  BY DEF IInv, Registration, Run, Goto
<1>5. NoLostWork'
  BY DEF IInv, Lifecycle, Registration, NoLostWork, Attending, items, birth,
         Run, Goto
<1>6. QED
  BY <1>1, <1>2, <1>3, <1>4, <1>5 DEF IInv

(* Giving an item up. *)
LEMMA FinishInv ==
  ASSUME IInv, NEW w \in Workers, Finish(w)
  PROVE  IInv'
<1>0. /\ cond' \in CondType /\ mutex' \in Threads \union {None}
      /\ \E q \in {"idleBroadcast", "lock"} : pc' = [pc EXCEPT ![w] = q]
      /\ cond'["work"] = cond["work"]
  <2>1. CASE queued = 0 /\ active = 1
    BY <2>1, BroadcastEffect, BroadcastingTable, ThreadFacts
    DEF IInv, Finish
  <2>2. CASE ~(queued = 0 /\ active = 1)
    BY <2>2 DEF IInv, TypeOK, CondType, Finish, Goto
  <2>3. QED
    BY <2>1, <2>2
<1>a. /\ Busy' = Busy \ {w}
      /\ active = Cardinality(Busy) /\ active >= 1 /\ active \in Nat
      /\ Cardinality(Busy') = active - 1
  <2>1. w \in Busy
    BY DEF Busy, Finish
  <2>2. IsFiniteSet(Busy)
    BY ThreadFacts, FS_Subset DEF Busy
  <2>3. Busy' = Busy \ {w}
    BY <1>0, ThreadFacts DEF IInv, TypeOK, Busy
  <2>4. /\ Cardinality(Busy \ {w}) = Cardinality(Busy) - 1
        /\ Cardinality(Busy \ {w}) \in Nat /\ Cardinality(Busy) \in Nat
    BY <2>1, <2>2, FS_RemoveElement, FS_CardinalityType, FS_Subset
  <2>5. QED
    BY <2>3, <2>4 DEF IInv, CountersExact
<1>1. TypeOK'
  <2>1. PcOK'
    BY <1>0, <1>a, MoveType, ThreadFacts
    DEF IInv, WorkerPlaces, ClientPlaces
  <2>2. QED
    BY <1>0, <1>a, <2>1
    DEF IInv, TypeOK, PcOK, CondType, items, flags, birth, history, Finish
<1>2. CountersExact'
  BY <1>a DEF IInv, CountersExact, items, Finish
<1>3. Lifecycle'
  BY <1>0 DEF IInv, Lifecycle, items, flags, birth, Finish
<1>4. Registration'
  BY <1>0 DEF IInv, Registration, Finish
<1>5. NoLostWork'
  BY <1>0
  DEF IInv, Lifecycle, Registration, NoLostWork, Attending, items, birth,
      Finish
<1>6. QED
  BY <1>1, <1>2, <1>3, <1>4, <1>5 DEF IInv

(* Leaving a condition. *)
LEMMA WakeInv ==
  ASSUME IInv, NEW t \in Threads, Wake(t)
  PROVE  IInv'
<1>0. /\ cond' \in CondType
      /\ (t \in Workers /\ WokenWorker(t)) \/ (t \in Clients /\ WokenClient(t))
  BY WakeEffect
  DEF IInv
<1>1. TypeOK'
  <2>1. PcOK'
    BY <1>0, MoveType, ThreadFacts
    DEF IInv, WorkerPlaces, ClientPlaces, WokenWorker, WokenClient
  <2>2. QED
    BY <1>0, <2>1
    DEF IInv, TypeOK, PcOK, CondType, items, flags, birth, history, Wake
<1>2. CountersExact'
  <2>1. Busy' = Busy
    BY <1>0, ThreadFacts DEF IInv, TypeOK, Busy, WokenWorker, WokenClient
  <2>2. QED
    BY <2>1 DEF IInv, CountersExact, items, Wake
<1>3. Lifecycle'
  BY <1>0, ThreadFacts
  DEF IInv, TypeOK, Lifecycle, items, flags, birth, Wake, WokenWorker,
      WokenClient
<1>4. Registration'
  BY <1>0, ThreadFacts
  DEF IInv, TypeOK, Registration, Wake, WokenWorker, WokenClient
<1>5. NoLostWork'
  BY <1>0, ThreadFacts
  DEF IInv, TypeOK, Lifecycle, NoLostWork, Attending, Woken, items, birth,
      Wake, WokenWorker, WokenClient
<1>6. QED
  BY <1>1, <1>2, <1>3, <1>4, <1>5 DEF IInv

(* The end of a broadcast. *)
LEMMA BroadcastReturnsInv ==
  ASSUME IInv, NEW t \in Threads, BroadcastReturns(t)
  PROVE  IInv'
<1>0. /\ cond' \in CondType /\ PastBroadcast(t)
      /\ cond'["work"].registered = cond["work"].registered
      /\ cond'["work"].eligible = cond["work"].eligible
      /\ cond'["work"].tokens = cond["work"].tokens
  BY ReturnEffect
  DEF IInv
<1>1. TypeOK'
  <2>1. PcOK'
    BY <1>0, MoveType, ThreadFacts
    DEF IInv, WorkerPlaces, ClientPlaces, PastBroadcast
  <2>2. QED
    BY <1>0, <2>1
    DEF IInv, TypeOK, PcOK, CondType, items, flags, birth, history,
        BroadcastReturns
<1>2. CountersExact'
  <2>1. Busy' = Busy
    BY <1>0, ThreadFacts DEF IInv, TypeOK, Busy, PastBroadcast
  <2>2. QED
    BY <2>1 DEF IInv, CountersExact, items, BroadcastReturns
<1>3. Lifecycle'
  BY <1>0, ThreadFacts
  DEF IInv, TypeOK, Lifecycle, items, flags, birth, BroadcastReturns,
      PastBroadcast
<1>4. Registration'
  BY <1>0, ThreadFacts DEF IInv, TypeOK, Registration, PastBroadcast
<1>5. NoLostWork'
  BY <1>0, ThreadFacts
  DEF IInv, TypeOK, Lifecycle, NoLostWork, Attending, Woken, items, birth,
      BroadcastReturns, PastBroadcast
<1>6. QED
  BY <1>1, <1>2, <1>3, <1>4, <1>5 DEF IInv

(* Submitting a task. *)
LEMMA SubmitInv ==
  ASSUME IInv, NEW t \in Threads, NEW k \in Tasks, Submit(t, k)
  PROVE  IInv'
<1> DEFINE c == cond["work"]
<1>0. c \in ConditionType(Threads) /\ cond \in CondType
  BY DEF IInv, TypeOK, CondType
<1>a. \/ /\ accepting
         /\ queue' = Append(queue, k) /\ queued' = queued + 1
         /\ cond' = [cond EXCEPT !["work"] = Signal(c)]
         /\ status' = [status EXCEPT ![k] = "queued"]
      \/ /\ queue' = queue /\ queued' = queued /\ cond' = cond
         /\ status' = [status EXCEPT ![k] = "rejected"]
  BY DEF Submit
<1>b. UNCHANGED <<active, flags, mutex, birth, index, pc, job, owed, joins>>
  BY DEF Submit
<1>c. created = WorkerCount
  BY ThreadFacts
  DEF IInv, TypeOK, Lifecycle, items, flags, Submit, CanSubmit, Usable
<1>d. /\ cond' \in CondType
      /\ cond'["work"].registered = c.registered
      /\ c.eligible \subseteq c.registered =>
           cond'["work"].eligible \subseteq c.registered
      /\ \/ cond'["work"] = c /\ queue' = queue
         \/ /\ accepting
            /\ c.registered # {} => Woken'
  <2>1. CASE cond' = cond /\ queue' = queue
    BY <1>0, <2>1
  <2>2. CASE accepting /\ cond' = [cond EXCEPT !["work"] = Signal(c)]
    <3>1. cond'["work"] = Signal(c) /\ Signal(c) \in ConditionType(Threads)
      BY <1>0, <2>2, SignalFacts DEF CondType
    <3>2. cond' \in CondType
      BY <1>0, <2>2, <3>1 DEF CondType
    <3>3. QED
      BY <1>0, <2>2, <3>1, <3>2, SignalFacts DEF Woken
  <2>3. QED
    BY <1>a, <2>1, <2>2
<1> HIDE DEF c
<1>1. TypeOK'
  <2>1. queue' \in Seq(Tasks) /\ queued' \in Nat
    <3>1. queue \in Seq(Tasks) /\ queued \in Nat
      BY DEF IInv, TypeOK
    <3>2. Append(queue, k) \in Seq(Tasks)
      BY <3>1, AppendProperties
    <3>3. QED
      BY <1>a, <3>1, <3>2
  <2>2. status' \in [Tasks -> {"new", "queued", "running", "done", "rejected"}]
    BY <1>a DEF IInv, TypeOK
  <2>3. QED
    BY <1>b, <1>d, <2>1, <2>2 DEF IInv, TypeOK, CondType, flags, birth
<1>2. CountersExact'
  <2>1. Busy' = Busy
    BY <1>b DEF Busy
  <2>2. Len(Append(queue, k)) = Len(queue) + 1
    BY DEF IInv, TypeOK
  <2>3. QED
    BY <1>a, <1>b, <2>1, <2>2 DEF IInv, CountersExact
<1>3. Lifecycle'
  BY <1>a, <1>b, <1>c, ThreadFacts DEF IInv, Lifecycle, flags, birth
<1>4. Registration'
  BY <1>b, <1>d DEF IInv, Registration, c
<1>5. NoLostWork'
  <2>1. CASE cond'["work"] = c /\ queue' = queue
    BY <1>b, <2>1
    DEF IInv, TypeOK, Lifecycle, NoLostWork, Attending, Woken, items, birth, c
  <2>2. CASE accepting /\ (c.registered # {} => Woken')
    <3>1. 1 \in Workers /\ pc[1] \in WorkerPlaces
      BY ThreadFacts DEF IInv, TypeOK, Workers
    <3>2. pc[1] # "unborn"
      BY <1>c, <3>1, ThreadFacts DEF IInv, Lifecycle
    <3>3. pc[1] # "exited"
      BY <2>2, <3>1 DEF IInv, Lifecycle
    <3>4. CASE pc[1] = "asleep"
      BY <2>2, <3>1, <3>4 DEF IInv, Registration, NoLostWork, c
    <3>5. CASE pc[1] # "asleep"
      BY <1>b, <3>1, <3>2, <3>3, <3>5 DEF NoLostWork, Attending, WorkerPlaces
    <3>6. QED
      BY <3>4, <3>5
  <2>3. QED
    BY <1>d, <2>1, <2>2
<1>6. QED
  BY <1>1, <1>2, <1>3, <1>4, <1>5 DEF IInv

(* Entering wait or shutdown. *)
LEMMA CallInv ==
  ASSUME IInv, NEW c \in Clients, Call(c)
  PROVE  IInv'
<1>1. TypeOK'
  <2>1. PcOK'
    <3>1. \E q \in {"wait", "enter"} : pc' = [pc EXCEPT ![c] = q]
      BY DEF Call, Goto
    <3>2. QED
      BY <3>1, MoveType, ThreadFacts DEF IInv, ClientPlaces
  <2>2. owed' \in [Clients -> SUBSET Tasks]
    BY DEF IInv, TypeOK, Call, Unfinished
  <2>3. QED
    BY <2>1, <2>2 DEF IInv, TypeOK, PcOK, items, flags, birth, Call
<1>2. CountersExact'
  <2>1. Busy' = Busy
    BY ThreadFacts DEF IInv, TypeOK, Busy, Call, Goto
  <2>2. QED
    BY <2>1 DEF IInv, CountersExact, items, Call
<1>3. Lifecycle'
  BY ThreadFacts
  DEF IInv, TypeOK, Lifecycle, items, flags, birth, Call, Usable, Goto
<1>4. Registration'
  BY ThreadFacts DEF IInv, TypeOK, Registration, Call, Goto
<1>5. NoLostWork'
  BY ThreadFacts
  DEF IInv, TypeOK, Lifecycle, NoLostWork, Attending, Woken, items, birth,
      Call, Goto
<1>6. QED
  BY <1>1, <1>2, <1>3, <1>4, <1>5 DEF IInv

(* One round of wait. *)
LEMMA WaitStepInv ==
  ASSUME IInv, NEW c \in Clients, WaitStep(c)
  PROVE  IInv'
<1>0. /\ cond' \in CondType /\ cond'["work"] = cond["work"]
      /\ \E q \in {"outside", "waiting"} : pc' = [pc EXCEPT ![c] = q]
  <2>1. CASE Drained
    BY <2>1 DEF IInv, TypeOK, CondType, WaitStep, Goto
  <2>2. CASE ~Drained
    BY <2>2, SleepEffect, SleepingTable, ThreadFacts DEF IInv, WaitStep
  <2>3. QED
    BY <2>1, <2>2
<1>1. TypeOK'
  <2>1. PcOK'
    BY <1>0, MoveType, ThreadFacts
    DEF IInv, WorkerPlaces, ClientPlaces
  <2>2. QED
    BY <1>0, <2>1
    DEF IInv, TypeOK, PcOK, CondType, items, flags, birth, history, WaitStep
<1>2. CountersExact'
  <2>1. Busy' = Busy
    BY <1>0 DEF Busy, WaitStep
  <2>2. QED
    BY <2>1 DEF IInv, CountersExact, items, WaitStep
<1>3. Lifecycle'
  BY <1>0 DEF IInv, Lifecycle, items, flags, birth, WaitStep
<1>4. Registration'
  BY <1>0 DEF IInv, Registration, WaitStep
<1>5. NoLostWork'
  BY <1>0
  DEF IInv, TypeOK, Lifecycle, NoLostWork, Attending, Woken, items, birth,
      WaitStep
<1>6. QED
  BY <1>1, <1>2, <1>3, <1>4, <1>5 DEF IInv

(* The first call of shutdown. *)
LEMMA ShutdownLeadInv ==
  ASSUME IInv, NEW c \in Clients, ShutdownLead(c)
  PROVE  IInv'
<1>0. DrainsOrStops(c)
  BY DrainEffect
  DEF IInv, ShutdownLead
<1>1. TypeOK'
  <2>1. PcOK'
    BY <1>0, MoveType, ThreadFacts
    DEF IInv, WorkerPlaces, ClientPlaces, DrainsOrStops
  <2>2. QED
    BY <1>0, <2>1
    DEF IInv, TypeOK, PcOK, CondType, items, flags, birth, history,
        ShutdownLead, DrainsOrStops
<1>2. CountersExact'
  <2>1. Busy' = Busy
    BY <1>0, ThreadFacts DEF Busy, DrainsOrStops
  <2>2. QED
    BY <2>1 DEF IInv, CountersExact, items, ShutdownLead
<1>3. Lifecycle'
  BY <1>0 DEF IInv, Lifecycle, items, flags, birth, ShutdownLead, DrainsOrStops
<1>4. Registration'
  BY <1>0, ThreadFacts DEF IInv, Registration, DrainsOrStops
<1>5. NoLostWork'
  BY <1>0
  DEF IInv, TypeOK, Lifecycle, NoLostWork, Attending, Woken, items, birth,
      ShutdownLead, DrainsOrStops
<1>6. QED
  BY <1>1, <1>2, <1>3, <1>4, <1>5 DEF IInv

(* A later call of shutdown. *)
LEMMA ShutdownFollowInv ==
  ASSUME IInv, NEW c \in Clients, ShutdownFollow(c)
  PROVE  IInv'
<1>0. /\ cond' \in CondType /\ cond'["work"] = cond["work"]
      /\ \E q \in {"outside", "following"} : pc' = [pc EXCEPT ![c] = q]
  <2>1. CASE joined
    BY <2>1 DEF IInv, TypeOK, CondType, ShutdownFollow, Goto
  <2>2. CASE ~joined
    BY <2>2, SleepEffect, SleepingTable, ThreadFacts DEF IInv, ShutdownFollow
  <2>3. QED
    BY <2>1, <2>2
<1>1. TypeOK'
  <2>1. PcOK'
    BY <1>0, MoveType, ThreadFacts
    DEF IInv, WorkerPlaces, ClientPlaces
  <2>2. QED
    BY <1>0, <2>1
    DEF IInv, TypeOK, PcOK, CondType, items, flags, birth, history,
        ShutdownFollow
<1>2. CountersExact'
  <2>1. Busy' = Busy
    BY <1>0 DEF Busy, ShutdownFollow
  <2>2. QED
    BY <2>1 DEF IInv, CountersExact, items, ShutdownFollow
<1>3. Lifecycle'
  BY <1>0 DEF IInv, Lifecycle, items, flags, birth, ShutdownFollow
<1>4. Registration'
  BY <1>0 DEF IInv, Registration, ShutdownFollow
<1>5. NoLostWork'
  BY <1>0
  DEF IInv, TypeOK, Lifecycle, NoLostWork, Attending, Woken, items, birth,
      ShutdownFollow
<1>6. QED
  BY <1>1, <1>2, <1>3, <1>4, <1>5 DEF IInv

(* The leader's next look at the counters. *)
LEMMA ShutdownDrainInv ==
  ASSUME IInv, NEW c \in Clients, ShutdownDrain(c)
  PROVE  IInv'
<1>0. DrainsOrStops(c)
  BY DrainEffect
  DEF IInv, ShutdownDrain
<1>1. TypeOK'
  <2>1. PcOK'
    BY <1>0, MoveType, ThreadFacts
    DEF IInv, WorkerPlaces, ClientPlaces, DrainsOrStops
  <2>2. QED
    BY <1>0, <2>1
    DEF IInv, TypeOK, PcOK, CondType, items, flags, birth, history,
        ShutdownDrain, DrainsOrStops
<1>2. CountersExact'
  <2>1. Busy' = Busy
    BY <1>0, ThreadFacts DEF Busy, DrainsOrStops
  <2>2. QED
    BY <2>1 DEF IInv, CountersExact, items, ShutdownDrain
<1>3. Lifecycle'
  BY <1>0
  DEF IInv, Lifecycle, items, flags, birth, ShutdownDrain, DrainsOrStops
<1>4. Registration'
  BY <1>0, ThreadFacts DEF IInv, Registration, DrainsOrStops
<1>5. NoLostWork'
  BY <1>0
  DEF IInv, TypeOK, Lifecycle, NoLostWork, Attending, Woken, items, birth,
      ShutdownDrain, DrainsOrStops
<1>6. QED
  BY <1>1, <1>2, <1>3, <1>4, <1>5 DEF IInv

(* The leader announcing the joins. *)
LEMMA ShutdownPublishInv ==
  ASSUME IInv, NEW c \in Clients, ShutdownPublish(c)
  PROVE  IInv'
<1>0. /\ cond' \in CondType /\ mutex' \in Threads \union {None}
      /\ \E q \in {"joinedBroadcast", "outside"} : pc' = [pc EXCEPT ![c] = q]
      /\ cond'["work"] = cond["work"]
  BY BroadcastEffect, BroadcastingTable, ThreadFacts
  DEF IInv, ShutdownPublish
<1>1. TypeOK'
  <2>1. PcOK'
    BY <1>0, MoveType, ThreadFacts
    DEF IInv, WorkerPlaces, ClientPlaces
  <2>2. QED
    BY <1>0, <2>1
    DEF IInv, TypeOK, PcOK, CondType, items, flags, birth, history,
        ShutdownPublish
<1>2. CountersExact'
  <2>1. Busy' = Busy
    BY <1>0 DEF Busy, ShutdownPublish
  <2>2. QED
    BY <2>1 DEF IInv, CountersExact, items, ShutdownPublish
<1>3. Lifecycle'
  BY <1>0 DEF IInv, Lifecycle, items, flags, birth, ShutdownPublish
<1>4. Registration'
  BY <1>0 DEF IInv, Registration, ShutdownPublish
<1>5. NoLostWork'
  BY <1>0
  DEF IInv, TypeOK, Lifecycle, NoLostWork, Attending, Woken, items, birth,
      ShutdownPublish
<1>6. QED
  BY <1>1, <1>2, <1>3, <1>4, <1>5 DEF IInv

(* Calling destroy. *)
LEMMA DestroyInv ==
  ASSUME IInv, Destroy
  PROVE  IInv'
<1>1. TypeOK'
  BY ThreadFacts
  DEF IInv, TypeOK, ClientPlaces, items, flags, birth, history, Destroy, Goto
<1>2. CountersExact'
  <2>1. Busy' = Busy
    BY DEF Busy, Destroy, Goto
  <2>2. QED
    BY <2>1 DEF IInv, CountersExact, items, Destroy
<1>3. Lifecycle'
  BY ThreadFacts DEF IInv, Lifecycle, items, flags, Destroy, Usable, Goto
<1>4. Registration'
  BY DEF IInv, Registration, Destroy, Goto
<1>5. NoLostWork'
  BY ThreadFacts
  DEF IInv, TypeOK, CountersExact, Lifecycle, Registration, NoLostWork,
      Attending, Woken, items, flags, birth, history, Destroy, Usable, Goto
<1>6. QED
  BY <1>1, <1>2, <1>3, <1>4, <1>5 DEF IInv

(* Releasing the pool. *)
LEMMA DestroyFreeInv ==
  ASSUME IInv, DestroyFree
  PROVE  IInv'
<1>1. TypeOK'
  BY ThreadFacts
  DEF IInv, TypeOK, ClientPlaces, items, flags, birth, history, DestroyFree,
      Goto
<1>2. CountersExact'
  <2>1. Busy' = Busy
    BY DEF Busy, DestroyFree, Goto
  <2>2. QED
    BY <2>1
    DEF IInv, CountersExact, items, flags, birth, history, DestroyFree, Goto
<1>3. Lifecycle'
  BY DEF IInv, Lifecycle, items, flags, DestroyFree, Goto
<1>4. Registration'
  BY DEF IInv, Registration, DestroyFree, Goto
<1>5. NoLostWork'
  BY DEF IInv, TypeOK, Lifecycle, NoLostWork, Attending, Woken, items, birth,
         DestroyFree, Goto
<1>6. QED
  BY <1>1, <1>2, <1>3, <1>4, <1>5 DEF IInv

-----------------------------------------------------------------------------
(* The invariant holds. *)

(* It holds before create is called. *)
LEMMA InitInv == Init => IInv
<1> SUFFICES ASSUME Init PROVE IInv
  OBVIOUS
<1>1. /\ queue = <<>> /\ queued = 0 /\ active = 0
      /\ pc = [t \in Threads |-> CASE t \in Workers -> "unborn"
                                   [] t = Owner -> "building"
                                   [] OTHER -> "outside"]
  BY DEF Init
<1>2. /\ \A w \in Workers : pc[w] = "unborn"
      /\ pc[Owner] = "building"
      /\ \A c \in Clients : pc[c] \in {"building", "outside"}
      /\ pc \in [Threads -> {"unborn", "building", "outside"}]
  BY <1>1, ThreadFacts
<1>3. FreshCondition \in ConditionType(Threads)
  BY DEF FreshCondition, ConditionType
<1>4. TypeOK
  <2>1. cond \in CondType
    BY <1>3 DEF Init, CondType
  <2>2. queue \in Seq(Tasks) /\ created \in 0..WorkerCount
    BY <1>1, ThreadFacts DEF Init
  <2>3. PcOK
    BY <1>2 DEF PcOK, WorkerPlaces, ClientPlaces
  <2>4. /\ index \in [Clients -> 0..WorkerCount]
        /\ job \in [Workers -> Tasks \union {None}]
        /\ status \in [Tasks -> {"new", "queued", "running", "done", "rejected"}]
        /\ owed \in [Clients -> SUBSET Tasks]
        /\ joins \in [Workers -> Nat]
    BY ThreadFacts DEF Init
  <2>5. QED
    BY <2>1, <2>2, <2>3, <2>4 DEF Init, TypeOK, CondType, PcOK
<1>5. CountersExact
  <2>1. Busy = {}
    BY <1>2 DEF Busy
  <2>2. QED
    BY <1>1, <2>1, FS_EmptySet DEF CountersExact
<1>6. Lifecycle
  <2>1. /\ queue = <<>> /\ created = 0 /\ created < WorkerCount
        /\ ~joining /\ ~stopping /\ ~accepting
    BY ThreadFacts DEF Init
  <2>2. \A w \in Workers : w > created
    BY <2>1, ThreadFacts DEF Workers
  <2>3. QED
    BY <1>2, <2>1, <2>2 DEF Lifecycle
<1>7. Registration
  BY <1>2 DEF Init, Registration, FreshCondition
<1>8. NoLostWork
  BY <1>1 DEF NoLostWork
<1>9. QED
  BY <1>4, <1>5, <1>6, <1>7, <1>8 DEF IInv

(* Every step keeps it. *)
LEMMA NextInv == IInv /\ [Next]_vars => IInv'
<1> SUFFICES ASSUME IInv, [Next]_vars PROVE IInv'
  OBVIOUS
<1>1. CASE CreateStep
  BY <1>1, AcquireInv, AcquireFailsInv, StartWorkerInv, StartWorkerFailsInv,
     AbandonInv, AbandonFreeInv DEF CreateStep
<1>2. CASE Destroy \/ DestroyFree
  BY <1>2, DestroyInv, DestroyFreeInv
<1>3. ASSUME NEW w \in Workers, WorkerStep(w) PROVE IInv'
  BY <1>3, TakeInv, RestInv, ExitInv, RunInv, FinishInv DEF WorkerStep
<1>4. ASSUME NEW c \in Clients, Call(c) \/ ClientStep(c) PROVE IInv'
  BY <1>4, CallInv, WaitStepInv, ShutdownLeadInv, ShutdownFollowInv,
     ShutdownDrainInv, JoinNextInv, ShutdownPublishInv DEF ClientStep
<1>5. ASSUME NEW t \in Threads,
             ThreadStep(t) \/ \E k \in Tasks : Submit(t, k)
      PROVE  IInv'
  BY <1>5, WakeInv, BroadcastReturnsInv, SubmitInv DEF ThreadStep
<1>6. CASE UNCHANGED vars
  BY <1>6
  DEF IInv, vars, TypeOK, CountersExact, Busy, Lifecycle, Registration,
      NoLostWork, Attending, Woken
<1>7. QED
  BY <1>1, <1>2, <1>3, <1>4, <1>5, <1>6 DEF Next

LEMMA InductiveInvariant == Spec => []IInv
BY InitInv, NextInv, PTL DEF Spec

-----------------------------------------------------------------------------
(* Every variable keeps its type: in particular queued and active, size_t in
   the code, are never decremented below zero. *)
THEOREM TypeCorrect == Spec => []TypeOK
BY InductiveInvariant, PTL DEF IInv

(* For any number of workers, the counters wait and shutdown decide by are
   the length of the list and the number of workers holding an item. *)
THEOREM CountersAlwaysExact == Spec => []CountersExact
BY InductiveInvariant, PTL DEF IInv

(* For any number of workers, clients and tasks, no accepted item is left
   in the list with all workers asleep and no token on its way. *)
THEOREM NoWorkLost == Spec => []NoLostWork
BY InductiveInvariant, PTL DEF IInv

(* Once shutdown has begun, submit never accepts again. *)
THEOREM NoLateAcceptance == Spec => NoLateAccept
<1> DEFINE Late == \A k \in Tasks : status'[k] = "queued" => status[k] = "queued"
<1>1. IInv /\ [Next]_vars => [joining => Late]_vars
  <2> SUFFICES ASSUME IInv, Next, joining PROVE Late
    BY DEF vars
  <2>1. ~accepting
    BY DEF IInv, Lifecycle
  <2>2. ASSUME NEW t \in Threads, NEW k \in Tasks, Submit(t, k) PROVE Late
    BY <2>1, <2>2 DEF IInv, TypeOK, Submit
  <2>3. ASSUME NEW w \in Workers, WorkerStep(w) PROVE Late
    BY <2>3
    DEF IInv, TypeOK, history, WorkerStep, Take, Rest, Exit, Run, Finish
  <2>4. ASSUME NEW c \in Clients, Call(c) \/ ClientStep(c) PROVE Late
    BY <2>4
    DEF ClientStep, Call, WaitStep, ShutdownLead, ShutdownFollow,
        ShutdownDrain, JoinNext, ShutdownPublish, history
  <2>5. ASSUME NEW t \in Threads, ThreadStep(t) PROVE Late
    BY <2>5 DEF ThreadStep, Wake, BroadcastReturns, history
  <2>6. CASE CreateStep \/ Destroy \/ DestroyFree
    BY <2>6
    DEF history, CreateStep, Acquire, AcquireFails, StartWorker,
        StartWorkerFails, Abandon, AbandonFree, Destroy, DestroyFree
  <2>7. QED
    BY <2>2, <2>3, <2>4, <2>5, <2>6 DEF Next
<1>2. QED
  BY <1>1, InductiveInvariant, PTL DEF Spec, NoLateAccept

-----------------------------------------------------------------------------
(* Shutdown and destruction: the second inductive invariant. *)

(* Whoever keeps the mutex between two steps is inside a broadcast. *)
InBroadcast == {"idleBroadcast", "stopBroadcast", "joinedBroadcast",
                "abandonBroadcast"}
OnIdle == {"idleBroadcast", "joinedBroadcast"}

Broadcaster == \A t \in Threads : mutex = t <=> pc[t] \in InBroadcast

(* The condition idle is only ever broadcast: outside a broadcast no token
   is left on it, during one there is a token for each thread still
   registered, and the last one to leave sets waiters_done. *)
IdleSleep == {"waiting", "draining", "following"}

IdleCondition ==
  LET idle == cond["idle"] IN
  /\ idle.registered = {c \in Clients : pc[c] \in IdleSleep}
  /\ idle.broadcasting <=> \E t \in Threads : pc[t] \in OnIdle
  /\ ~idle.broadcasting =>
       idle.eligible = {} /\ idle.tokens = 0 /\ ~idle.drained
  /\ idle.broadcasting =>
       /\ idle.eligible = idle.registered
       /\ idle.tokens = Cardinality(idle.registered)
       /\ idle.remaining = Cardinality(idle.registered)
       /\ idle.drained <=> idle.registered = {}

(* Outside those broadcasts nobody sleeps for what has happened. *)
Quiet ==
  ~cond["idle"].broadcasting =>
    \A c \in Clients : /\ Drained => pc[c] \notin {"waiting", "draining"}
                       /\ joined => pc[c] # "following"

Idling == Broadcaster /\ IdleCondition /\ Quiet

(* One caller leads a shutdown, from the moment joining is set until it sets
   joined; it stops the workers before it joins them. *)
Leading(c) == pc[c] \in {"drain", "draining", "stopBroadcast", "join"}

Leadership ==
  /\ \A c, d \in Clients : Leading(c) /\ Leading(d) => c = d
  /\ \A c \in Clients : Leading(c) => joining /\ ~joined
  /\ \A c \in Clients : pc[c] \in {"stopBroadcast", "join"} => stopping
  /\ \A c \in Clients : pc[c] = "joinedBroadcast" => joined
  /\ joined => joining /\ stopping

(* The loop variable of the one thread that joins says which workers have
   returned and were joined. *)
JoinPlaces == {"join", "abandonJoin", "failed"}

Joining ==
  /\ \A c \in Clients : pc[c] \notin JoinPlaces => index[c] = 0
  /\ \A c \in Clients : pc[c] \in JoinPlaces =>
       \A w \in Workers : /\ joins[w] = IF w <= index[c] THEN 1 ELSE 0
                          /\ w <= index[c] => pc[w] = "exited"
  /\ joined => \A w \in Workers : pc[w] = "exited" /\ joins[w] = 1
  /\ ~joined /\ (\A c \in Clients : pc[c] \notin JoinPlaces) =>
       \A w \in Workers : joins[w] = 0

(* A queued task is in the list, a running one in the hands of a worker. *)
Backlog ==
  \A k \in Tasks :
    /\ status[k] = "queued" => \E i \in 1..Len(queue) : queue[i] = k
    /\ status[k] = "running" =>
         \E w \in Workers : pc[w] = "running" /\ job[w] = k

(* What exists of the pool object at each stage of the owner's life. *)
Prefixes ==
  {{}, {"pool"}, {"pool", "threads"}, {"pool", "threads", "mutex"},
   {"pool", "threads", "mutex", "work_available"}, AllResources}

Creating == {"building", "abandon", "abandonBroadcast", "abandonJoin", "failed"}

Possession ==
  /\ \A c \in Clients \ {Owner} : pc[c] \notin Creating \union {"gone"}
  /\ pc[Owner] \in Creating <=> created < WorkerCount
  /\ pc[Owner] \in Creating \/ retiring =>
       \A c \in Clients \ {Owner} : pc[c] = "outside"
  /\ pc[Owner] \in Creating => ~retiring
  /\ pc[Owner] = "gone" => retiring
  /\ retiring => pc[Owner] \notin {"wait", "waiting"}
  /\ retiring /\ pc[Owner] \in {"outside", "gone"} => joined
  /\ pc[Owner] = "building" =>
       held \in Prefixes /\ (created > 0 => held = AllResources)
  /\ pc[Owner] \notin {"building", "failed", "gone"} => held = AllResources
  /\ pc[Owner] \in {"failed", "gone"} =>
       held = {} /\ \A w \in Workers : pc[w] \in {"unborn", "exited"}

SInv == Idling /\ Leadership /\ Joining /\ Backlog /\ Possession

-----------------------------------------------------------------------------
(* What the two invariants say about a shutdown and about the pool object. *)

(* The threads asleep on idle are the ones its broadcast counts. *)
LEMMA SleepersFinite ==
  ASSUME TypeOK, IdleCondition
  PROVE  /\ IsFiniteSet(cond["idle"].registered)
         /\ Cardinality(cond["idle"].registered) \in Nat
         /\ Cardinality(cond["idle"].registered) <= SemMax
         /\ Cardinality(cond["idle"].registered) = 0 <=>
              cond["idle"].registered = {}
<1>1. IsFiniteSet(Clients) /\ cond["idle"].registered \subseteq Clients
  BY PoolAssumption DEF PoolAssumption, IdleCondition
<1>2. /\ IsFiniteSet(cond["idle"].registered)
      /\ Cardinality(cond["idle"].registered) \in Nat
      /\ Cardinality(Clients) \in Nat
      /\ Cardinality(cond["idle"].registered) <= Cardinality(Clients)
  BY <1>1, FS_Subset, FS_CardinalityType
<1>3. QED
  BY <1>2, FS_EmptySet, PoolAssumption DEF PoolAssumption

(* A drained pool has nobody asleep for it, a closed one nobody following. *)
LEMMA NobodySleepsInVain ==
  ASSUME TypeOK, SInv
  PROVE  NoLostIdle
<1> SUFFICES ASSUME mutex = None PROVE NoLostIdle
  BY DEF NoLostIdle
<1>1. \A t \in Threads : pc[t] \notin OnIdle
  BY ThreadFacts DEF SInv, Idling, Broadcaster, InBroadcast, OnIdle
<1>2. ~cond["idle"].broadcasting
  BY <1>1 DEF SInv, Idling, IdleCondition
<1>3. QED
  BY <1>2 DEF SInv, Idling, Quiet, NoLostIdle

(* After a shutdown no task is unfinished and every worker was joined. *)
LEMMA ShutdownFollows ==
  ASSUME IInv, SInv
  PROVE  ShutdownComplete
<1>1. NoLostIdle
  BY NobodySleepsInVain DEF IInv
<1>2. joined => Unfinished = {} /\ ~accepting
  <2> SUFFICES ASSUME joined PROVE Unfinished = {} /\ ~accepting
    OBVIOUS
  <2>1. joining /\ stopping
    BY DEF SInv, Leadership
  <2>2. ~accepting /\ queue = <<>>
    BY <2>1 DEF IInv, Lifecycle
  <2>3. \A w \in Workers : pc[w] = "exited"
    BY DEF SInv, Joining
  <2>4. \A k \in Tasks : status[k] # "queued"
    BY <2>2 DEF SInv, Backlog
  <2>5. \A k \in Tasks : status[k] # "running"
    BY <2>3 DEF SInv, Backlog
  <2>6. QED
    BY <2>2, <2>4, <2>5 DEF Unfinished
<1>3. joined => \A w \in Workers : pc[w] = "exited" /\ joins[w] = 1
  BY DEF SInv, Joining
<1>4. \A w \in Workers : joins[w] <= 1
  <2>1. CASE joined
    BY <1>3, <2>1
  <2>2. CASE \E c \in Clients : pc[c] \in JoinPlaces
    BY <2>2 DEF SInv, Joining
  <2>3. CASE ~joined /\ \A c \in Clients : pc[c] \notin JoinPlaces
    BY <2>3 DEF SInv, Joining
  <2>4. QED
    BY <2>1, <2>2, <2>3
<1>5. QED
  BY <1>1, <1>2, <1>3, <1>4 DEF ShutdownComplete

(* While a thread is inside the pool the owner is past its creation or has
   created somebody, and has not released anything. *)
LEMMA ResourcesFollow ==
  ASSUME IInv, SInv
  PROVE  ResourcesOutliveUsers
<1>1. ASSUME NEW w \in Workers, Inside(w) PROVE held = AllResources
  <2>1. pc[w] \notin {"unborn", "exited"}
    BY <1>1 DEF Inside
  <2>2. pc[Owner] \notin {"failed", "gone"}
    BY <2>1 DEF SInv, Possession
  <2>3. created > 0
    <3>1. ~(w > created)
      BY <2>1 DEF IInv, Lifecycle
    <3>2. QED
      BY <3>1, ThreadFacts DEF Workers, IInv, TypeOK
  <2>4. QED
    BY <2>2, <2>3 DEF SInv, Possession
<1>2. ASSUME NEW c \in Clients, Inside(c) PROVE held = AllResources
  <2>1. pc[c] \notin {"outside", "building", "failed", "gone"}
    BY <1>2 DEF Inside
  <2>2. pc[Owner] \notin {"building", "failed", "gone"}
    BY <2>1 DEF SInv, Possession, Creating
  <2>3. QED
    BY <2>2 DEF SInv, Possession
<1>3. QED
  BY <1>1, <1>2 DEF ResourcesOutliveUsers, Threads, SInv, Possession

-----------------------------------------------------------------------------
(* How a step moves threads in and out of the conditions: Idling. *)

(* A thread that moves between places outside the condition idle and outside
   any broadcast, in a step that neither drains nor closes the pool. *)
LEMMA PlainMove ==
  ASSUME TypeOK, Idling, NEW t \in Threads, NEW q,
         pc[t] \notin IdleSleep \union InBroadcast,
         q \notin IdleSleep \union InBroadcast,
         pc' = [pc EXCEPT ![t] = q],
         mutex' = mutex, cond'["idle"] = cond["idle"],
         Drained' => Drained, joined' => joined
  PROVE  Idling'
<1>1. Broadcaster'
  BY DEF TypeOK, Idling, Broadcaster
<1>2. IdleCondition'
  <2>1. \A c \in Clients : pc'[c] \in IdleSleep <=> pc[c] \in IdleSleep
    BY ThreadFacts DEF TypeOK
  <2>2. \A u \in Threads : pc'[u] \in OnIdle <=> pc[u] \in OnIdle
    BY DEF TypeOK, OnIdle, InBroadcast
  <2>3. QED
    BY <2>1, <2>2 DEF Idling, IdleCondition
<1>3. Quiet'
  BY ThreadFacts DEF TypeOK, Idling, Quiet, IdleSleep
<1>4. QED
  BY <1>1, <1>2, <1>3 DEF Idling

(* The same for a step that moves nobody. *)
LEMMA NoMove ==
  ASSUME Idling, pc' = pc, mutex' = mutex, cond'["idle"] = cond["idle"],
         Drained' => Drained, joined' => joined
  PROVE  Idling'
BY DEF Idling, Broadcaster, IdleCondition, Quiet

(* A thread that goes to sleep on idle does so with the mutex, so during no
   broadcast, and for something that has not happened. *)
LEMMA IdleSleepMove ==
  ASSUME TypeOK, Idling, NEW c \in Clients, NEW p \in IdleSleep,
         mutex = None, mutex' = mutex,
         pc[c] \notin IdleSleep \union InBroadcast,
         Sleep(c, p), Drained' <=> Drained, joined' <=> joined,
         p \in {"waiting", "draining"} => ~Drained,
         p = "following" => ~joined
  PROVE  Idling'
<1>1. /\ cond' = [cond EXCEPT !["idle"] = Register(cond["idle"], c)]
      /\ pc' = [pc EXCEPT ![c] = p]
  BY SleepingTable DEF Sleep, Goto, IdleSleep
<1>2. /\ cond["idle"] \in ConditionType(Threads)
      /\ cond'["idle"] = Register(cond["idle"], c)
  BY <1>1 DEF TypeOK
<1>3. /\ cond'["idle"].registered = cond["idle"].registered \union {c}
      /\ cond'["idle"].eligible = cond["idle"].eligible
      /\ cond'["idle"].tokens = cond["idle"].tokens
      /\ cond'["idle"].broadcasting = cond["idle"].broadcasting
      /\ cond'["idle"].drained = cond["idle"].drained
  BY <1>2 DEF ConditionType, Register
<1>4. \A t \in Threads : pc[t] \notin InBroadcast
  BY ThreadFacts DEF Idling, Broadcaster
<1>5. \A t \in Threads : pc'[t] \notin InBroadcast
  BY <1>1, <1>4 DEF TypeOK, IdleSleep, InBroadcast
<1>6. ~cond["idle"].broadcasting
  BY <1>4 DEF Idling, IdleCondition, InBroadcast, OnIdle
<1>7. Broadcaster'
  BY <1>5, ThreadFacts DEF Broadcaster
<1>8. IdleCondition'
  <2>1. {d \in Clients : pc'[d] \in IdleSleep}
          = {d \in Clients : pc[d] \in IdleSleep} \union {c}
    BY <1>1, ThreadFacts DEF TypeOK
  <2>2. \A t \in Threads : pc'[t] \notin OnIdle
    BY <1>5 DEF InBroadcast, OnIdle
  <2>3. QED
    BY <1>3, <1>6, <2>1, <2>2 DEF Idling, IdleCondition
<1>9. Quiet'
  BY <1>1, <1>3, <1>6, ThreadFacts DEF TypeOK, Idling, Quiet, IdleSleep
<1>10. QED
  BY <1>7, <1>8, <1>9 DEF Idling

(* A thread that gets out of idle does so during the broadcast, which counts
   it out. *)
LEMMA IdleWakeMove ==
  ASSUME TypeOK, Idling, NEW c \in Clients, pc[c] \in IdleSleep, Wake(c)
  PROVE  Idling'
<1> DEFINE q == Sleeping[pc[c]].then
<1>1. /\ CanLeave(cond["idle"], c)
      /\ cond' = [cond EXCEPT !["idle"] = Leave(cond["idle"], c)]
      /\ pc' = [pc EXCEPT ![c] = q] /\ mutex' = mutex
      /\ Drained' = Drained /\ joined' = joined
  BY SleepingTable DEF Wake, Goto, IdleSleep, items, flags, Drained
<1>2. q \notin IdleSleep \union InBroadcast
  BY SleepingTable DEF IdleSleep, InBroadcast
<1> HIDE DEF q
<1>3. /\ cond["idle"] \in ConditionType(Threads)
      /\ cond'["idle"] = Leave(cond["idle"], c)
  BY <1>1 DEF TypeOK
<1> DEFINE idle == cond["idle"]
           n == Cardinality(idle.registered)
<1>4. /\ idle.broadcasting /\ c \in idle.registered
      /\ idle.eligible = idle.registered
      /\ idle.tokens = n /\ idle.remaining = n
      /\ ~idle.drained
  BY <1>1, <1>3 DEF CanLeave, Idling, IdleCondition, ConditionType
<1>5. /\ IsFiniteSet(idle.registered) /\ n \in Nat /\ n > 0
      /\ Cardinality(idle.registered \ {c}) = n - 1
      /\ n = 1 <=> idle.registered \ {c} = {}
  <2>1. IsFiniteSet(idle.registered)
    BY SleepersFinite DEF Idling
  <2>2. /\ Cardinality(idle.registered \ {c}) = n - 1
        /\ IsFiniteSet(idle.registered \ {c}) /\ n \in Nat
    BY <1>4, <2>1, FS_RemoveElement, FS_CardinalityType
  <2>3. Cardinality(idle.registered \ {c}) = 0
          <=> idle.registered \ {c} = {}
    BY <2>2, FS_EmptySet
  <2>4. n > 0
    BY <2>2, <1>4, <2>1, FS_EmptySet, FS_CardinalityType
  <2>5. QED
    BY <2>1, <2>2, <2>3, <2>4
<1>6. /\ cond'["idle"].registered = idle.registered \ {c}
      /\ cond'["idle"].eligible = idle.registered \ {c}
      /\ cond'["idle"].tokens = n - 1
      /\ cond'["idle"].remaining = n - 1
      /\ cond'["idle"].broadcasting
      /\ cond'["idle"].drained <=> idle.registered \ {c} = {}
  <2> HIDE DEF n
  <2>1. cond'["idle"].drained <=> n = 1
    BY <1>3, <1>4 DEF ConditionType, Leave
  <2>2. QED
    BY <1>3, <1>4, <1>5, <2>1 DEF ConditionType, Leave
<1>7. Broadcaster'
  BY <1>1, <1>2, ThreadFacts DEF TypeOK, Idling, Broadcaster, IdleSleep, InBroadcast
<1>8. IdleCondition'
  <2>1. {d \in Clients : pc'[d] \in IdleSleep}
          = {d \in Clients : pc[d] \in IdleSleep} \ {c}
    BY <1>1, <1>2, ThreadFacts DEF TypeOK
  <2>2. \A t \in Threads : pc'[t] \in OnIdle <=> pc[t] \in OnIdle
    BY <1>1, <1>2 DEF TypeOK, OnIdle, InBroadcast, IdleSleep
  <2>3. \E t \in Threads : pc'[t] \in OnIdle
    BY <1>4, <2>2 DEF Idling, IdleCondition
  <2>4. cond'["idle"].registered = {d \in Clients : pc'[d] \in IdleSleep}
    BY <1>6, <2>1 DEF Idling, IdleCondition
  <2>5. QED
    BY <1>5, <1>6, <2>3, <2>4 DEF IdleCondition
<1>9. Quiet'
  BY <1>6 DEF Quiet
<1>10. QED
  BY <1>7, <1>8, <1>9 DEF Idling

(* The broadcast of work_available takes and gives back the mutex and leaves
   idle alone. *)
LEMMA WorkBroadcastMove ==
  ASSUME TypeOK, Idling, NEW t \in Threads,
         NEW p \in {"stopBroadcast", "abandonBroadcast"},
         mutex = None, pc[t] \notin IdleSleep \union InBroadcast,
         BroadcastAndUnlock(t, p), Drained' => Drained, joined' => joined
  PROVE  Idling'
<1> DEFINE q == Broadcasting[p].then
<1>1. /\ cond'["idle"] = cond["idle"]
      /\ \/ pc' = [pc EXCEPT ![t] = q] /\ mutex' = None
         \/ pc' = [pc EXCEPT ![t] = p] /\ mutex' = t
  BY BroadcastingTable DEF BroadcastAndUnlock, Goto, TypeOK
<1>2. q \notin IdleSleep \union InBroadcast
  BY BroadcastingTable DEF IdleSleep, InBroadcast
<1> HIDE DEF q
<1>3. CASE pc' = [pc EXCEPT ![t] = q] /\ mutex' = None
  BY <1>1, <1>2, <1>3, PlainMove
<1>4. CASE pc' = [pc EXCEPT ![t] = p] /\ mutex' = t
  <2>1. \A u \in Threads : pc[u] \notin InBroadcast
    BY ThreadFacts DEF Idling, Broadcaster
  <2>2. Broadcaster'
    BY <1>4, <2>1 DEF TypeOK, Broadcaster, InBroadcast
  <2>3. IdleCondition'
    <3>1. \A c \in Clients : pc'[c] \in IdleSleep <=> pc[c] \in IdleSleep
      BY <1>4, ThreadFacts DEF TypeOK, IdleSleep
    <3>2. \A u \in Threads : pc'[u] \in OnIdle <=> pc[u] \in OnIdle
      BY <1>4 DEF TypeOK, OnIdle, InBroadcast
    <3>3. QED
      BY <1>1, <3>1, <3>2 DEF Idling, IdleCondition
  <2>4. Quiet'
    BY <1>1, <1>4, ThreadFacts DEF TypeOK, Idling, Quiet, IdleSleep
  <2>5. QED
    BY <2>2, <2>3, <2>4 DEF Idling
<1>5. QED
  BY <1>1, <1>3, <1>4

(* The broadcast of idle finds no token on it, so it fits the semaphore, and
   it either has nobody to wake or keeps the mutex. *)
LEMMA IdleBroadcastMove ==
  ASSUME TypeOK, Idling, NEW t \in Threads, NEW p \in OnIdle,
         mutex = None, pc[t] \notin IdleSleep \union InBroadcast,
         BroadcastAndUnlock(t, p)
  PROVE  Idling'
<1> DEFINE q == Broadcasting[p].then
           idle == cond["idle"]
<1>1. \A u \in Threads : pc[u] \notin InBroadcast
  BY ThreadFacts DEF Idling, Broadcaster
<1>2. ~idle.broadcasting
  BY <1>1 DEF Idling, IdleCondition, InBroadcast, OnIdle
<1>3. idle.eligible = {} /\ idle.tokens = 0 /\ ~idle.drained
  BY <1>2 DEF Idling, IdleCondition
<1>4. Fits(idle)
  BY <1>3, SleepersFinite DEF Fits, Idling
<1>5. /\ cond'["idle"] = Broadcast(idle)
      /\ IF idle.registered = {}
           THEN pc' = [pc EXCEPT ![t] = q] /\ mutex' = None
           ELSE pc' = [pc EXCEPT ![t] = p] /\ mutex' = t
  BY <1>4, BroadcastingTable DEF BroadcastAndUnlock, Goto, TypeOK, OnIdle
<1>6. q \notin IdleSleep \union InBroadcast
  BY BroadcastingTable DEF IdleSleep, InBroadcast, OnIdle
<1> HIDE DEF q
<1>7. CASE idle.registered = {}
  <2>1. cond'["idle"] = idle
    BY <1>5, <1>7 DEF Broadcast
  <2>2. \A c \in Clients : pc[c] \notin IdleSleep
    BY <1>7 DEF Idling, IdleCondition
  <2>3. \A c \in Clients : pc'[c] \notin IdleSleep
    BY <1>5, <1>6, <1>7, <2>2, ThreadFacts DEF TypeOK
  <2>4. \A u \in Threads : pc'[u] \notin InBroadcast
    BY <1>1, <1>5, <1>6, <1>7 DEF TypeOK
  <2>5. Broadcaster'
    BY <1>5, <1>7, <2>4, ThreadFacts DEF Broadcaster
  <2>6. IdleCondition'
    BY <1>2, <1>3, <1>7, <2>1, <2>3, <2>4
    DEF IdleCondition, InBroadcast, OnIdle
  <2>7. Quiet'
    BY <2>3 DEF Quiet, IdleSleep
  <2>8. QED
    BY <2>5, <2>6, <2>7 DEF Idling
<1>8. CASE idle.registered # {}
  <2>1. /\ idle \in ConditionType(Threads)
        /\ Cardinality(idle.registered) \in Nat
    BY SleepersFinite DEF TypeOK, Idling
  <2> DEFINE n == Cardinality(idle.registered)
  <2>2. /\ cond'["idle"].registered = idle.registered
        /\ cond'["idle"].eligible = idle.registered
        /\ cond'["idle"].tokens = n /\ cond'["idle"].remaining = n
        /\ cond'["idle"].broadcasting
        /\ ~cond'["idle"].drained
    <3>1. Broadcast(idle) = [idle EXCEPT !.eligible = idle.registered,
                                         !.tokens = n, !.remaining = n,
                                         !.broadcasting = TRUE]
      <4>1. idle.tokens + n = n
        BY <1>3, <2>1
      <4>2. QED
        BY <1>4, <1>8, <4>1 DEF Broadcast
    <3> HIDE DEF n
    <3>2. QED
      BY <1>3, <1>5, <2>1, <3>1 DEF ConditionType
  <2> HIDE DEF n
  <2>3. Broadcaster'
    BY <1>1, <1>5, <1>8 DEF TypeOK, Broadcaster, InBroadcast, OnIdle
  <2>4. \A c \in Clients : pc'[c] \in IdleSleep <=> pc[c] \in IdleSleep
    BY <1>5, <1>8, ThreadFacts DEF TypeOK, IdleSleep, OnIdle
  <2>5. pc'[t] \in OnIdle
    BY <1>5, <1>8 DEF TypeOK
  <2>6. cond'["idle"].registered = {c \in Clients : pc'[c] \in IdleSleep}
    BY <2>2, <2>4 DEF Idling, IdleCondition
  <2>7. IdleCondition'
    BY <1>8, <2>2, <2>5, <2>6 DEF IdleCondition, n
  <2>8. Quiet'
    BY <2>2 DEF Quiet
  <2>9. QED
    BY <2>3, <2>7, <2>8 DEF Idling
<1>9. QED
  BY <1>7, <1>8

(* The end of a broadcast of idle finds nobody left asleep on it. *)
LEMMA ReturnMove ==
  ASSUME TypeOK, Idling, NEW t \in Threads, BroadcastReturns(t)
  PROVE  Idling'
<1> DEFINE q == Broadcasting[pc[t]].then
           idle == cond["idle"]
<1>1. /\ pc[t] \in InBroadcast
      /\ pc' = [pc EXCEPT ![t] = q] /\ mutex' = None
      /\ Drained' = Drained /\ joined' = joined
  BY BroadcastingTable
  DEF BroadcastReturns, Goto, items, flags, Drained, InBroadcast
<1>2. q \notin IdleSleep \union InBroadcast
  BY <1>1, BroadcastingTable DEF IdleSleep, InBroadcast
<1>3. IF pc[t] \in OnIdle
        THEN idle.drained /\ cond'["idle"] = EndBroadcast(idle)
        ELSE cond'["idle"] = idle
  BY <1>1, BroadcastingTable
  DEF BroadcastReturns, OnIdle, InBroadcast, TypeOK
<1> HIDE DEF q
<1>4. mutex = t /\ \A u \in Threads \ {t} : pc[u] \notin InBroadcast
  BY <1>1 DEF Idling, Broadcaster
<1>5. \A u \in Threads : pc'[u] \notin InBroadcast
  BY <1>1, <1>2, <1>4 DEF TypeOK
<1>6. Broadcaster'
  BY <1>1, <1>5, ThreadFacts DEF Broadcaster
<1>7. \A c \in Clients : pc'[c] \in IdleSleep <=> pc[c] \in IdleSleep
  BY <1>1, <1>2, ThreadFacts DEF TypeOK, IdleSleep, InBroadcast
<1>8. CASE pc[t] \in OnIdle
  <2>1. /\ idle.broadcasting
        /\ idle.registered = {c \in Clients : pc[c] \in IdleSleep}
        /\ idle.drained <=> idle.registered = {}
        /\ idle.eligible = idle.registered
        /\ idle.tokens = Cardinality(idle.registered)
    BY <1>8 DEF Idling, IdleCondition
  <2>2. /\ idle.registered = {} /\ idle.eligible = {} /\ idle.tokens = 0
    BY <1>3, <1>8, <2>1, FS_EmptySet
  <2>3. idle \in ConditionType(Threads)
    BY DEF TypeOK
  <2>4. /\ cond'["idle"].registered = {} /\ cond'["idle"].eligible = {}
        /\ cond'["idle"].tokens = 0 /\ ~cond'["idle"].broadcasting
        /\ ~cond'["idle"].drained
    BY <1>3, <1>8, <2>2, <2>3 DEF ConditionType, EndBroadcast
  <2>5. \A c \in Clients : pc'[c] \notin IdleSleep
    BY <1>7, <2>1, <2>2
  <2>6. IdleCondition'
    BY <1>5, <2>4, <2>5 DEF IdleCondition, OnIdle, InBroadcast
  <2>7. Quiet'
    BY <2>5 DEF Quiet, IdleSleep
  <2>8. QED
    BY <1>6, <2>6, <2>7 DEF Idling
<1>9. CASE pc[t] \notin OnIdle
  <2>1. \A u \in Threads : pc'[u] \in OnIdle <=> pc[u] \in OnIdle
    BY <1>1, <1>5, <1>9, <1>4 DEF TypeOK, OnIdle, InBroadcast
  <2>2. IdleCondition'
    BY <1>3, <1>7, <1>9, <2>1 DEF Idling, IdleCondition
  <2>3. Quiet'
    BY <1>1, <1>2, <1>3, <1>9, ThreadFacts DEF TypeOK, Idling, Quiet, IdleSleep
  <2>4. QED
    BY <1>6, <2>2, <2>3 DEF Idling
<1>10. QED
  BY <1>8, <1>9

-----------------------------------------------------------------------------
(* The steps of the workers. *)

(* What a worker that has neither exited nor been born late does to itself
   concerns no client: nobody has joined it, nothing has been released. *)
LEMMA WorkerMove ==
  ASSUME IInv, SInv, NEW w \in Workers, NEW q,
         pc[w] \notin {"unborn", "exited"},
         pc' = [pc EXCEPT ![w] = q],
         UNCHANGED <<flags, birth, index, joins>>
  PROVE  Leadership' /\ Joining' /\ Possession'
<1>1. /\ \A c \in Clients : pc'[c] = pc[c]
      /\ \A v \in Workers : v # w => pc'[v] = pc[v]
  BY ThreadFacts DEF IInv, TypeOK
<1>2. Leadership'
  BY <1>1 DEF SInv, Leadership, Leading, flags
<1>3. Joining'
  <2>1. ~joined
    BY DEF SInv, Joining
  <2>2. ASSUME NEW c \in Clients, pc'[c] \in JoinPlaces, NEW v \in Workers
        PROVE  /\ joins'[v] = IF v <= index'[c] THEN 1 ELSE 0
               /\ v <= index'[c] => pc'[v] = "exited"
    <3>1. /\ joins[v] = IF v <= index[c] THEN 1 ELSE 0
          /\ v <= index[c] => pc[v] = "exited"
      BY <1>1, <2>2 DEF SInv, Joining
    <3>2. QED
      BY <1>1, <3>1
  <2>3. \A c \in Clients : pc'[c] \notin JoinPlaces => index'[c] = 0
    BY <1>1 DEF SInv, Joining
  <2>4. (\A c \in Clients : pc'[c] \notin JoinPlaces) =>
          \A v \in Workers : joins'[v] = 0
    BY <1>1, <2>1 DEF SInv, Joining
  <2>5. QED
    BY <2>1, <2>2, <2>3, <2>4 DEF Joining, flags
<1>4. Possession'
  <2>1. pc[Owner] \notin {"failed", "gone"}
    BY DEF SInv, Possession
  <2>2. pc'[Owner] = pc[Owner]
    BY <1>1, ThreadFacts
  <2>3. QED
    BY <1>1, <2>1, <2>2 DEF SInv, Possession, birth, flags
<1>5. QED
  BY <1>2, <1>3, <1>4

(* A step that leaves the tasks alone and no running worker where it was. *)
LEMMA SameBacklog ==
  ASSUME Backlog, UNCHANGED <<queue, status, job>>,
         \A w \in Workers : pc[w] = "running" => pc'[w] = "running"
  PROVE  Backlog'
BY DEF Backlog

(* A worker takes the head of the list. *)
LEMMA TakeShutdown ==
  ASSUME IInv, SInv, NEW w \in Workers, Take(w)
  PROVE  SInv'
<1>1. /\ pc[w] = "lock" /\ pc' = [pc EXCEPT ![w] = "running"]
      /\ queue # <<>> /\ queue' = Tail(queue)
      /\ queued' = queued - 1 /\ active' = active + 1
      /\ job' = [job EXCEPT ![w] = Head(queue)]
      /\ status' = [status EXCEPT ![Head(queue)] = "running"]
      /\ mutex' = mutex /\ cond' = cond
      /\ UNCHANGED <<flags, birth, index, joins>>
  BY DEF Take, Goto
<1>2. Idling'
  <2>1. ~Drained'
    BY <1>1 DEF Drained, IInv, TypeOK
  <2>2. QED
    BY <1>1, <2>1, PlainMove, ThreadFacts
    DEF IInv, SInv, IdleSleep, InBroadcast, flags
<1>3. Leadership' /\ Joining' /\ Possession'
  BY <1>1, WorkerMove
<1>4. Backlog'
  <2>1. /\ queue \in Seq(Tasks) /\ Len(queue) \in Nat /\ Len(queue) > 0
        /\ Len(queue') = Len(queue) - 1
        /\ \A i \in 1..Len(queue') : queue'[i] = queue[i + 1]
        /\ Head(queue) = queue[1]
    BY <1>1 DEF IInv, TypeOK
  <2>2. ASSUME NEW k \in Tasks, status'[k] = "queued"
        PROVE  \E i \in 1..Len(queue') : queue'[i] = k
    <3>1. k # Head(queue) /\ status[k] = "queued"
      BY <1>1, <2>2 DEF IInv, TypeOK
    <3>2. PICK i \in 1..Len(queue) : queue[i] = k
      BY <3>1 DEF SInv, Backlog
    <3>3. i # 1
      BY <2>1, <3>1, <3>2
    <3>4. i - 1 \in 1..Len(queue') /\ queue'[i - 1] = k
      BY <2>1, <3>2, <3>3
    <3>5. QED
      BY <3>4
  <2>3. ASSUME NEW k \in Tasks, status'[k] = "running"
        PROVE  \E v \in Workers : pc'[v] = "running" /\ job'[v] = k
    <3>1. CASE k = Head(queue)
      BY <1>1, <3>1, ThreadFacts DEF IInv, TypeOK
    <3>2. CASE k # Head(queue)
      <4>1. status[k] = "running"
        BY <1>1, <2>3, <3>2 DEF IInv, TypeOK
      <4>2. PICK v \in Workers : pc[v] = "running" /\ job[v] = k
        BY <4>1 DEF SInv, Backlog
      <4>3. v # w
        BY <1>1, <4>2
      <4>4. pc'[v] = "running" /\ job'[v] = k
        BY <1>1, <4>2, <4>3, ThreadFacts DEF IInv, TypeOK
      <4>5. QED
        BY <4>4
    <3>3. QED
      BY <3>1, <3>2
  <2>4. QED
    BY <2>2, <2>3 DEF Backlog
<1>5. QED
  BY <1>2, <1>3, <1>4 DEF SInv

(* A worker that finds nothing sleeps on work_available, not on idle. *)
LEMMA RestShutdown ==
  ASSUME IInv, SInv, NEW w \in Workers, Rest(w)
  PROVE  SInv'
<1>1. /\ pc[w] = "lock" /\ pc' = [pc EXCEPT ![w] = "asleep"]
      /\ cond'["idle"] = cond["idle"] /\ mutex' = mutex
      /\ UNCHANGED <<items, flags, birth, index, job, history>>
  BY SleepingTable DEF Rest, Sleep, Goto, IInv, TypeOK
<1>2. Idling'
  BY <1>1, PlainMove, ThreadFacts
  DEF IInv, SInv, IdleSleep, InBroadcast, flags, items, Drained
<1>3. Leadership' /\ Joining' /\ Possession'
  BY <1>1, WorkerMove DEF history
<1>4. Backlog'
  BY <1>1, SameBacklog, ThreadFacts DEF SInv, IInv, TypeOK, items, history
<1>5. QED
  BY <1>2, <1>3, <1>4 DEF SInv

LEMMA ExitShutdown ==
  ASSUME IInv, SInv, NEW w \in Workers, Exit(w)
  PROVE  SInv'
<1>1. /\ pc[w] = "lock" /\ pc' = [pc EXCEPT ![w] = "exited"]
      /\ UNCHANGED <<items, flags, mutex, cond, birth, index, job, history>>
  BY DEF Exit, Goto
<1>2. Idling'
  BY <1>1, PlainMove, ThreadFacts
  DEF IInv, SInv, IdleSleep, InBroadcast, flags, items, Drained
<1>3. Leadership' /\ Joining' /\ Possession'
  BY <1>1, WorkerMove DEF history
<1>4. Backlog'
  BY <1>1, SameBacklog, ThreadFacts DEF SInv, IInv, TypeOK, items, history
<1>5. QED
  BY <1>2, <1>3, <1>4 DEF SInv

(* A task that returns is no longer running. *)
LEMMA RunShutdown ==
  ASSUME IInv, SInv, NEW w \in Workers, Run(w)
  PROVE  SInv'
<1>1. /\ pc[w] = "running" /\ pc' = [pc EXCEPT ![w] = "finishing"]
      /\ status' = [status EXCEPT ![job[w]] = "done"]
      /\ job' = [job EXCEPT ![w] = None]
      /\ UNCHANGED <<items, flags, mutex, cond, birth, index, joins>>
  BY DEF Run, Goto
<1>2. Idling'
  BY <1>1, PlainMove, ThreadFacts
  DEF IInv, SInv, IdleSleep, InBroadcast, flags, items, Drained
<1>3. Leadership' /\ Joining' /\ Possession'
  BY <1>1, WorkerMove
<1>4. Backlog'
  <2>1. ASSUME NEW k \in Tasks, status'[k] = "queued"
        PROVE  \E i \in 1..Len(queue') : queue'[i] = k
    <3>1. status[k] = "queued"
      BY <1>1, <2>1 DEF IInv, TypeOK
    <3>2. QED
      BY <1>1, <3>1 DEF SInv, Backlog, items
  <2>2. ASSUME NEW k \in Tasks, status'[k] = "running"
        PROVE  \E v \in Workers : pc'[v] = "running" /\ job'[v] = k
    <3>1. status[k] = "running" /\ k # job[w]
      BY <1>1, <2>2 DEF IInv, TypeOK
    <3>2. PICK v \in Workers : pc[v] = "running" /\ job[v] = k
      BY <3>1 DEF SInv, Backlog
    <3>3. v # w
      BY <3>1, <3>2
    <3>4. pc'[v] = "running" /\ job'[v] = k
      BY <1>1, <3>2, <3>3, ThreadFacts DEF IInv, TypeOK
    <3>5. QED
      BY <3>4
  <2>3. QED
    BY <2>1, <2>2 DEF Backlog
<1>5. QED
  BY <1>2, <1>3, <1>4 DEF SInv

(* The last active worker of a drained pool broadcasts idle; another one
   leaves the pool undrained. *)
LEMMA FinishShutdown ==
  ASSUME IInv, SInv, NEW w \in Workers, Finish(w)
  PROVE  SInv'
<1>1. /\ pc[w] = "finishing" /\ mutex = None /\ active' = active - 1
      /\ UNCHANGED <<queue, queued, flags, birth, index, job, history>>
      /\ \/ BroadcastAndUnlock(w, "idleBroadcast")
         \/ /\ ~(queued = 0 /\ active = 1)
            /\ pc' = [pc EXCEPT ![w] = "lock"] /\ UNCHANGED <<cond, mutex>>
  BY DEF Finish, Goto
<1>2. \E q \in {"idleBroadcast", "lock"} : pc' = [pc EXCEPT ![w] = q]
  BY <1>1, BroadcastingTable DEF BroadcastAndUnlock, Goto
<1>3. Idling'
  <2>1. CASE BroadcastAndUnlock(w, "idleBroadcast")
    BY <1>1, <2>1, IdleBroadcastMove, ThreadFacts
    DEF IInv, SInv, OnIdle, IdleSleep, InBroadcast
  <2>2. CASE /\ ~(queued = 0 /\ active = 1)
             /\ pc' = [pc EXCEPT ![w] = "lock"] /\ UNCHANGED <<cond, mutex>>
    <3>1. ~Drained'
      BY <1>1, <2>2 DEF Drained, IInv, TypeOK
    <3>2. QED
      BY <1>1, <2>2, <3>1, PlainMove, ThreadFacts
      DEF IInv, SInv, IdleSleep, InBroadcast, flags
  <2>3. QED
    BY <1>1, <2>1, <2>2
<1>4. Leadership' /\ Joining' /\ Possession'
  BY <1>1, <1>2, WorkerMove DEF history
<1>5. Backlog'
  BY <1>1, <1>2, SameBacklog, ThreadFacts DEF SInv, IInv, TypeOK, history
<1>6. QED
  BY <1>3, <1>4, <1>5 DEF SInv

-----------------------------------------------------------------------------
(* The steps of the clients. *)

(* A client that moves between the places of wait and of a shutdown it does
   not newly lead, join or publish. *)
LEMMA ClientMove ==
  ASSUME IInv, SInv, NEW c \in Clients, NEW q,
         pc[c] \notin JoinPlaces \union Creating \union {"gone"},
         q \notin JoinPlaces \union Creating \union {"gone", "stopBroadcast",
                                                     "joinedBroadcast"},
         q \in {"drain", "draining"} => pc[c] \in {"drain", "draining"},
         pc[c] = "outside" => Usable,
         q = "outside" /\ c = Owner /\ retiring => joined,
         q \in {"wait", "waiting"} => pc[c] \in {"wait", "waiting"} \/ Usable,
         pc' = [pc EXCEPT ![c] = q],
         UNCHANGED <<flags, birth, index, joins>>
  PROVE  Leadership' /\ Joining' /\ Possession'
<1>1. /\ pc'[c] = q
      /\ \A d \in Clients : d # c => pc'[d] = pc[d]
      /\ \A v \in Workers : pc'[v] = pc[v]
  BY ThreadFacts DEF IInv, TypeOK
<1>2. Leadership'
  <2>1. \A d \in Clients : Leading(d)' => Leading(d)
    BY <1>1 DEF Leading, JoinPlaces
  <2>2. QED
    BY <1>1, <2>1 DEF SInv, Leadership, flags, JoinPlaces
<1>3. Joining'
  <2>1. \A d \in Clients : pc'[d] \in JoinPlaces <=> pc[d] \in JoinPlaces
    BY <1>1
  <2>2. \A d \in Clients : pc'[d] \in JoinPlaces => pc'[d] = pc[d]
    BY <1>1
  <2>3. QED
    BY <1>1, <2>1, <2>2 DEF SInv, Joining, flags
<1>4. Possession'
  <2>1. /\ pc'[Owner] \in Creating <=> pc[Owner] \in Creating
        /\ pc'[Owner] \in Creating \union {"gone"} => pc'[Owner] = pc[Owner]
    BY <1>1, ThreadFacts
  <2>2. pc'[Owner] \in Creating \/ retiring' =>
          \A d \in Clients \ {Owner} : pc'[d] = "outside"
    <3>1. SUFFICES ASSUME pc[Owner] \in Creating \/ retiring
                   PROVE  \A d \in Clients \ {Owner} : pc'[d] = "outside"
      BY <2>1 DEF birth
    <3>2. \A d \in Clients \ {Owner} : pc[d] = "outside"
      BY <3>1 DEF SInv, Possession
    <3>3. ~Usable
      <4>1. CASE retiring
        BY <4>1 DEF Usable
      <4>2. CASE pc[Owner] \in Creating
        BY <4>2, ThreadFacts DEF Usable, SInv, Possession
      <4>3. QED
        BY <3>1, <4>1, <4>2
    <3>4. c = Owner
      BY <3>2, <3>3
    <3>5. QED
      BY <1>1, <3>2, <3>4
  <2>3. retiring' => pc'[Owner] \notin {"wait", "waiting"}
    BY <1>1, ThreadFacts DEF SInv, Possession, Usable, birth
  <2>4. retiring' /\ pc'[Owner] \in {"outside", "gone"} => joined'
    BY <1>1, ThreadFacts DEF SInv, Possession, birth, flags
  <2>5. pc'[Owner] \notin {"building", "failed", "gone"} =>
          held' = AllResources
    BY <1>1, <2>1, ThreadFacts DEF SInv, Possession, birth, Creating
  <2>6. pc'[Owner] \in {"building", "failed", "gone"} => pc'[Owner] = pc[Owner]
    BY <2>1 DEF Creating
  <2>7. \A d \in Clients \ {Owner} : pc'[d] \notin Creating \union {"gone"}
    BY <1>1 DEF SInv, Possession
  <2>8. QED
    BY <1>1, <2>1, <2>2, <2>3, <2>4, <2>5, <2>6, <2>7
    DEF SInv, Possession, birth
<1>5. QED
  BY <1>2, <1>3, <1>4

(* A worker or a client leaves a condition. *)
LEMMA WakeShutdown ==
  ASSUME IInv, SInv, NEW t \in Threads, Wake(t)
  PROVE  SInv'
<1>1. /\ pc[t] \in DOMAIN Sleeping
      /\ pc' = [pc EXCEPT ![t] = Sleeping[pc[t]].then]
      /\ UNCHANGED <<items, flags, mutex, birth, index, job, history>>
  BY DEF Wake, Goto
<1>2. CASE t \in Workers
  <2>1. pc[t] = "asleep" /\ pc' = [pc EXCEPT ![t] = "lock"]
    BY <1>1, <1>2, WakeEffect, ThreadFacts DEF IInv, WokenWorker
  <2>2. cond'["idle"] = cond["idle"]
    BY <2>1, SleepingTable DEF Wake, IInv, TypeOK
  <2>3. Idling'
    BY <1>1, <2>1, <2>2, PlainMove
    DEF IInv, SInv, IdleSleep, InBroadcast, flags, items, Drained
  <2>4. Leadership' /\ Joining' /\ Possession'
    BY <1>1, <1>2, <2>1, WorkerMove DEF history
  <2>5. Backlog'
    BY <1>1, <2>1, SameBacklog, ThreadFacts
    DEF SInv, IInv, TypeOK, items, history
  <2>6. QED
    BY <2>3, <2>4, <2>5 DEF SInv
<1>3. CASE t \in Clients
  <2>1. \/ pc[t] = "waiting" /\ pc' = [pc EXCEPT ![t] = "wait"]
        \/ pc[t] = "draining" /\ pc' = [pc EXCEPT ![t] = "drain"]
        \/ pc[t] = "following" /\ pc' = [pc EXCEPT ![t] = "follow"]
    BY <1>1, <1>3, SleepingTable, ThreadFacts
    DEF IInv, TypeOK, ClientPlaces
  <2>2. Idling'
    BY <1>3, <2>1, IdleWakeMove DEF IInv, SInv, IdleSleep
  <2>3. Leadership' /\ Joining' /\ Possession'
    <3>1. PICK q \in {"wait", "drain", "follow"} :
            /\ pc' = [pc EXCEPT ![t] = q]
            /\ q = "wait" => pc[t] = "waiting"
            /\ q = "drain" => pc[t] = "draining"
            /\ pc[t] \in IdleSleep
      BY <2>1 DEF IdleSleep
    <3>2. QED
      BY <1>1, <1>3, <3>1, ClientMove
      DEF JoinPlaces, Creating, IdleSleep, history
  <2>4. Backlog'
    BY <1>1, <1>3, <2>1, SameBacklog, ThreadFacts
    DEF SInv, IInv, TypeOK, items, history
  <2>5. QED
    BY <2>2, <2>3, <2>4 DEF SInv
<1>4. QED
  BY <1>2, <1>3 DEF Threads

(* A submission moves nobody; the task it queues is at the end of the list. *)
LEMMA SubmitShutdown ==
  ASSUME IInv, SInv, NEW t \in Threads, NEW k \in Tasks, Submit(t, k)
  PROVE  SInv'
<1>1. /\ UNCHANGED <<active, flags, mutex, birth, index, pc, job, owed, joins>>
      /\ status[k] \in {"new", "done"}
  BY DEF Submit
<1>2. \/ /\ queue' = Append(queue, k) /\ queued' = queued + 1
         /\ status' = [status EXCEPT ![k] = "queued"]
      \/ /\ UNCHANGED <<queue, queued>>
         /\ status' = [status EXCEPT ![k] = "rejected"]
  BY DEF Submit
<1>3. cond'["idle"] = cond["idle"]
  BY DEF Submit, IInv, TypeOK
<1>4. Idling'
  <2>1. Drained' => Drained
    BY <1>1, <1>2 DEF Drained, IInv, TypeOK
  <2>2. QED
    BY <1>1, <1>3, <2>1, NoMove DEF SInv, flags
<1>5. Leadership' /\ Joining' /\ Possession'
  BY <1>1
  DEF SInv, Leadership, Leading, Joining, Possession, flags, birth
<1>6. Backlog'
  <2>1. ASSUME NEW j \in Tasks, status'[j] = "queued"
        PROVE  \E i \in 1..Len(queue') : queue'[i] = j
    <3>1. CASE j = k
      <4>1. /\ queue' = Append(queue, k) /\ queue \in Seq(Tasks)
        BY <1>1, <1>2, <2>1, <3>1 DEF IInv, TypeOK
      <4>2. /\ Len(queue) + 1 \in 1..Len(queue')
            /\ queue'[Len(queue) + 1] = k
        BY <4>1
      <4>3. QED
        BY <3>1, <4>2
    <3>2. CASE j # k
      <4>1. status[j] = "queued" /\ queue \in Seq(Tasks)
        BY <1>2, <2>1, <3>2 DEF IInv, TypeOK
      <4>2. PICK i \in 1..Len(queue) : queue[i] = j
        BY <4>1 DEF SInv, Backlog
      <4>3. i \in 1..Len(queue') /\ queue'[i] = j
        BY <1>2, <4>1, <4>2
      <4>4. QED
        BY <4>3
    <3>3. QED
      BY <3>1, <3>2
  <2>2. ASSUME NEW j \in Tasks, status'[j] = "running"
        PROVE  \E v \in Workers : pc'[v] = "running" /\ job'[v] = j
    <3>1. status[j] = "running"
      BY <1>1, <1>2, <2>2 DEF IInv, TypeOK
    <3>2. QED
      BY <1>1, <3>1 DEF SInv, Backlog
  <2>3. QED
    BY <2>1, <2>2 DEF Backlog
<1>7. QED
  BY <1>4, <1>5, <1>6 DEF SInv

(* A client begins a wait or a shutdown of a pool that is complete. *)
LEMMA CallShutdown ==
  ASSUME IInv, SInv, NEW c \in Clients, Call(c)
  PROVE  SInv'
<1>1. /\ pc[c] = "outside" /\ Usable
      /\ UNCHANGED <<items, flags, mutex, cond, birth, index, job, status,
                     joins>>
  BY DEF Call
<1>2. PICK q \in {"wait", "enter"} : pc' = [pc EXCEPT ![c] = q]
  BY DEF Call, Goto
<1>3. Idling'
  BY <1>1, <1>2, PlainMove, ThreadFacts
  DEF IInv, SInv, IdleSleep, InBroadcast, flags, items, Drained
<1>4. Leadership' /\ Joining' /\ Possession'
  BY <1>1, <1>2, ClientMove DEF JoinPlaces, Creating
<1>5. Backlog'
  BY <1>1, <1>2, SameBacklog, ThreadFacts DEF SInv, IInv, TypeOK, items
<1>6. QED
  BY <1>3, <1>4, <1>5 DEF SInv

(* wait returns from a drained pool and sleeps otherwise. *)
LEMMA WaitStepShutdown ==
  ASSUME IInv, SInv, NEW c \in Clients, WaitStep(c)
  PROVE  SInv'
<1>1. /\ pc[c] = "wait" /\ mutex = None
      /\ UNCHANGED <<items, flags, mutex, birth, index, job, history>>
  BY DEF WaitStep
<1>2. \/ pc' = [pc EXCEPT ![c] = "outside"] /\ UNCHANGED cond
      \/ ~Drained /\ Sleep(c, "waiting")
  BY DEF WaitStep, Goto
<1>3. PICK q \in {"outside", "waiting"} : pc' = [pc EXCEPT ![c] = q]
  BY <1>2 DEF Sleep, Goto
<1>4. Idling'
  <2>1. CASE pc' = [pc EXCEPT ![c] = "outside"] /\ UNCHANGED cond
    BY <1>1, <2>1, PlainMove, ThreadFacts
    DEF IInv, SInv, IdleSleep, InBroadcast, flags, items, Drained
  <2>2. CASE ~Drained /\ Sleep(c, "waiting")
    BY <1>1, <2>2, IdleSleepMove
    DEF IInv, SInv, IdleSleep, InBroadcast, flags, items, Drained
  <2>3. QED
    BY <1>2, <2>1, <2>2
<1>5. Leadership' /\ Joining' /\ Possession'
  <2>1. ~(c = Owner /\ retiring)
    BY <1>1 DEF SInv, Possession
  <2>2. QED
    BY <1>1, <1>3, <2>1, ClientMove DEF JoinPlaces, Creating, history
<1>6. Backlog'
  BY <1>1, <1>3, SameBacklog, ThreadFacts
  DEF SInv, IInv, TypeOK, items, history
<1>7. QED
  BY <1>4, <1>5, <1>6 DEF SInv

(* A second caller returns from a closed pool and sleeps otherwise. *)
LEMMA FollowShutdown ==
  ASSUME IInv, SInv, NEW c \in Clients, ShutdownFollow(c)
  PROVE  SInv'
<1>1. /\ pc[c] \in {"enter", "follow"} /\ mutex = None
      /\ UNCHANGED <<items, flags, mutex, birth, index, job, history>>
  BY DEF ShutdownFollow
<1>2. \/ joined /\ pc' = [pc EXCEPT ![c] = "outside"] /\ UNCHANGED cond
      \/ ~joined /\ Sleep(c, "following")
  BY DEF ShutdownFollow, Goto
<1>3. PICK q \in {"outside", "following"} :
        pc' = [pc EXCEPT ![c] = q] /\ (q = "outside" => joined)
  BY <1>2 DEF Sleep, Goto
<1>4. Idling'
  <2>1. CASE pc' = [pc EXCEPT ![c] = "outside"] /\ UNCHANGED cond
    BY <1>1, <2>1, PlainMove, ThreadFacts
    DEF IInv, SInv, IdleSleep, InBroadcast, flags, items, Drained
  <2>2. CASE ~joined /\ Sleep(c, "following")
    BY <1>1, <2>2, IdleSleepMove
    DEF IInv, SInv, IdleSleep, InBroadcast, flags, items, Drained
  <2>3. QED
    BY <1>2, <2>1, <2>2
<1>5. Leadership' /\ Joining' /\ Possession'
  BY <1>1, <1>3, ClientMove DEF JoinPlaces, Creating, history
<1>6. Backlog'
  BY <1>1, <1>3, SameBacklog, ThreadFacts
  DEF SInv, IInv, TypeOK, items, history
<1>7. QED
  BY <1>4, <1>5, <1>6 DEF SInv

(* A client that comes to lead a shutdown, or goes on leading it, up to its
   first pthread_join. *)
LEMMA LeaderMove ==
  ASSUME IInv, SInv, NEW c \in Clients,
         NEW q \in {"draining", "stopBroadcast", "join"},
         pc[c] \in {"enter", "drain", "stopBroadcast"},
         pc[c] = "enter" => ~joining,
         pc' = [pc EXCEPT ![c] = q],
         joining', ~joined, joined' = joined, stopping => stopping',
         q # "draining" => stopping',
         UNCHANGED <<birth, index, joins>>
  PROVE  Leadership' /\ Joining' /\ Possession'
<1>1. /\ pc'[c] = q
      /\ \A d \in Clients : d # c => pc'[d] = pc[d]
      /\ \A v \in Workers : pc'[v] = pc[v]
  BY ThreadFacts DEF IInv, TypeOK
<1>2. \A d \in Clients : Leading(d) => d = c
  BY DEF SInv, Leadership, Leading
<1>3. Leadership'
  <2>1. \A d \in Clients : Leading(d)' => d = c
    BY <1>1, <1>2 DEF Leading
  <2>2. \A d \in Clients : pc'[d] \in {"stopBroadcast", "join"} => d = c
    BY <2>1 DEF Leading
  <2>3. \A d \in Clients : pc'[d] # "joinedBroadcast"
    BY <1>1 DEF SInv, Leadership
  <2>4. \A d \in Clients : pc'[d] \in {"stopBroadcast", "join"} => stopping'
    BY <1>1, <2>2
  <2>5. \A d, e \in Clients : Leading(d)' /\ Leading(e)' => d = e
    BY <2>1
  <2>6. QED
    BY <2>3, <2>4, <2>5 DEF Leadership
<1>4. Possession'
  <2>1. /\ pc[Owner] \notin Creating /\ pc[Owner] # "gone"
    BY DEF SInv, Possession, Creating
  <2>2. /\ pc'[Owner] \notin Creating /\ pc'[Owner] # "gone"
        /\ pc'[Owner] \notin {"wait", "waiting", "outside"} \/ pc'[Owner] = pc[Owner]
    BY <1>1, <2>1, ThreadFacts DEF Creating
  <2>3. retiring => \A d \in Clients \ {Owner} : pc[d] = "outside"
    BY DEF SInv, Possession
  <2>4. retiring => \A d \in Clients \ {Owner} : pc'[d] = "outside"
    BY <1>1, <2>3
  <2>5. \A d \in Clients \ {Owner} : pc'[d] \notin Creating \union {"gone"}
    BY <1>1 DEF SInv, Possession, Creating
  <2>6. pc[Owner] \notin {"building", "failed"}
    BY <2>1 DEF Creating
  <2>7. held' = AllResources
    BY <2>1, <2>6 DEF SInv, Possession, birth
  <2>8. ~(created' < WorkerCount)
    BY <2>1 DEF SInv, Possession, birth
  <2>9. retiring' => pc'[Owner] \notin {"wait", "waiting"}
    BY <1>1, <2>2 DEF SInv, Possession, birth
  <2>10. retiring' /\ pc'[Owner] \in {"outside", "gone"} => joined'
    BY <1>1, <2>2 DEF SInv, Possession, birth
  <2>11. pc'[Owner] \notin {"building", "failed", "gone"}
    BY <2>2 DEF Creating
  <2>12. QED
    BY <2>2, <2>4, <2>5, <2>7, <2>8, <2>9, <2>10, <2>11
    DEF Possession, birth
<1>5. Joining'
  <2>1. \A d \in Clients : pc[d] \notin JoinPlaces
    <3>1. \A d \in Clients : pc[d] # "join"
      BY <1>2 DEF Leading
    <3>2. pc[Owner] \notin {"abandonJoin", "failed"}
      BY DEF SInv, Possession, Creating
    <3>3. \A d \in Clients : pc[d] \notin {"abandonJoin", "failed"}
      BY <3>2 DEF SInv, Possession, Creating
    <3>4. QED
      BY <3>1, <3>3 DEF JoinPlaces
  <2>2. /\ \A d \in Clients : index[d] = 0
        /\ \A v \in Workers : joins[v] = 0
    BY <2>1 DEF SInv, Joining
  <2>3. \A v \in Workers : ~(v <= 0)
    BY ThreadFacts DEF Workers
  <2>4. QED
    BY <2>2, <2>3 DEF Joining
<1>6. QED
  BY <1>3, <1>4, <1>5

(* What a leader does next: it sleeps until the pool is drained, or stops
   the workers of a drained pool and wakes them. *)
LEMMA DrainOrStop ==
  ASSUME IInv, SInv, NEW c \in Clients, DrainThenStop(c), mutex = None,
         pc[c] \in {"enter", "drain"}, pc[c] = "enter" => ~joining,
         joining', ~joined, joined' = joined,
         UNCHANGED <<items, birth, index, job, history>>
  PROVE  SInv'
<1>1. PICK q \in {"draining", "stopBroadcast", "join"} :
        /\ pc' = [pc EXCEPT ![c] = q]
        /\ q # "draining" => stopping'
        /\ stopping => stopping'
  BY BroadcastingTable
  DEF DrainThenStop, BroadcastAndUnlock, Sleep, Goto
<1>2. Leadership' /\ Joining' /\ Possession'
  BY <1>1, LeaderMove DEF history
<1>3. Backlog'
  BY <1>1, SameBacklog, ThreadFacts DEF SInv, IInv, TypeOK, items, history
<1>4. Idling'
  <2>1. CASE Drained
    <3>1. BroadcastAndUnlock(c, "stopBroadcast")
      BY <2>1 DEF DrainThenStop
    <3>2. QED
      BY <3>1, WorkBroadcastMove, ThreadFacts
      DEF IInv, SInv, IdleSleep, InBroadcast, items, Drained
  <2>2. CASE ~Drained
    <3>1. Sleep(c, "draining") /\ mutex' = mutex
      BY <2>2 DEF DrainThenStop
    <3>2. QED
      BY <2>2, <3>1, IdleSleepMove
      DEF IInv, SInv, IdleSleep, InBroadcast, items, Drained
  <2>3. QED
    BY <2>1, <2>2
<1>5. QED
  BY <1>2, <1>3, <1>4 DEF SInv

LEMMA LeadShutdown ==
  ASSUME IInv, SInv, NEW c \in Clients, ShutdownLead(c)
  PROVE  SInv'
BY DrainOrStop DEF ShutdownLead

LEMMA DrainShutdown ==
  ASSUME IInv, SInv, NEW c \in Clients, ShutdownDrain(c)
  PROVE  SInv'
<1>1. joining /\ ~joined
  BY DEF ShutdownDrain, SInv, Leadership, Leading
<1>2. QED
  BY <1>1, DrainOrStop DEF ShutdownDrain

(* The owner goes on with a creation that has failed: nobody else is inside
   the pool, and no shutdown has begun. *)
LEMMA CreatorMove ==
  ASSUME IInv, SInv,
         NEW q \in {"abandon", "abandonBroadcast", "abandonJoin", "failed"},
         pc[Owner] \in {"building", "abandon", "abandonBroadcast",
                        "abandonJoin"},
         pc[Owner] = "abandonJoin" => q = "failed",
         pc' = [pc EXCEPT ![Owner] = q],
         UNCHANGED <<joining, joined, created, retiring, index, joins>>,
         IF q = "failed"
           THEN held' = {} /\ \A w \in Workers : pc[w] \in {"unborn", "exited"}
           ELSE held' = AllResources
  PROVE  Leadership' /\ Joining' /\ Possession'
<1>1. /\ pc'[Owner] = q
      /\ \A d \in Clients : d # Owner => pc'[d] = pc[d]
      /\ \A v \in Workers : pc'[v] = pc[v]
  BY ThreadFacts DEF IInv, TypeOK
<1>2. /\ \A d \in Clients \ {Owner} : pc[d] = "outside"
      /\ created < WorkerCount /\ ~retiring
  BY DEF SInv, Possession, Creating
<1>3. ~joining /\ ~joined
  BY <1>2 DEF IInv, Lifecycle, SInv, Leadership
<1>4. Leadership'
  <2>1. \A d \in Clients :
          pc'[d] \notin {"drain", "draining", "stopBroadcast", "join",
                         "joinedBroadcast"}
    BY <1>1, <1>2
  <2>2. QED
    BY <1>3, <2>1 DEF Leadership, Leading
<1>5. Joining'
  <2>1. \A d \in Clients : d # Owner => pc[d] \notin JoinPlaces
    BY <1>2 DEF JoinPlaces
  <2>2. CASE pc[Owner] = "abandonJoin"
    <3>1. pc[Owner] \in JoinPlaces /\ pc'[Owner] \in JoinPlaces
      BY <1>1, <2>2 DEF JoinPlaces
    <3>2. \A d \in Clients : d # Owner =>
            pc'[d] \notin JoinPlaces /\ index'[d] = 0
      BY <1>1, <2>1 DEF SInv, Joining
    <3>3. \A v \in Workers :
            /\ joins'[v] = IF v <= index'[Owner] THEN 1 ELSE 0
            /\ v <= index'[Owner] => pc'[v] = "exited"
      BY <1>1, <3>1, ThreadFacts DEF SInv, Joining
    <3>4. QED
      BY <1>3, <3>1, <3>2, <3>3, ThreadFacts DEF Joining
  <2>3. CASE pc[Owner] # "abandonJoin"
    <3>1. \A d \in Clients : pc[d] \notin JoinPlaces
      BY <2>1, <2>3 DEF JoinPlaces
    <3>2. /\ \A d \in Clients : index[d] = 0
          /\ \A v \in Workers : joins[v] = 0
      BY <1>3, <3>1 DEF SInv, Joining
    <3>3. \A v \in Workers : ~(v <= 0)
      BY ThreadFacts DEF Workers
    <3>4. QED
      BY <1>3, <3>2, <3>3 DEF Joining
  <2>4. QED
    BY <2>2, <2>3
<1>6. Possession'
  BY <1>1, <1>2 DEF Possession, Creating
<1>7. QED
  BY <1>4, <1>5, <1>6

(* A broadcast that is over leaves its caller past it. *)
LEMMA ReturnShutdown ==
  ASSUME IInv, SInv, NEW t \in Threads, BroadcastReturns(t)
  PROVE  SInv'
<1>1. /\ pc[t] \in DOMAIN Broadcasting
      /\ pc' = [pc EXCEPT ![t] = Broadcasting[pc[t]].then]
      /\ UNCHANGED <<items, flags, birth, index, job, history>>
  BY DEF BroadcastReturns, Goto
<1>2. Idling'
  BY ReturnMove DEF IInv, SInv
<1>3. \/ t \in Workers /\ pc[t] = "idleBroadcast"
      \/ t \in Clients /\ pc[t] \in {"stopBroadcast", "joinedBroadcast",
                                     "abandonBroadcast"}
  BY <1>1, ReturnEffect DEF IInv, PastBroadcast
<1>4. Backlog'
  BY <1>1, <1>3, SameBacklog, BroadcastingTable, ThreadFacts
  DEF SInv, IInv, TypeOK, items, history
<1>5. Leadership' /\ Joining' /\ Possession'
  <2>1. CASE t \in Workers /\ pc[t] = "idleBroadcast"
    BY <1>1, <2>1, WorkerMove DEF history
  <2>2. CASE t \in Clients /\ pc[t] = "stopBroadcast"
    <3>1. joining /\ ~joined /\ stopping
      BY <2>2 DEF SInv, Leadership, Leading
    <3>2. pc' = [pc EXCEPT ![t] = "join"]
      BY <1>1, <2>2, BroadcastingTable
    <3>3. QED
      BY <1>1, <2>2, <3>1, <3>2, LeaderMove DEF flags, history
  <2>3. CASE t \in Clients /\ pc[t] = "joinedBroadcast"
    <3>1. joined
      BY <2>3 DEF SInv, Leadership
    <3>2. pc' = [pc EXCEPT ![t] = "outside"]
      BY <1>1, <2>3, BroadcastingTable
    <3>3. QED
      BY <1>1, <2>3, <3>1, <3>2, ClientMove
      DEF JoinPlaces, Creating, history
  <2>4. CASE t \in Clients /\ pc[t] = "abandonBroadcast"
    <3>1. pc' = [pc EXCEPT ![t] = "abandonJoin"]
      BY <1>1, <2>4, BroadcastingTable
    <3>2. t = Owner
      BY <2>4 DEF SInv, Possession, Creating
    <3>3. held = AllResources
      BY <2>4, <3>2 DEF SInv, Possession
    <3>4. QED
      BY <1>1, <2>4, <3>1, <3>2, <3>3, CreatorMove DEF flags, birth, history
  <2>5. QED
    BY <1>3, <2>1, <2>2, <2>3, <2>4
<1>6. QED
  BY <1>2, <1>4, <1>5 DEF SInv

(* At most one thread joins the workers, and then no shutdown is complete. *)
LEMMA OneJoiner ==
  ASSUME IInv, SInv, NEW c \in Clients, pc[c] \in {"join", "abandonJoin"}
  PROVE  ~joined /\ \A d \in Clients : pc[d] \in JoinPlaces => d = c
<1>1. CASE pc[c] = "join"
  <2>1. joining /\ ~joined /\ \A d \in Clients : pc[d] = "join" => d = c
    BY <1>1 DEF SInv, Leadership, Leading
  <2>2. \A d \in Clients : pc[d] \notin {"abandonJoin", "failed"}
    BY <2>1 DEF IInv, Lifecycle, SInv, Possession, Creating
  <2>3. QED
    BY <2>1, <2>2 DEF JoinPlaces
<1>2. CASE pc[c] = "abandonJoin"
  <2>1. c = Owner
    BY <1>2 DEF SInv, Possession, Creating
  <2>2. /\ created < WorkerCount
        /\ \A d \in Clients \ {Owner} : pc[d] = "outside"
    BY <1>2, <2>1 DEF SInv, Possession, Creating
  <2>3. ~joined
    BY <2>2 DEF IInv, Lifecycle, SInv, Leadership
  <2>4. QED
    BY <2>1, <2>2, <2>3 DEF JoinPlaces
<1>3. QED
  BY <1>1, <1>2

(* pthread_join of the next worker. *)
LEMMA JoinNextShutdown ==
  ASSUME IInv, SInv, NEW c \in Clients, JoinNext(c)
  PROVE  SInv'
<1> DEFINE w == index[c] + 1
<1>1. /\ pc[c] \in {"join", "abandonJoin"} /\ index[c] < WorkerCount
      /\ pc[w] = "exited"
      /\ index' = [index EXCEPT ![c] = index[c] + 1]
      /\ joins' = [joins EXCEPT ![w] = @ + 1]
      /\ UNCHANGED <<items, flags, mutex, cond, birth, pc, job, status, owed>>
  BY ThreadFacts DEF JoinNext, IInv, TypeOK
<1>2. index[c] \in 0..WorkerCount /\ w \in Workers
  BY <1>1, ThreadFacts DEF IInv, TypeOK, Workers
<1>3. Idling'
  BY <1>1, NoMove DEF SInv, flags, items, Drained
<1>4. Leadership' /\ Backlog' /\ Possession'
  BY <1>1
  DEF SInv, Leadership, Leading, Backlog, Possession, flags, birth, items
<1>5. Joining'
  <2>1. ~joined /\ \A d \in Clients : pc[d] \in JoinPlaces => d = c
    BY <1>1, OneJoiner
  <2>2. pc[c] \in JoinPlaces
    BY <1>1 DEF JoinPlaces
  <2>3. ASSUME NEW v \in Workers
        PROVE  /\ joins'[v] = IF v <= index'[c] THEN 1 ELSE 0
               /\ v <= index'[c] => pc'[v] = "exited"
    <3>1. /\ joins[v] = IF v <= index[c] THEN 1 ELSE 0
          /\ v <= index[c] => pc[v] = "exited"
      BY <2>2 DEF SInv, Joining
    <3>2. v \in Nat /\ index'[c] = w
      BY <1>1, ThreadFacts DEF IInv, TypeOK, Workers
    <3>3. joins'[v] = IF v = w THEN joins[v] + 1 ELSE joins[v]
      BY <1>1 DEF IInv, TypeOK
    <3>4. CASE v = w
      <4>1. joins[v] = 0
        BY <1>2, <3>1, <3>2, <3>4
      <4>2. QED
        BY <1>1, <3>2, <3>3, <3>4, <4>1
    <3>5. CASE v # w
      <4>1. v <= w <=> v <= index[c]
        BY <1>2, <3>2, <3>5
      <4>2. QED
        BY <1>1, <3>1, <3>2, <3>3, <3>5, <4>1
    <3>6. QED
      BY <3>4, <3>5
  <2>4. \A d \in Clients : d # c => index'[d] = index[d]
    BY <1>1 DEF IInv, TypeOK
  <2>5. \A d \in Clients : pc'[d] \notin JoinPlaces => index'[d] = 0
    BY <1>1, <2>2, <2>4 DEF SInv, Joining
  <2>6. QED
    BY <1>1, <2>1, <2>2, <2>3, <2>5 DEF Joining, flags
<1>6. QED
  BY <1>3, <1>4, <1>5 DEF SInv

(* joined is set when the last worker has been joined. *)
LEMMA PublishShutdown ==
  ASSUME IInv, SInv, NEW c \in Clients, ShutdownPublish(c)
  PROVE  SInv'
<1>1. /\ pc[c] = "join" /\ index[c] = WorkerCount /\ mutex = None
      /\ joined' = TRUE /\ index' = [index EXCEPT ![c] = 0]
      /\ BroadcastAndUnlock(c, "joinedBroadcast")
      /\ UNCHANGED <<items, accepting, stopping, joining, birth, job, history>>
  BY DEF ShutdownPublish
<1>2. PICK q \in {"joinedBroadcast", "outside"} : pc' = [pc EXCEPT ![c] = q]
  BY <1>1, BroadcastingTable DEF BroadcastAndUnlock, Goto
<1>3. /\ pc'[c] = q
      /\ \A d \in Clients : d # c => pc'[d] = pc[d]
      /\ \A v \in Workers : pc'[v] = pc[v]
  BY <1>2, ThreadFacts DEF IInv, TypeOK
<1>4. /\ joining /\ stopping
      /\ \A d \in Clients : Leading(d) => d = c
  BY <1>1 DEF SInv, Leadership, Leading
<1>5. \A d \in Clients : pc[d] \in JoinPlaces => d = c
  BY <1>1, OneJoiner
<1>6. Idling'
  BY <1>1, IdleBroadcastMove, ThreadFacts
  DEF IInv, SInv, OnIdle, IdleSleep, InBroadcast
<1>7. Leadership'
  <2>1. \A d \in Clients : ~Leading(d)'
    BY <1>3, <1>4 DEF Leading
  <2>2. QED
    BY <1>1, <1>4, <2>1 DEF Leadership, Leading
<1>8. Joining'
  <2>1. \A d \in Clients : pc'[d] \notin JoinPlaces
    BY <1>3, <1>5 DEF JoinPlaces
  <2>2. \A d \in Clients : index'[d] = 0
    BY <1>1, <1>5 DEF SInv, Joining, IInv, TypeOK
  <2>3. \A v \in Workers : v <= index[c]
    BY <1>1, ThreadFacts DEF Workers
  <2>4. pc[c] \in JoinPlaces
    BY <1>1 DEF JoinPlaces
  <2>5. \A v \in Workers : pc[v] = "exited" /\ joins[v] = 1
    BY <2>3, <2>4 DEF SInv, Joining
  <2>6. QED
    BY <1>1, <1>3, <2>1, <2>2, <2>5 DEF Joining, history
<1>9. Backlog'
  BY <1>1, <1>3, SameBacklog DEF SInv, items, history
<1>10. Possession'
  <2>1. pc[Owner] \notin Creating \union {"gone"}
    BY <1>1 DEF SInv, Possession, Creating
  <2>2. pc'[Owner] \notin Creating \union {"gone"}
    BY <1>3, <2>1, ThreadFacts DEF Creating
  <2>3. held = AllResources /\ ~(created < WorkerCount)
    BY <2>1 DEF SInv, Possession, Creating
  <2>4. \A d \in Clients \ {Owner} : pc'[d] \notin Creating \union {"gone"}
    BY <1>3 DEF SInv, Possession, Creating
  <2>5. retiring => /\ \A d \in Clients \ {Owner} : pc'[d] = "outside"
                    /\ pc'[Owner] \notin {"wait", "waiting"}
    BY <1>1, <1>3 DEF SInv, Possession
  <2>6. QED
    BY <1>1, <2>2, <2>3, <2>4, <2>5 DEF Possession, Creating, birth
<1>11. QED
  BY <1>6, <1>7, <1>8, <1>9, <1>10 DEF SInv

(* destroy begins with a call of shutdown that nobody else is in. *)
LEMMA DestroyShutdown ==
  ASSUME IInv, SInv, Destroy
  PROVE  SInv'
<1>1. /\ pc[Owner] = "outside" /\ Usable /\ retiring' = TRUE
      /\ \A c \in Clients \ {Owner} : pc[c] = "outside"
      /\ pc' = [pc EXCEPT ![Owner] = "enter"]
      /\ UNCHANGED <<items, flags, mutex, cond, held, created, index, job,
                     history>>
  BY DEF Destroy, Goto
<1>2. /\ pc'[Owner] = "enter"
      /\ \A d \in Clients : d # Owner => pc'[d] = pc[d]
      /\ \A v \in Workers : pc'[v] = pc[v]
  BY <1>1, ThreadFacts DEF IInv, TypeOK
<1>3. Idling'
  BY <1>1, PlainMove, ThreadFacts
  DEF IInv, SInv, IdleSleep, InBroadcast, flags, items, Drained
<1>4. Leadership'
  BY <1>1, <1>2 DEF SInv, Leadership, Leading, flags
<1>5. Joining'
  <2>1. \A d \in Clients : /\ pc[d] \notin JoinPlaces
                           /\ pc'[d] \notin JoinPlaces
    BY <1>1, <1>2 DEF JoinPlaces
  <2>2. QED
    BY <1>1, <1>2, <2>1 DEF SInv, Joining, flags, history
<1>6. Backlog'
  BY <1>1, <1>2, SameBacklog DEF SInv, items, history
<1>7. Possession'
  <2>1. held = AllResources /\ ~(created < WorkerCount)
    BY <1>1, ThreadFacts DEF Usable
  <2>2. QED
    BY <1>1, <1>2, <2>1 DEF Possession, Creating
<1>8. QED
  BY <1>3, <1>4, <1>5, <1>6, <1>7 DEF SInv

(* destroy releases the pool when its shutdown has returned. *)
LEMMA DestroyFreeShutdown ==
  ASSUME IInv, SInv, DestroyFree
  PROVE  SInv'
<1>1. /\ pc[Owner] = "outside" /\ retiring /\ held' = {}
      /\ pc' = [pc EXCEPT ![Owner] = "gone"]
      /\ UNCHANGED <<items, flags, mutex, cond, created, index, job, retiring,
                     history>>
  BY DEF DestroyFree, Goto
<1>2. /\ pc'[Owner] = "gone"
      /\ \A d \in Clients : d # Owner => pc'[d] = pc[d]
      /\ \A v \in Workers : pc'[v] = pc[v]
  BY <1>1, ThreadFacts DEF IInv, TypeOK
<1>3. /\ joined /\ \A c \in Clients \ {Owner} : pc[c] = "outside"
      /\ ~(created < WorkerCount)
  BY <1>1 DEF SInv, Possession, Creating
<1>4. \A v \in Workers : pc[v] = "exited"
  BY <1>3 DEF SInv, Joining
<1>5. Idling'
  BY <1>1, PlainMove, ThreadFacts
  DEF IInv, SInv, IdleSleep, InBroadcast, flags, items, Drained
<1>6. Leadership'
  BY <1>1, <1>2 DEF SInv, Leadership, Leading, flags
<1>7. Joining'
  <2>1. \A d \in Clients : /\ pc[d] \notin JoinPlaces
                           /\ pc'[d] \notin JoinPlaces
    BY <1>1, <1>2, <1>3 DEF JoinPlaces
  <2>2. QED
    BY <1>1, <1>2, <2>1 DEF SInv, Joining, flags, history
<1>8. Backlog'
  BY <1>1, <1>2, SameBacklog DEF SInv, items, history
<1>9. Possession'
  BY <1>1, <1>2, <1>3, <1>4 DEF Possession, Creating, flags
<1>10. QED
  BY <1>5, <1>6, <1>7, <1>8, <1>9 DEF SInv

-----------------------------------------------------------------------------
(* The steps of create. *)

(* create obtains its resources in the order of the table, and each early
   return releases exactly what there is. *)
LEMMA PrefixFacts ==
  ASSUME held \in Prefixes, Cardinality(held) < 5
  PROVE  /\ held \union {Resources[Cardinality(held) + 1]} \in Prefixes
         /\ held \ Unwound(Resources[Cardinality(held) + 1]) = {}
         /\ held # AllResources
<1> DEFINE P1 == {"pool"}
           P2 == {"pool", "threads"}
           P3 == {"pool", "threads", "mutex"}
           P4 == {"pool", "threads", "mutex", "work_available"}
           P5 == {"pool", "threads", "mutex", "work_available", "idle"}
<1> DEFINE P0 == {}
<1>0. Cardinality(P0) = 0
  BY FS_EmptySet
<1>1. Cardinality(P1) = 1 /\ IsFiniteSet(P1)
  BY FS_Singleton
<1>2. Cardinality(P2) = 2 /\ IsFiniteSet(P2)
  <2>1. P2 = P1 \union {"threads"} /\ "threads" \notin P1
    OBVIOUS
  <2>2. /\ Cardinality(P1 \union {"threads"}) = Cardinality(P1) + 1
        /\ IsFiniteSet(P1 \union {"threads"})
    <3> HIDE DEF P1
    <3> QED BY <1>1, <2>1, FS_AddElement
  <2>3. QED
    BY <1>1, <2>1, <2>2
<1>3. Cardinality(P3) = 3 /\ IsFiniteSet(P3)
  <2>1. P3 = P2 \union {"mutex"} /\ "mutex" \notin P2
    OBVIOUS
  <2>2. /\ Cardinality(P2 \union {"mutex"}) = Cardinality(P2) + 1
        /\ IsFiniteSet(P2 \union {"mutex"})
    <3> HIDE DEF P2
    <3> QED BY <1>2, <2>1, FS_AddElement
  <2>3. QED
    BY <1>2, <2>1, <2>2
<1>4. Cardinality(P4) = 4 /\ IsFiniteSet(P4)
  <2>1. P4 = P3 \union {"work_available"} /\ "work_available" \notin P3
    OBVIOUS
  <2>2. /\ Cardinality(P3 \union {"work_available"}) = Cardinality(P3) + 1
        /\ IsFiniteSet(P3 \union {"work_available"})
    <3> HIDE DEF P3
    <3> QED BY <1>3, <2>1, FS_AddElement
  <2>3. QED
    BY <1>3, <2>1, <2>2
<1>5. Cardinality(P5) = 5
  <2>1. P5 = P4 \union {"idle"} /\ "idle" \notin P4
    OBVIOUS
  <2>2. /\ Cardinality(P4 \union {"idle"}) = Cardinality(P4) + 1
        /\ IsFiniteSet(P4 \union {"idle"})
    <3> HIDE DEF P4
    <3> QED BY <1>4, <2>1, FS_AddElement
  <2>3. QED
    BY <1>4, <2>1, <2>2
<1>6. /\ Resources[1] = "pool" /\ Resources[2] = "threads"
      /\ Resources[3] = "mutex" /\ Resources[4] = "work_available"
      /\ Resources[5] = "idle"
  BY DEF Resources
<1>7. AllResources = P5
  <2>1. AllResources = {Resources[1], Resources[2], Resources[3],
                        Resources[4], Resources[5]}
    BY DEF AllResources
  <2>2. QED
    BY <1>6, <2>1
<1>8. held \in {P0, P1, P2, P3, P4}
  BY <1>5, <1>7 DEF Prefixes
<1>9. Prefixes = {P0, P1, P2, P3, P4, P5}
  BY <1>7 DEF Prefixes
<1>10. CASE held = P0
  BY <1>0, <1>6, <1>7, <1>9, <1>10 DEF Unwound
<1>11. CASE held = P1
  BY <1>1, <1>6, <1>7, <1>9, <1>11 DEF Unwound
<1>12. CASE held = P2
  BY <1>2, <1>6, <1>7, <1>9, <1>12 DEF Unwound
<1>13. CASE held = P3
  BY <1>3, <1>6, <1>7, <1>9, <1>13 DEF Unwound
<1>14. CASE held = P4
  BY <1>4, <1>6, <1>7, <1>9, <1>14 DEF Unwound
<1>15. QED
  BY <1>8, <1>10, <1>11, <1>12, <1>13, <1>14

LEMMA AcquireShutdown ==
  ASSUME IInv, SInv, Acquire
  PROVE  SInv'
<1>1. /\ pc[Owner] = "building" /\ Cardinality(held) < 5
      /\ held' = held \union {Resources[Cardinality(held) + 1]}
      /\ UNCHANGED <<items, stopping, joining, joined, mutex, cond, created,
                     index, pc, job, retiring, history>>
  BY DEF Acquire
<1>2. held' \in Prefixes /\ held # AllResources
  BY <1>1, PrefixFacts DEF SInv, Possession
<1>3. Idling'
  BY <1>1, NoMove DEF SInv, items, Drained
<1>4. Leadership' /\ Joining' /\ Backlog'
  BY <1>1
  DEF SInv, Leadership, Leading, Joining, Backlog, items, history
<1>5. Possession'
  <2>1. ~(created > 0)
    BY <1>1, <1>2 DEF SInv, Possession
  <2>2. QED
    BY <1>1, <1>2, <2>1 DEF SInv, Possession
<1>6. QED
  BY <1>3, <1>4, <1>5 DEF SInv

LEMMA AcquireFailsShutdown ==
  ASSUME IInv, SInv, AcquireFails
  PROVE  SInv'
<1>1. /\ pc[Owner] = "building" /\ Cardinality(held) < 5
      /\ held' = held \ Unwound(Resources[Cardinality(held) + 1])
      /\ pc' = [pc EXCEPT ![Owner] = "failed"]
      /\ UNCHANGED <<items, flags, mutex, cond, created, index, job, retiring,
                     history>>
  BY DEF AcquireFails, Goto
<1>2. held' = {} /\ held # AllResources
  BY <1>1, PrefixFacts DEF SInv, Possession
<1>3. \A w \in Workers : pc[w] = "unborn"
  <2>1. ~(created > 0)
    BY <1>1, <1>2 DEF SInv, Possession
  <2>2. \A w \in Workers : w > created
    BY <2>1, ThreadFacts DEF Workers, IInv, TypeOK
  <2>3. QED
    BY <2>2 DEF IInv, Lifecycle
<1>4. Idling'
  BY <1>1, PlainMove, ThreadFacts
  DEF IInv, SInv, IdleSleep, InBroadcast, flags, items, Drained
<1>5. Leadership' /\ Joining' /\ Possession'
  BY <1>1, <1>2, <1>3, CreatorMove DEF flags, history
<1>6. Backlog'
  BY <1>1, <1>3, SameBacklog DEF SInv, items, history
<1>7. QED
  BY <1>4, <1>5, <1>6 DEF SInv

(* The next worker begins; after the last one the pool is returned. *)
LEMMA StartWorkerShutdown ==
  ASSUME IInv, SInv, StartWorker
  PROVE  SInv'
<1> DEFINE w == created + 1
           q == IF w = WorkerCount THEN "outside" ELSE "building"
<1>0. q \in {"outside", "building"}
  OBVIOUS
<1>1. /\ pc[Owner] = "building" /\ held = AllResources /\ created' = w
      /\ pc' = [pc EXCEPT ![w] = "lock",
                          ![Owner] = IF w = WorkerCount THEN "outside" ELSE @]
      /\ UNCHANGED <<items, flags, mutex, cond, held, index, job, retiring,
                     history>>
  BY DEF StartWorker
<1>2. created < WorkerCount /\ created \in 0..WorkerCount /\ w \in Workers
  BY <1>1, ThreadFacts DEF SInv, Possession, Creating, IInv, TypeOK, Workers
<1>3. pc[w] = "unborn"
  BY <1>2, ThreadFacts DEF IInv, Lifecycle
<1>4. w # Owner
  BY <1>2, ThreadFacts
<1>5. /\ pc'[w] = "lock" /\ pc'[Owner] = q
      /\ \A t \in Threads : t # w /\ t # Owner => pc'[t] = pc[t]
  BY <1>1, <1>2, <1>4, ThreadFacts DEF IInv, TypeOK
<1>6. /\ \A d \in Clients \ {Owner} : pc[d] = "outside" /\ pc'[d] = "outside"
      /\ \A v \in Workers : v # w => pc'[v] = pc[v]
      /\ ~retiring /\ ~joining /\ ~joined
  <2>1. \A d \in Clients \ {Owner} : pc[d] = "outside"
    BY <1>1 DEF SInv, Possession, Creating
  <2>2. ~retiring /\ ~joining /\ ~joined
    BY <1>1, <1>2 DEF SInv, Possession, Creating, IInv, Lifecycle, Leadership
  <2>3. QED
    BY <1>2, <1>5, <2>1, <2>2, ThreadFacts
<1> HIDE DEF w, q
<1>7. Idling'
  <2>1. Broadcaster'
    <3>1. \A t \in Threads : pc'[t] \in InBroadcast <=> pc[t] \in InBroadcast
      BY <1>0, <1>1, <1>3, <1>5 DEF InBroadcast
    <3>2. QED
      BY <1>1, <3>1 DEF SInv, Idling, Broadcaster
  <2>2. IdleCondition'
    <3>1. \A d \in Clients : pc[d] \notin IdleSleep /\ pc'[d] \notin IdleSleep
      BY <1>0, <1>1, <1>5, <1>6 DEF IdleSleep
    <3>2. \A t \in Threads : pc'[t] \in OnIdle <=> pc[t] \in OnIdle
      BY <1>0, <1>1, <1>3, <1>5 DEF OnIdle
    <3>3. QED
      BY <1>1, <3>1, <3>2 DEF SInv, Idling, IdleCondition
  <2>3. Quiet'
    BY <1>5, <1>6, <1>0 DEF Quiet
  <2>4. QED
    BY <2>1, <2>2, <2>3 DEF Idling
<1>8. Leadership'
  BY <1>0, <1>1, <1>5, <1>6 DEF Leadership, Leading, flags
<1>9. Joining'
  <2>1. \A d \in Clients : pc[d] \notin JoinPlaces /\ pc'[d] \notin JoinPlaces
    BY <1>0, <1>1, <1>5, <1>6 DEF JoinPlaces
  <2>2. QED
    BY <1>1, <1>6, <2>1 DEF SInv, Joining, flags, history
<1>10. Backlog'
  BY <1>1, <1>3, <1>6, SameBacklog DEF SInv, items, history
<1>11. Possession'
  <2>1. pc'[Owner] \in Creating <=> created' < WorkerCount
    <3>1. w = created + 1
      BY DEF w
    <3>2. created' < WorkerCount <=> w # WorkerCount
      BY <1>1, <1>2, <3>1, ThreadFacts
    <3>3. QED
      BY <1>5, <3>2 DEF Creating, q
  <2>2. pc'[Owner] \in {"outside", "building"}
    BY <1>0, <1>5
  <2>3. held \in Prefixes
    BY <1>1 DEF Prefixes
  <2>4. QED
    BY <1>1, <1>6, <2>1, <2>2, <2>3 DEF Possession, Creating
<1>12. QED
  BY <1>7, <1>8, <1>9, <1>10, <1>11 DEF SInv

LEMMA StartWorkerFailsShutdown ==
  ASSUME IInv, SInv, StartWorkerFails
  PROVE  SInv'
<1>1. /\ pc[Owner] = "building" /\ held = AllResources
      /\ pc' = [pc EXCEPT ![Owner] = "abandon"]
      /\ UNCHANGED <<items, flags, mutex, cond, birth, index, job, history>>
  BY DEF StartWorkerFails, Goto
<1>2. Idling'
  BY <1>1, PlainMove, ThreadFacts
  DEF IInv, SInv, IdleSleep, InBroadcast, flags, items, Drained
<1>3. Leadership' /\ Joining' /\ Possession'
  BY <1>1, CreatorMove DEF flags, birth, history
<1>4. Backlog'
  BY <1>1, SameBacklog, ThreadFacts DEF SInv, IInv, TypeOK, items, history
<1>5. QED
  BY <1>2, <1>3, <1>4 DEF SInv

LEMMA AbandonShutdown ==
  ASSUME IInv, SInv, Abandon
  PROVE  SInv'
<1>1. /\ pc[Owner] = "abandon" /\ mutex = None
      /\ BroadcastAndUnlock(Owner, "abandonBroadcast")
      /\ UNCHANGED <<items, joining, joined, birth, index, job, history>>
  BY DEF Abandon
<1>2. PICK q \in {"abandonBroadcast", "abandonJoin"} :
        pc' = [pc EXCEPT ![Owner] = q]
  BY <1>1, BroadcastingTable DEF BroadcastAndUnlock, Goto
<1>3. held = AllResources
  BY <1>1 DEF SInv, Possession
<1>4. Idling'
  BY <1>1, WorkBroadcastMove, ThreadFacts
  DEF IInv, SInv, IdleSleep, InBroadcast, items, Drained
<1>5. Leadership' /\ Joining' /\ Possession'
  BY <1>1, <1>2, <1>3, CreatorMove DEF birth, history
<1>6. Backlog'
  BY <1>1, <1>2, SameBacklog, ThreadFacts
  DEF SInv, IInv, TypeOK, items, history
<1>7. QED
  BY <1>4, <1>5, <1>6 DEF SInv

(* The workers that were started are joined when the rest is released. *)
LEMMA AbandonFreeShutdown ==
  ASSUME IInv, SInv, AbandonFree
  PROVE  SInv'
<1>1. /\ pc[Owner] = "abandonJoin" /\ index[Owner] = created /\ held' = {}
      /\ pc' = [pc EXCEPT ![Owner] = "failed"]
      /\ UNCHANGED <<items, flags, mutex, cond, created, index, job, retiring,
                     history>>
  BY DEF AbandonFree, Goto
<1>2. \A v \in Workers : pc[v] \in {"unborn", "exited"}
  <2>1. pc[Owner] \in JoinPlaces
    BY <1>1 DEF JoinPlaces
  <2>2. \A v \in Workers : v <= created => pc[v] = "exited"
    BY <1>1, <2>1, ThreadFacts DEF SInv, Joining
  <2>3. \A v \in Workers : v <= created \/ v > created
    BY ThreadFacts DEF Workers, IInv, TypeOK
  <2>4. QED
    BY <2>2, <2>3 DEF IInv, Lifecycle
<1>3. Idling'
  BY <1>1, PlainMove, ThreadFacts
  DEF IInv, SInv, IdleSleep, InBroadcast, flags, items, Drained
<1>4. Leadership' /\ Joining' /\ Possession'
  BY <1>1, <1>2, CreatorMove DEF flags, history
<1>5. Backlog'
  BY <1>1, SameBacklog, ThreadFacts DEF SInv, IInv, TypeOK, items, history
<1>6. QED
  BY <1>3, <1>4, <1>5 DEF SInv

-----------------------------------------------------------------------------
(* The invariant and what follows from it. *)

LEMMA InitShutdown == Init => SInv
<1> SUFFICES ASSUME Init PROVE SInv
  OBVIOUS
<1>1. /\ \A w \in Workers : pc[w] = "unborn"
      /\ pc[Owner] = "building"
      /\ \A c \in Clients \ {Owner} : pc[c] = "outside"
      /\ \A t \in Threads : pc[t] \in {"unborn", "building", "outside"}
  BY ThreadFacts DEF Init
<1>2. \A c \in Clients : pc[c] \in {"building", "outside"}
  BY <1>1
<1>3. /\ mutex = None /\ created = 0 /\ held = {}
      /\ ~joining /\ ~joined /\ ~stopping /\ ~retiring
      /\ \A c \in Clients : index[c] = 0
      /\ \A w \in Workers : joins[w] = 0
      /\ \A k \in Tasks : status[k] = "new"
  BY DEF Init
<1>4. cond["idle"] = FreshCondition
  BY DEF Init
<1>5. Idling
  <2>1. Broadcaster
    BY <1>1, <1>3, ThreadFacts DEF Broadcaster, InBroadcast
  <2>2. IdleCondition
    BY <1>1, <1>2, <1>4 DEF IdleCondition, IdleSleep, OnIdle, FreshCondition
  <2>3. Quiet
    BY <1>2 DEF Quiet
  <2>4. QED
    BY <2>1, <2>2, <2>3 DEF Idling
<1>6. Leadership
  BY <1>2, <1>3 DEF Leadership, Leading
<1>7. Joining
  BY <1>2, <1>3 DEF Joining, JoinPlaces
<1>8. Backlog
  BY <1>3 DEF Backlog
<1>9. Possession
  BY <1>1, <1>3, ThreadFacts DEF Possession, Creating, Prefixes
<1>10. QED
  BY <1>5, <1>6, <1>7, <1>8, <1>9 DEF SInv

LEMMA NextShutdown == IInv /\ SInv /\ [Next]_vars => SInv'
<1> SUFFICES ASSUME IInv, SInv, [Next]_vars PROVE SInv'
  OBVIOUS
<1>1. CASE CreateStep
  BY <1>1, AcquireShutdown, AcquireFailsShutdown, StartWorkerShutdown,
     StartWorkerFailsShutdown, AbandonShutdown, AbandonFreeShutdown
  DEF CreateStep
<1>2. CASE Destroy \/ DestroyFree
  BY <1>2, DestroyShutdown, DestroyFreeShutdown
<1>3. ASSUME NEW w \in Workers, WorkerStep(w) PROVE SInv'
  BY <1>3, TakeShutdown, RestShutdown, ExitShutdown, RunShutdown,
     FinishShutdown DEF WorkerStep
<1>4. ASSUME NEW c \in Clients, Call(c) \/ ClientStep(c) PROVE SInv'
  BY <1>4, CallShutdown, WaitStepShutdown, LeadShutdown, FollowShutdown,
     DrainShutdown, JoinNextShutdown, PublishShutdown DEF ClientStep
<1>5. ASSUME NEW t \in Threads,
             ThreadStep(t) \/ \E k \in Tasks : Submit(t, k)
      PROVE  SInv'
  BY <1>5, WakeShutdown, ReturnShutdown, SubmitShutdown DEF ThreadStep
<1>6. CASE UNCHANGED vars
  <2>1. Idling'
    BY <1>6, NoMove DEF SInv, Drained, vars
  <2>2. Leadership' /\ Joining'
    BY <1>6 DEF SInv, Leadership, Leading, Joining, vars
  <2>3. Backlog' /\ Possession'
    BY <1>6 DEF SInv, Backlog, Possession, vars
  <2>4. QED
    BY <2>1, <2>2, <2>3 DEF SInv
<1>7. QED
  BY <1>1, <1>2, <1>3, <1>4, <1>5, <1>6 DEF Next

LEMMA ShutdownInvariant == Spec => [](IInv /\ SInv)
BY InitInv, NextInv, InitShutdown, NextShutdown, PTL DEF Spec

(* For any number of workers, clients and tasks: shutdown leaves no accepted
   task behind, joins every worker once, and its wake-ups are not lost. *)
THEOREM ShutdownAlwaysComplete == Spec => []ShutdownComplete
BY ShutdownInvariant, ShutdownFollows, PTL

(* The pool object is released only when no thread is inside it, also when
   create fails half-way, and then all of it is. *)
THEOREM ResourcesAlwaysOutliveUsers == Spec => []ResourcesOutliveUsers
BY ShutdownInvariant, ResourcesFollow, PTL

-----------------------------------------------------------------------------
(* Who has a task, and when one is accepted. *)

(* The tasks of the list and those in the hands of workers are distinct, and
   the history says of each where it is. *)
Custody ==
  /\ \A i \in 1..Len(queue) : status[queue[i]] = "queued"
  /\ \A i, j \in 1..Len(queue) : queue[i] = queue[j] => i = j
  /\ \A w \in Workers :
       pc[w] = "running" => job[w] \in Tasks /\ status[job[w]] = "running"
  /\ \A v, w \in Workers :
       pc[v] = "running" /\ pc[w] = "running" /\ job[v] = job[w] => v = w

(* A pool accepts tasks from the creation of its list to the first shutdown. *)
Acceptance ==
  /\ pc[Owner] = "building" /\ "threads" \in held => accepting
  /\ created = WorkerCount /\ ~joining => accepting

CInv == Custody /\ Acceptance

LEMMA TakeCustody ==
  ASSUME IInv, CInv, NEW w \in Workers, Take(w)
  PROVE  Custody'
<1>1. /\ pc[w] = "lock" /\ pc' = [pc EXCEPT ![w] = "running"]
      /\ queue # <<>> /\ queue' = Tail(queue)
      /\ job' = [job EXCEPT ![w] = Head(queue)]
      /\ status' = [status EXCEPT ![Head(queue)] = "running"]
  BY DEF Take, Goto
<1>2. /\ queue \in Seq(Tasks) /\ Len(queue) \in Nat /\ Len(queue) > 0
      /\ Len(queue') = Len(queue) - 1
      /\ \A i \in 1..Len(queue') : queue'[i] = queue[i + 1]
      /\ Head(queue) = queue[1] /\ Head(queue) \in Tasks
  BY <1>1 DEF IInv, TypeOK
<1>3. /\ \A i \in 1..Len(queue) : queue[i] \in Tasks
      /\ \A i \in 1..Len(queue) : status[queue[i]] = "queued"
      /\ \A i, j \in 1..Len(queue) : queue[i] = queue[j] => i = j
  BY <1>2 DEF CInv, Custody
<1>4. \A i \in 1..Len(queue') :
        /\ i + 1 \in 1..Len(queue) /\ i + 1 # 1
        /\ queue'[i] = queue[i + 1]
        /\ queue'[i] # Head(queue)
  BY <1>2, <1>3
<1>5. \A i \in 1..Len(queue') : status'[queue'[i]] = "queued"
  BY <1>1, <1>3, <1>4 DEF IInv, TypeOK
<1>6. \A i, j \in 1..Len(queue') : queue'[i] = queue'[j] => i = j
  <2> SUFFICES ASSUME NEW i \in 1..Len(queue'), NEW j \in 1..Len(queue'),
                      queue'[i] = queue'[j]
               PROVE  i = j
    OBVIOUS
  <2>1. i + 1 = j + 1
    BY <1>3, <1>4
  <2>2. QED
    BY <2>1
<1>7. \A v \in Workers : v # w /\ pc'[v] = "running" =>
        /\ pc[v] = "running" /\ job'[v] = job[v] /\ job[v] # Head(queue)
  <2> SUFFICES ASSUME NEW v \in Workers, v # w, pc'[v] = "running"
               PROVE  pc[v] = "running" /\ job'[v] = job[v] /\ job[v] # Head(queue)
    OBVIOUS
  <2>1. pc[v] = "running" /\ job'[v] = job[v]
    BY <1>1, ThreadFacts DEF IInv, TypeOK
  <2>2. status[job[v]] = "running" /\ status[Head(queue)] = "queued"
    BY <1>2, <1>3, <2>1 DEF CInv, Custody
  <2>3. QED
    BY <2>1, <2>2
<1>8. job'[w] = Head(queue)
  BY <1>1 DEF IInv, TypeOK
<1>9. \A v \in Workers : pc'[v] = "running" =>
        job'[v] \in Tasks /\ status'[job'[v]] = "running"
  <2> SUFFICES ASSUME NEW v \in Workers, pc'[v] = "running"
               PROVE  job'[v] \in Tasks /\ status'[job'[v]] = "running"
    OBVIOUS
  <2>1. CASE v = w
    BY <1>1, <1>2, <1>8, <2>1 DEF IInv, TypeOK
  <2>2. CASE v # w
    BY <1>1, <1>7, <2>2 DEF CInv, Custody, IInv, TypeOK
  <2>3. QED
    BY <2>1, <2>2
<1>10. \A u, v \in Workers :
        pc'[u] = "running" /\ pc'[v] = "running" /\ job'[u] = job'[v] => u = v
  BY <1>7, <1>8 DEF CInv, Custody
<1>11. QED
  BY <1>5, <1>6, <1>9, <1>10 DEF Custody

LEMMA RunCustody ==
  ASSUME IInv, CInv, NEW w \in Workers, Run(w)
  PROVE  Custody'
<1>1. /\ pc[w] = "running" /\ pc' = [pc EXCEPT ![w] = "finishing"]
      /\ status' = [status EXCEPT ![job[w]] = "done"]
      /\ job' = [job EXCEPT ![w] = None] /\ queue' = queue
  BY DEF Run, Goto, items
<1>2. job[w] \in Tasks /\ status[job[w]] = "running"
  BY <1>1 DEF CInv, Custody
<1>3. \A i \in 1..Len(queue) : queue[i] \in Tasks
  BY DEF IInv, TypeOK
<1>4. \A i \in 1..Len(queue) : status'[queue[i]] = "queued"
  BY <1>1, <1>2, <1>3 DEF CInv, Custody, IInv, TypeOK
<1>5. \A v \in Workers : pc'[v] = "running" =>
        v # w /\ pc[v] = "running" /\ job'[v] = job[v]
  BY <1>1, ThreadFacts DEF IInv, TypeOK
<1>6. \A v \in Workers : pc'[v] = "running" =>
        job'[v] \in Tasks /\ status'[job'[v]] = "running"
  BY <1>1, <1>2, <1>5 DEF CInv, Custody, IInv, TypeOK
<1>7. QED
  BY <1>1, <1>4, <1>5, <1>6 DEF CInv, Custody

(* Only a task that is in nobody's hands is submitted. *)
LEMMA SubmitCustody ==
  ASSUME IInv, CInv, NEW t \in Threads, NEW k \in Tasks, Submit(t, k)
  PROVE  Custody'
<1>1. /\ UNCHANGED <<pc, job>> /\ status[k] \notin {"queued", "running"}
      /\ \/ queue' = Append(queue, k) /\ status' = [status EXCEPT ![k] = "queued"]
         \/ queue' = queue /\ status' = [status EXCEPT ![k] = "rejected"]
  BY DEF Submit
<1>2. /\ queue \in Seq(Tasks) /\ Len(queue) \in Nat
      /\ \A i \in 1..Len(queue) :
           /\ queue[i] \in Tasks /\ queue[i] # k
           /\ status[queue[i]] = "queued"
  BY <1>1 DEF IInv, TypeOK, CInv, Custody
<1>3. \A w \in Workers : pc'[w] = "running" =>
        job'[w] \in Tasks /\ status'[job'[w]] = "running"
  BY <1>1 DEF IInv, TypeOK, CInv, Custody
<1>4. \A v, w \in Workers :
        pc'[v] = "running" /\ pc'[w] = "running" /\ job'[v] = job'[w] => v = w
  BY <1>1 DEF CInv, Custody
<1>5. CASE queue' = queue /\ status' = [status EXCEPT ![k] = "rejected"]
  <2>1. \A i \in 1..Len(queue') : status'[queue'[i]] = "queued"
    BY <1>2, <1>5 DEF IInv, TypeOK
  <2>2. QED
    BY <1>3, <1>4, <1>5, <2>1 DEF CInv, Custody
<1>6. CASE /\ queue' = Append(queue, k)
           /\ status' = [status EXCEPT ![k] = "queued"]
  <2>1. /\ Len(queue') = Len(queue) + 1 /\ queue'[Len(queue) + 1] = k
        /\ \A i \in 1..Len(queue) : queue'[i] = queue[i]
    BY <1>2, <1>6
  <2>2. \A i \in 1..Len(queue') : i \in 1..Len(queue) \/ i = Len(queue) + 1
    BY <1>2, <2>1
  <2>3. \A i \in 1..Len(queue') : status'[queue'[i]] = "queued"
    BY <1>2, <1>6, <2>1, <2>2 DEF IInv, TypeOK
  <2>4. \A i, j \in 1..Len(queue') : queue'[i] = queue'[j] => i = j
    BY <1>2, <2>1, <2>2 DEF CInv, Custody
  <2>5. QED
    BY <1>3, <1>4, <2>3, <2>4 DEF Custody
<1>7. QED
  BY <1>1, <1>5, <1>6

LEMMA SameCustody ==
  ASSUME Custody, UNCHANGED <<queue, status, job>>,
         \A w \in Workers : pc'[w] = "running" => pc[w] = "running"
  PROVE  Custody'
BY DEF Custody

-----------------------------------------------------------------------------
(* The pool as PoolContract sees it. *)

(* The cases of Phase. *)
LEMMA PhaseFacts ==
  /\ pc[Owner] \in {"failed", "gone"} => Phase = pc[Owner]
  /\ pc[Owner] \notin {"failed", "gone"} =>
       /\ joined => Phase = "closed"
       /\ ~joined /\ joining => Phase = "closing"
       /\ ~joined /\ ~joining /\ created = WorkerCount => Phase = "open"
       /\ ~joined /\ ~joining /\ created # WorkerCount => Phase = "building"
BY DEF Phase

(* The cases of CallOf. *)
InShutdown == {"enter", "drain", "draining", "follow", "following",
               "stopBroadcast", "join", "joinedBroadcast"}

LEMMA CallFacts ==
  ASSUME NEW c \in Clients
  PROVE  /\ c = Owner /\ retiring =>
              CallOf(c) = IF pc[c] = "gone" THEN "none" ELSE "destroy"
         /\ ~(c = Owner /\ retiring) =>
              /\ pc[c] \in {"wait", "waiting"} => CallOf(c) = "wait"
              /\ pc[c] \in InShutdown => CallOf(c) = "shutdown"
              /\ pc[c] \notin {"wait", "waiting"} \union InShutdown =>
                   CallOf(c) = "none"
BY DEF CallOf, InShutdown

ContractStep == [Contract!Next]_(Contract!vars)

CallMap == [c \in Clients |-> CallOf(c)]

(* A step that changes nothing a caller can see. *)
LEMMA Hidden ==
  ASSUME UNCHANGED <<queue, status, owed>>, Phase' = Phase,
         \A c \in Clients : CallOf(c)' = CallOf(c)
  PROVE  ContractStep
<1>1. CallMap' = CallMap
  BY DEF CallMap
<1>2. QED
  BY <1>1 DEF ContractStep, Contract!vars, CallMap

(* A thread that moves without changing what it calls. *)
LEMMA HiddenMove ==
  ASSUME IInv, NEW t \in Threads, NEW q,
         pc' = [pc EXCEPT ![t] = q],
         UNCHANGED <<queue, status, owed, joined, joining, created, retiring>>,
         t \in Clients =>
           /\ pc[t] \notin {"failed", "gone"} /\ q \notin {"failed", "gone"}
           /\ \/ t = Owner /\ retiring
              \/ pc[t] \in {"wait", "waiting"} /\ q \in {"wait", "waiting"}
              \/ pc[t] \in InShutdown /\ q \in InShutdown
              \/ /\ pc[t] \notin {"wait", "waiting"} \union InShutdown
                 /\ q \notin {"wait", "waiting"} \union InShutdown
  PROVE  ContractStep
<1>1. /\ pc'[t] = q /\ \A u \in Threads : u # t => pc'[u] = pc[u]
  BY DEF IInv, TypeOK
<1>2. Phase' = Phase
  <2>1. CASE t = Owner
    <3>1. pc[Owner] \notin {"failed", "gone"} /\ pc'[Owner] \notin {"failed", "gone"}
      BY <1>1, <2>1, ThreadFacts
    <3>2. QED
      BY <3>1 DEF Phase
  <2>2. CASE t # Owner
    <3>1. pc'[Owner] = pc[Owner]
      BY <1>1, <2>2, ThreadFacts
    <3>2. QED
      BY <3>1 DEF Phase
  <2>3. QED
    BY <2>1, <2>2
<1>3. ASSUME NEW c \in Clients PROVE CallOf(c)' = CallOf(c)
  <2>1. CASE c # t
    <3>1. pc'[c] = pc[c]
      BY <1>1, <2>1, ThreadFacts
    <3>2. QED
      BY <3>1 DEF CallOf
  <2>2. CASE c = t
    <3>1. pc'[c] = q
      BY <1>1, <2>2
    <3>2. CASE t = Owner /\ retiring
      BY <2>2, <3>1, <3>2 DEF CallOf
    <3>3. CASE pc[t] \in {"wait", "waiting"} /\ q \in {"wait", "waiting"}
      BY <2>2, <3>1, <3>3 DEF CallOf
    <3>4. CASE pc[t] \in InShutdown /\ q \in InShutdown
      BY <2>2, <3>1, <3>4 DEF CallOf, InShutdown
    <3>5. CASE /\ pc[t] \notin {"wait", "waiting"} \union InShutdown
               /\ q \notin {"wait", "waiting"} \union InShutdown
      BY <2>2, <3>1, <3>5 DEF CallOf, InShutdown
    <3>6. QED
      BY <2>2, <3>2, <3>3, <3>4, <3>5
  <2>3. QED
    BY <2>1, <2>2
<1>4. QED
  BY <1>2, <1>3, Hidden

(* What one client's move does to the calls. *)
LEMMA CallMove ==
  ASSUME IInv, NEW c \in Clients, NEW q,
         pc' = [pc EXCEPT ![c] = q], retiring' = retiring
  PROVE  CallMap' = [CallMap EXCEPT ![c] = CallOf(c)']
<1>1. \A d \in Clients : d # c => pc'[d] = pc[d]
  BY ThreadFacts DEF IInv, TypeOK
<1>2. \A d \in Clients : d # c => CallOf(d)' = CallOf(d)
  BY <1>1 DEF CallOf
<1>3. QED
  BY <1>2 DEF CallMap

(* Whoever is idle or running inside a complete pool sees it in use. *)
LEMMA InUse ==
  ASSUME SInv, created = WorkerCount, pc[Owner] # "gone"
  PROVE  Phase \in {"open", "closing", "closed"}
<1>1. pc[Owner] # "failed"
  BY ThreadFacts DEF SInv, Possession, Creating
<1>2. QED
  BY <1>1, PhaseFacts

-----------------------------------------------------------------------------
(* Each step is a step of PoolContract, or none. *)

LEMMA AcquireContract ==
  ASSUME IInv, SInv, CInv, Acquire
  PROVE  CInv' /\ ContractStep
<1>1. /\ pc[Owner] = "building"
      /\ accepting' = (accepting \/ "threads" \in held')
      /\ UNCHANGED <<items, stopping, joining, joined, mutex, cond, created,
                     index, pc, job, retiring, history>>
  BY DEF Acquire
<1>2. Custody'
  BY <1>1, SameCustody DEF CInv, items, history
<1>3. Acceptance'
  <2>1. created < WorkerCount
    BY <1>1 DEF SInv, Possession, Creating
  <2>2. created' # WorkerCount
    BY <1>1, <2>1, ThreadFacts DEF IInv, TypeOK
  <2>3. QED
    BY <1>1, <2>2 DEF Acceptance
<1>4. ContractStep
  BY <1>1, Hidden DEF Phase, CallOf, items, history
<1>5. QED
  BY <1>2, <1>3, <1>4 DEF CInv

(* create returns NULL. *)
LEMMA CreateFails ==
  ASSUME IInv, SInv, CInv, pc[Owner] \in {"building", "abandonJoin"},
         pc' = [pc EXCEPT ![Owner] = "failed"],
         UNCHANGED <<queue, status, owed, job, flags, created, retiring>>
  PROVE  CInv' /\ ContractStep
<1>1. created < WorkerCount /\ ~retiring
  BY DEF SInv, Possession, Creating
<1>2. ~joining /\ ~joined
  BY <1>1 DEF IInv, Lifecycle, SInv, Leadership
<1>3. pc'[Owner] = "failed" /\ \A t \in Threads : t # Owner => pc'[t] = pc[t]
  BY ThreadFacts DEF IInv, TypeOK
<1>4. created # WorkerCount
  BY <1>1, ThreadFacts DEF IInv, TypeOK
<1>5. CInv'
  <2>1. Custody'
    BY <1>3, SameCustody, ThreadFacts DEF CInv
  <2>2. Acceptance'
    BY <1>3, <1>4 DEF Acceptance
  <2>3. QED
    BY <2>1, <2>2 DEF CInv
<1>6. Phase = "building" /\ Phase' = "failed"
  BY <1>2, <1>3, <1>4 DEF Phase
<1>7. CallMap' = CallMap
  <2>1. \A c \in Clients : CallOf(c)' = CallOf(c)
    BY <1>1, <1>3, ThreadFacts DEF CallOf
  <2>2. QED
    BY <2>1 DEF CallMap
<1>8. Contract!Create
  BY <1>6, <1>7 DEF Contract!Create, CallMap
<1>9. QED
  BY <1>5, <1>8 DEF ContractStep, Contract!Next

(* The last worker started opens the pool. *)
LEMMA StartWorkerContract ==
  ASSUME IInv, SInv, CInv, StartWorker
  PROVE  CInv' /\ ContractStep
<1> DEFINE w == created + 1
<1>1. /\ pc[Owner] = "building" /\ held = AllResources /\ created' = w
      /\ pc' = [pc EXCEPT ![w] = "lock",
                          ![Owner] = IF w = WorkerCount THEN "outside" ELSE @]
      /\ UNCHANGED <<items, flags, mutex, cond, held, index, job, retiring,
                     history>>
  BY DEF StartWorker
<1>2. /\ created < WorkerCount /\ created # WorkerCount /\ w \in Workers
      /\ ~retiring
  BY <1>1, ThreadFacts DEF SInv, Possession, Creating, IInv, TypeOK, Workers
<1>3. ~joining /\ ~joined
  BY <1>2 DEF IInv, Lifecycle, SInv, Leadership
<1>4. w # Owner
  BY <1>2, ThreadFacts
<1>5. /\ pc'[w] = "lock"
      /\ pc'[Owner] = IF w = WorkerCount THEN "outside" ELSE "building"
      /\ \A t \in Threads : t # w /\ t # Owner => pc'[t] = pc[t]
  BY <1>1, <1>2, <1>4, ThreadFacts DEF IInv, TypeOK
<1> HIDE DEF w
<1>6. pc'[Owner] \in {"outside", "building"}
  BY <1>5
<1>7. Custody'
  <2>1. \A v \in Workers : pc'[v] = "running" => pc[v] = "running"
    BY <1>5, ThreadFacts
  <2>2. QED
    BY <1>1, <2>1, SameCustody DEF CInv, items, history
<1>8. Acceptance'
  <2>1. "threads" \in held
    <3>1. AllResources = {Resources[1], Resources[2], Resources[3],
                          Resources[4], Resources[5]}
      BY DEF AllResources
    <3>2. QED
      BY <1>1, <3>1 DEF Resources
  <2>2. accepting
    BY <1>1, <2>1 DEF CInv, Acceptance
  <2>3. QED
    BY <1>1, <2>2 DEF Acceptance, flags
<1>9. Phase = "building" /\ Phase' \in {"building", "open"}
  BY <1>1, <1>2, <1>3, <1>6 DEF Phase, flags
<1>10. CallMap' = CallMap
  <2>1. \A c \in Clients : CallOf(c)' = CallOf(c)
    <3> SUFFICES ASSUME NEW c \in Clients PROVE CallOf(c)' = CallOf(c)
      OBVIOUS
    <3>1. CASE c = Owner
      BY <1>1, <1>2, <1>6, <3>1 DEF CallOf
    <3>2. CASE c # Owner
      <4>1. pc'[c] = pc[c]
        BY <1>2, <1>5, <3>2, ThreadFacts
      <4>2. QED
        BY <1>1, <3>2, <4>1 DEF CallOf
    <3>3. QED
      BY <3>1, <3>2
  <2>2. QED
    BY <2>1 DEF CallMap
<1>11. CASE Phase' = "building"
  BY <1>1, <1>7, <1>8, <1>9, <1>10, <1>11
  DEF CInv, ContractStep, Contract!vars, CallMap, items, history
<1>12. CASE Phase' = "open"
  <2>1. Contract!Create
    BY <1>1, <1>9, <1>10, <1>12 DEF Contract!Create, CallMap, items, history
  <2>2. QED
    BY <1>7, <1>8, <2>1 DEF CInv, ContractStep, Contract!Next
<1>13. QED
  BY <1>9, <1>11, <1>12

(* The steps of a creation that has failed are not seen before the end. *)
LEMMA CreatorContract ==
  ASSUME IInv, SInv, CInv, CreateStep
  PROVE  CInv' /\ ContractStep
<1>1. CASE Acquire
  BY <1>1, AcquireContract
<1>2. CASE StartWorker
  BY <1>2, StartWorkerContract
<1>3. CASE AcquireFails
  BY <1>3, CreateFails DEF AcquireFails, Goto, items, history
<1>4. CASE AbandonFree
  BY <1>4, CreateFails DEF AbandonFree, Goto, items, history
<1>5. CASE StartWorkerFails \/ Abandon
  <2>1. PICK q \in {"abandon", "abandonBroadcast", "abandonJoin"} :
          pc' = [pc EXCEPT ![Owner] = q]
    BY <1>5, BroadcastingTable
    DEF StartWorkerFails, Abandon, BroadcastAndUnlock, Goto
  <2>2. /\ pc[Owner] \in {"building", "abandon"}
        /\ UNCHANGED <<items, joining, joined, birth, index, job, history>>
    BY <1>5 DEF StartWorkerFails, Abandon, flags
  <2>3. pc'[Owner] = q /\ \A t \in Threads : t # Owner => pc'[t] = pc[t]
    BY <2>1, ThreadFacts DEF IInv, TypeOK
  <2>4. created < WorkerCount
    BY <2>2 DEF SInv, Possession, Creating
  <2>5. created # WorkerCount
    BY <2>4, ThreadFacts DEF IInv, TypeOK
  <2>6. Custody'
    BY <2>2, <2>3, SameCustody, ThreadFacts DEF CInv, items, history
  <2>7. Acceptance'
    BY <2>2, <2>3, <2>5 DEF Acceptance, birth
  <2>8. ContractStep
    <3>1. Owner \in Threads
      BY ThreadFacts
    <3>2. /\ pc[Owner] \notin {"failed", "gone", "wait", "waiting"} \union InShutdown
          /\ q \notin {"failed", "gone", "wait", "waiting"} \union InShutdown
      BY <2>2 DEF InShutdown
    <3>3. QED
      BY <2>1, <2>2, <3>1, <3>2, HiddenMove DEF items, birth, history
  <2>9. QED
    BY <2>6, <2>7, <2>8 DEF CInv
<1>6. QED
  BY <1>1, <1>2, <1>3, <1>4, <1>5 DEF CreateStep

LEMMA SameAcceptance ==
  ASSUME Acceptance, UNCHANGED <<held, created>>,
         pc'[Owner] = "building" => pc[Owner] = "building",
         \/ UNCHANGED <<accepting, joining>>
         \/ joining' /\ pc'[Owner] # "building"
  PROVE  Acceptance'
BY DEF Acceptance

(* A worker that takes an item was not running one: there is room for it. *)
LEMMA RoomToRun ==
  ASSUME IInv, SInv, NEW w \in Workers, pc[w] # "running"
  PROVE  Cardinality(Contract!Running) < WorkerCount
<1> DEFINE R == {k \in Tasks : status[k] = "running"}
           W == Workers \ {w}
           f == [k \in R |-> CHOOSE v \in W : job[v] = k]
<1>1. ASSUME NEW k \in R PROVE \E v \in W : job[v] = k
  BY DEF SInv, Backlog
<1>2. \A k \in R : f[k] \in W /\ job[f[k]] = k
  BY <1>1
<1>3. f \in [R -> W]
  BY <1>2
<1> HIDE DEF f, W, R
<1>4. f \in Injection(R, W)
  <2>1. \A a, b \in R : f[a] = f[b] => a = b
    BY <1>2
  <2>2. QED
    BY <1>3, <2>1 DEF Injection, IsInjective
<1>5. IsFiniteSet(W) /\ Cardinality(W) = WorkerCount - 1
  <2>1. Cardinality(Workers) = WorkerCount
    BY ThreadFacts, FS_Interval DEF Workers
  <2>2. QED
    BY <2>1, ThreadFacts, FS_RemoveElement DEF W
<1>6. Cardinality(R) <= WorkerCount - 1
  BY <1>4, <1>5, FS_Injection
<1>7. Cardinality(R) \in Nat
  BY <1>4, <1>5, FS_Injection, FS_CardinalityType
<1>8. QED
  BY <1>6, <1>7, ThreadFacts DEF R, Contract!Running

(* What the pool tests for a drain is what the contract calls one. *)
LEMMA DrainedForAll ==
  ASSUME IInv, SInv, Drained
  PROVE  Contract!Drained
<1>1. queue = <<>>
  BY EmptySeq DEF Drained, IInv, CountersExact, TypeOK
<1>2. \A w \in Workers : pc[w] # "running"
  <2>1. Cardinality(Busy) = 0 /\ IsFiniteSet(Busy)
    BY ThreadFacts, FS_Subset DEF Drained, IInv, CountersExact, Busy
  <2>2. Busy = {}
    BY <2>1, FS_EmptySet
  <2>3. QED
    BY <2>2 DEF Busy
<1>3. \A k \in Tasks : status[k] # "running"
  BY <1>2 DEF SInv, Backlog
<1>4. QED
  BY <1>1, <1>3 DEF Contract!Drained, Contract!Running

LEMMA WorkerContract ==
  ASSUME IInv, SInv, CInv, NEW w \in Workers, WorkerStep(w)
  PROVE  CInv' /\ ContractStep
<1>1. CASE Take(w)
  <2>1. /\ pc[w] = "lock" /\ pc' = [pc EXCEPT ![w] = "running"]
        /\ queue # <<>> /\ queue' = Tail(queue)
        /\ status' = [status EXCEPT ![Head(queue)] = "running"]
        /\ UNCHANGED <<flags, mutex, cond, birth, index, owed, joins>>
    BY <1>1 DEF Take, Goto
  <2>2. \A c \in Clients : pc'[c] = pc[c]
    BY <2>1, ThreadFacts DEF IInv, TypeOK
  <2>3. CInv'
    BY <1>1, <2>1, <2>2, TakeCustody, SameAcceptance, ThreadFacts
    DEF CInv, birth, flags
  <2>4. Phase' = Phase
    BY <2>1, <2>2, ThreadFacts DEF Phase, birth, flags
  <2>5. CallMap' = CallMap
    <3>1. \A c \in Clients : CallOf(c)' = CallOf(c)
      BY <2>1, <2>2 DEF CallOf, birth
    <3>2. QED
      BY <3>1 DEF CallMap
  <2>6. Contract!Start
    <3>1. Cardinality(Contract!Running) < WorkerCount
      BY <2>1, RoomToRun
    <3>2. \A S : Contract!Cardinality(S) = Cardinality(S)
      BY Zenon DEF Contract!Cardinality, Cardinality
    <3>3. QED
      BY <2>1, <2>4, <2>5, <3>1, <3>2 DEF Contract!Start, CallMap
  <2>7. QED
    BY <2>3, <2>6 DEF ContractStep, Contract!Next
<1>2. CASE Run(w)
  <2>1. /\ pc[w] = "running" /\ pc' = [pc EXCEPT ![w] = "finishing"]
        /\ status' = [status EXCEPT ![job[w]] = "done"]
        /\ owed' = [c \in Clients |-> owed[c] \ {job[w]}]
        /\ UNCHANGED <<items, flags, mutex, cond, birth, index, joins>>
    BY <1>2 DEF Run, Goto
  <2>2. \A c \in Clients : pc'[c] = pc[c]
    BY <2>1, ThreadFacts DEF IInv, TypeOK
  <2>3. CInv'
    BY <1>2, <2>1, <2>2, RunCustody, SameAcceptance, ThreadFacts
    DEF CInv, birth, flags
  <2>4. Phase' = Phase
    BY <2>1, <2>2, ThreadFacts DEF Phase, birth, flags
  <2>5. CallMap' = CallMap
    <3>1. \A c \in Clients : CallOf(c)' = CallOf(c)
      BY <2>1, <2>2 DEF CallOf, birth
    <3>2. QED
      BY <3>1 DEF CallMap
  <2>6. job[w] \in Tasks /\ status[job[w]] = "running"
    BY <2>1 DEF CInv, Custody
  <2>7. Contract!Finish(job[w])
    BY <2>1, <2>4, <2>5, <2>6
    DEF Contract!Finish, Contract!Running, CallMap, items
  <2>8. QED
    BY <2>3, <2>6, <2>7 DEF ContractStep, Contract!Next
<1>3. CASE Rest(w) \/ Exit(w) \/ Finish(w)
  <2>1. PICK q \in {"asleep", "exited", "lock", "idleBroadcast"} :
          pc' = [pc EXCEPT ![w] = q]
    BY <1>3, BroadcastingTable
    DEF Rest, Exit, Finish, Sleep, BroadcastAndUnlock, Goto
  <2>2. UNCHANGED <<queue, flags, birth, index, job, history>>
    BY <1>3 DEF Rest, Exit, Finish, items
  <2>3. /\ pc'[Owner] = pc[Owner]
        /\ \A v \in Workers : pc'[v] = "running" => pc[v] = "running"
    BY <2>1, ThreadFacts DEF IInv, TypeOK
  <2>4. CInv'
    BY <2>2, <2>3, SameCustody, SameAcceptance
    DEF CInv, birth, flags, history
  <2>5. ContractStep
    BY <2>1, <2>2, HiddenMove, ThreadFacts DEF birth, flags, history
  <2>6. QED
    BY <2>4, <2>5
<1>4. QED
  BY <1>1, <1>2, <1>3 DEF WorkerStep

(* A submission is accepted exactly before the first shutdown. *)
LEMMA SubmitContract ==
  ASSUME IInv, SInv, CInv, NEW t \in Threads, NEW k \in Tasks, Submit(t, k)
  PROVE  CInv' /\ ContractStep
<1>1. /\ CanSubmit(t) /\ (status[k] = "new" \/ (Reuse /\ status[k] = "done"))
      /\ IF accepting
           THEN /\ queue' = Append(queue, k)
                /\ status' = [status EXCEPT ![k] = "queued"]
           ELSE /\ status' = [status EXCEPT ![k] = "rejected"]
                /\ queue' = queue
      /\ UNCHANGED <<active, flags, mutex, birth, index, pc, job, owed, joins>>
  BY DEF Submit
<1>2. CInv'
  BY <1>1, SubmitCustody, SameAcceptance DEF CInv, birth, flags
<1>3. Phase' = Phase /\ CallMap' = CallMap
  BY <1>1 DEF Phase, CallMap, CallOf, birth, flags
<1>4. created = WorkerCount /\ pc[Owner] # "gone"
  <2>1. CASE t \in Clients /\ pc[t] = "outside" /\ Usable
    BY <2>1 DEF Usable, SInv, Possession
  <2>2. CASE t \in Workers /\ pc[t] = "running"
    <3>1. ~(created < WorkerCount) /\ pc[Owner] # "gone"
      BY <2>2 DEF IInv, Lifecycle, SInv, Possession
    <3>2. QED
      BY <3>1, ThreadFacts DEF IInv, TypeOK
  <2>3. QED
    BY <1>1, <2>1, <2>2 DEF CanSubmit
<1>5. Phase \in {"open", "closing", "closed"}
  BY <1>4, InUse
<1>6. accepting <=> Phase = "open"
  <2>1. pc[Owner] # "failed"
    BY <1>4, ThreadFacts DEF SInv, Possession, Creating
  <2>2. joined => joining
    BY DEF SInv, Leadership
  <2>3. accepting <=> ~joining
    BY <1>4 DEF IInv, Lifecycle, CInv, Acceptance
  <2>4. QED
    BY <1>4, <2>1, <2>2, <2>3, PhaseFacts
<1>7. Contract!Running # {} \/ \E c \in Clients : CallMap[c] = "none"
  <2>1. CASE t \in Clients /\ pc[t] = "outside" /\ Usable
    <3>1. CallOf(t) = "none"
      BY <2>1, CallFacts DEF Usable, InShutdown
    <3>2. QED
      BY <2>1, <3>1 DEF CallMap
  <2>2. CASE t \in Workers /\ pc[t] = "running"
    BY <2>2 DEF CInv, Custody, Contract!Running
  <2>3. QED
    BY <1>1, <2>1, <2>2 DEF CanSubmit
<1>8. Contract!Submit(k)
  BY <1>1, <1>3, <1>5, <1>6, <1>7 DEF Contract!Submit, CallMap
<1>9. QED
  BY <1>2, <1>8 DEF ContractStep, Contract!Next

(* What a client's move leaves of the invariant. *)
LEMMA ClientCustody ==
  ASSUME IInv, CInv, NEW c \in Clients, NEW q,
         pc' = [pc EXCEPT ![c] = q], q # "building",
         UNCHANGED <<queue, status, job, held, created>>,
         \/ accepting' = accepting /\ joining' = joining
         \/ joining' /\ pc[Owner] # "building"
  PROVE  CInv'
<1>1. /\ pc'[c] = q /\ \A t \in Threads : t # c => pc'[t] = pc[t]
  BY ThreadFacts DEF IInv, TypeOK
<1>2. Custody'
  <2>1. \A w \in Workers : pc'[w] = pc[w]
    BY <1>1, ThreadFacts
  <2>2. QED
    BY <2>1, SameCustody DEF CInv
<1>3. Acceptance'
  <2>1. pc'[Owner] = "building" => pc[Owner] = "building"
    BY <1>1, ThreadFacts
  <2>2. QED
    BY <2>1, SameAcceptance DEF CInv
<1>4. QED
  BY <1>2, <1>3 DEF CInv

(* A thread that leaves a condition goes on with the call it is in. *)
LEMMA WakeContract ==
  ASSUME IInv, SInv, CInv, NEW t \in Threads, Wake(t)
  PROVE  CInv' /\ ContractStep
<1>1. UNCHANGED <<items, flags, mutex, birth, index, job, history>>
  BY DEF Wake
<1>2. CASE t \in Workers
  <2>1. pc[t] = "asleep" /\ pc' = [pc EXCEPT ![t] = "lock"]
    BY <1>2, WakeEffect, ThreadFacts DEF IInv, WokenWorker
  <2>2. /\ pc'[Owner] = pc[Owner]
        /\ \A v \in Workers : pc'[v] = "running" => pc[v] = "running"
    BY <1>2, <2>1, ThreadFacts DEF IInv, TypeOK
  <2>3. CInv'
    BY <1>1, <2>2, SameCustody, SameAcceptance
    DEF CInv, items, birth, flags, history
  <2>4. ContractStep
    BY <1>1, <1>2, <2>1, HiddenMove, ThreadFacts
    DEF items, birth, flags, history
  <2>5. QED
    BY <2>3, <2>4
<1>3. CASE t \in Clients
  <2>1. PICK q \in {"wait", "drain", "follow"} :
          /\ pc' = [pc EXCEPT ![t] = q]
          /\ \/ pc[t] = "waiting" /\ q = "wait"
             \/ pc[t] \in {"draining", "following"} /\ q \in {"drain", "follow"}
    BY <1>3, SleepingTable, ThreadFacts
    DEF Wake, Goto, IInv, TypeOK, ClientPlaces
  <2>2. CInv'
    BY <1>1, <1>3, <2>1, ClientCustody DEF items, birth, flags, history
  <2>3. ContractStep
    BY <1>1, <2>1, HiddenMove DEF InShutdown, items, birth, flags, history
  <2>4. QED
    BY <2>2, <2>3
<1>4. QED
  BY <1>2, <1>3 DEF Threads

(* A call that returns: the client is outside again. *)
LEMMA EndShutdownContract ==
  ASSUME IInv, SInv, NEW c \in Clients, pc[c] \in InShutdown, joined,
         pc' = [pc EXCEPT ![c] = "outside"],
         UNCHANGED <<queue, status, owed, joined, joining, created, retiring>>
  PROVE  ContractStep
<1>1. CASE c = Owner /\ retiring
  BY <1>1, HiddenMove, ThreadFacts DEF InShutdown
<1>2. CASE ~(c = Owner /\ retiring)
  <2>1. /\ pc'[c] = "outside" /\ \A t \in Threads : t # c => pc'[t] = pc[t]
    BY ThreadFacts DEF IInv, TypeOK
  <2>2. CallOf(c) = "shutdown"
    BY <1>2, CallFacts
  <2>3. CallOf(c)' = "none"
    BY <1>2, <2>1 DEF CallOf
  <2>4. CallMap' = [CallMap EXCEPT ![c] = "none"]
    BY <2>3, CallMove
  <2>5. pc[Owner] \notin {"failed", "gone"} /\ pc'[Owner] \notin {"failed", "gone"}
    <3>1. joining
      BY DEF SInv, Leadership
    <3>2. pc[Owner] # "failed"
      BY <3>1 DEF IInv, Lifecycle, SInv, Possession, Creating
    <3>3. pc[Owner] # "gone"
      <4>1. CASE pc[Owner] = "gone"
        <5>1. retiring /\ c # Owner
          BY <4>1 DEF SInv, Possession, InShutdown
        <5>2. pc[c] = "outside"
          BY <5>1 DEF SInv, Possession
        <5>3. QED
          BY <5>2 DEF InShutdown
      <4>2. QED
        BY <4>1
    <3>4. QED
      BY <2>1, <3>2, <3>3, ThreadFacts
  <2>6. Phase = "closed" /\ Phase' = "closed"
    BY <2>5 DEF Phase
  <2>7. Contract!EndShutdown(c)
    BY <2>2, <2>4, <2>6 DEF Contract!EndShutdown, CallMap
  <2>8. QED
    BY <2>7 DEF ContractStep, Contract!Next
<1>3. QED
  BY <1>1, <1>2

(* The end of a broadcast ends a shutdown, or nothing a caller sees. *)
LEMMA ReturnContract ==
  ASSUME IInv, SInv, CInv, NEW t \in Threads, BroadcastReturns(t)
  PROVE  CInv' /\ ContractStep
<1>1. /\ pc[t] \in DOMAIN Broadcasting
      /\ pc' = [pc EXCEPT ![t] = Broadcasting[pc[t]].then]
      /\ UNCHANGED <<items, flags, birth, index, job, history>>
  BY DEF BroadcastReturns, Goto
<1>2. \/ t \in Workers /\ pc[t] = "idleBroadcast"
      \/ t \in Clients /\ pc[t] \in {"stopBroadcast", "joinedBroadcast",
                                     "abandonBroadcast"}
  BY <1>1, ReturnEffect DEF IInv, PastBroadcast
<1>3. CASE t \in Workers /\ pc[t] = "idleBroadcast"
  <2>1. pc' = [pc EXCEPT ![t] = "lock"]
    BY <1>1, <1>3, BroadcastingTable
  <2>2. /\ pc'[Owner] = pc[Owner]
        /\ \A v \in Workers : pc'[v] = "running" => pc[v] = "running"
    BY <1>3, <2>1, ThreadFacts DEF IInv, TypeOK
  <2>3. CInv'
    BY <1>1, <2>2, SameCustody, SameAcceptance
    DEF CInv, items, birth, flags, history
  <2>4. ContractStep
    BY <1>1, <1>3, <2>1, HiddenMove, ThreadFacts
    DEF items, birth, flags, history
  <2>5. QED
    BY <2>3, <2>4
<1>4. CASE t \in Clients /\ pc[t] \in {"stopBroadcast", "joinedBroadcast",
                                       "abandonBroadcast"}
  <2>1. PICK q \in {"join", "outside", "abandonJoin"} :
          /\ pc' = [pc EXCEPT ![t] = q]
          /\ \/ pc[t] = "stopBroadcast" /\ q = "join"
             \/ pc[t] = "joinedBroadcast" /\ q = "outside"
             \/ pc[t] = "abandonBroadcast" /\ q = "abandonJoin"
    BY <1>1, <1>4, BroadcastingTable
  <2>2. CInv'
    BY <1>1, <1>4, <2>1, ClientCustody DEF items, birth, flags, history
  <2>3. CASE pc[t] = "joinedBroadcast" /\ q = "outside"
    <3>1. joined
      BY <1>4, <2>3 DEF SInv, Leadership
    <3>2. ContractStep
      BY <1>1, <1>4, <2>1, <2>3, <3>1, EndShutdownContract
      DEF InShutdown, items, birth, flags, history
    <3>3. QED
      BY <2>2, <3>2
  <2>4. CASE \/ pc[t] = "stopBroadcast" /\ q = "join"
             \/ pc[t] = "abandonBroadcast" /\ q = "abandonJoin"
    BY <1>1, <1>4, <2>1, <2>2, <2>4, HiddenMove
    DEF InShutdown, items, birth, flags, history
  <2>5. QED
    BY <2>1, <2>3, <2>4
<1>5. QED
  BY <1>2, <1>3, <1>4

LEMMA CallContract ==
  ASSUME IInv, SInv, CInv, NEW c \in Clients, Call(c)
  PROVE  CInv' /\ ContractStep
<1>1. /\ pc[c] = "outside" /\ Usable
      /\ UNCHANGED <<items, flags, mutex, cond, birth, index, job, status,
                     joins>>
      /\ \/ Goto(c, "wait") /\ owed' = [owed EXCEPT ![c] = Unfinished]
         \/ Goto(c, "enter") /\ UNCHANGED owed
  BY DEF Call
<1>2. PICK q \in {"wait", "enter"} :
        /\ pc' = [pc EXCEPT ![c] = q]
        /\ IF q = "wait" THEN owed' = [owed EXCEPT ![c] = Unfinished]
                         ELSE UNCHANGED owed
  BY <1>1 DEF Goto
<1>3. CInv'
  BY <1>1, <1>2, ClientCustody DEF items, birth, flags
<1>4. ~retiring /\ created = WorkerCount
  BY <1>1 DEF Usable
<1>5. /\ pc'[c] = q /\ \A t \in Threads : t # c => pc'[t] = pc[t]
  BY <1>2, ThreadFacts DEF IInv, TypeOK
<1>6. CallOf(c) = "none" /\ CallOf(c)' = IF q = "wait" THEN "wait" ELSE "shutdown"
  BY <1>1, <1>4, <1>5 DEF CallOf, birth
<1>7. CallMap' = [CallMap EXCEPT ![c] = IF q = "wait" THEN "wait" ELSE "shutdown"]
  BY <1>1, <1>2, <1>6, CallMove DEF birth
<1>8. Phase \in {"open", "closing", "closed"} /\ Phase' = Phase
  <2>1. pc[Owner] \notin {"failed", "gone"}
    BY <1>4, ThreadFacts DEF SInv, Possession, Creating
  <2>2. pc'[Owner] \notin {"failed", "gone"}
    BY <1>5, <2>1, ThreadFacts
  <2>3. QED
    BY <1>1, <1>4, <2>1, <2>2 DEF Phase, birth, flags
<1>9. Unfinished = Contract!Unfinished
  BY DEF Unfinished, Contract!Unfinished
<1>10. Contract!BeginWait(c) \/ Contract!BeginShutdown(c)
  BY <1>1, <1>2, <1>6, <1>7, <1>8, <1>9
  DEF Contract!BeginWait, Contract!BeginShutdown, CallMap, items
<1>11. QED
  BY <1>3, <1>10 DEF ContractStep, Contract!Next

LEMMA WaitContract ==
  ASSUME IInv, SInv, CInv, NEW c \in Clients, WaitStep(c)
  PROVE  CInv' /\ ContractStep
<1>1. /\ pc[c] = "wait"
      /\ UNCHANGED <<items, flags, mutex, birth, index, job, history>>
  BY DEF WaitStep
<1>2. PICK q \in {"outside", "waiting"} :
        pc' = [pc EXCEPT ![c] = q] /\ (q = "outside" => Drained)
  BY DEF WaitStep, Sleep, Goto
<1>3. CInv'
  BY <1>1, <1>2, ClientCustody DEF items, birth, flags, history
<1>4. ~(c = Owner /\ retiring)
  BY <1>1 DEF SInv, Possession
<1>5. CASE q = "waiting"
  BY <1>1, <1>2, <1>3, <1>5, HiddenMove, ThreadFacts
  DEF items, birth, flags, history
<1>6. CASE q = "outside"
  <2>1. /\ pc'[c] = q /\ \A t \in Threads : t # c => pc'[t] = pc[t]
    BY <1>2, ThreadFacts DEF IInv, TypeOK
  <2>2. CallOf(c) = "wait" /\ CallOf(c)' = "none"
    BY <1>1, <1>4, <1>6, <2>1 DEF CallOf, birth
  <2>3. CallMap' = [CallMap EXCEPT ![c] = "none"]
    BY <1>1, <1>2, <2>2, CallMove DEF birth
  <2>4. Phase' = Phase
    <3>1. pc'[Owner] = pc[Owner] \/ Owner = c
      BY <2>1, ThreadFacts
    <3>2. QED
      BY <1>1, <1>6, <2>1, <3>1 DEF Phase, birth, flags
  <2>5. Contract!Drained
    BY <1>2, <1>6, DrainedForAll
  <2>6. Contract!EndWait(c)
    BY <1>1, <2>2, <2>3, <2>4, <2>5
    DEF Contract!EndWait, CallMap, items, history
  <2>7. QED
    BY <1>3, <2>6 DEF ContractStep, Contract!Next
<1>7. QED
  BY <1>5, <1>6

LEMMA FollowContract ==
  ASSUME IInv, SInv, CInv, NEW c \in Clients, ShutdownFollow(c)
  PROVE  CInv' /\ ContractStep
<1>1. /\ pc[c] \in {"enter", "follow"}
      /\ UNCHANGED <<items, flags, mutex, birth, index, job, history>>
  BY DEF ShutdownFollow
<1>2. PICK q \in {"outside", "following"} :
        pc' = [pc EXCEPT ![c] = q] /\ (q = "outside" => joined)
  BY DEF ShutdownFollow, Sleep, Goto
<1>3. CInv'
  BY <1>1, <1>2, ClientCustody DEF items, birth, flags, history
<1>4. CASE q = "following"
  BY <1>1, <1>2, <1>3, <1>4, HiddenMove, ThreadFacts
  DEF InShutdown, items, birth, flags, history
<1>5. CASE q = "outside"
  BY <1>1, <1>2, <1>3, <1>5, EndShutdownContract
  DEF InShutdown, items, birth, flags, history
<1>6. QED
  BY <1>4, <1>5

(* The leader's steps before it publishes: a caller sees the first one only. *)
LEMMA LeaderContract ==
  ASSUME IInv, SInv, CInv, NEW c \in Clients, ShutdownLead(c) \/ ShutdownDrain(c)
  PROVE  CInv' /\ ContractStep
<1>1. PICK q \in {"draining", "stopBroadcast", "join"} :
        pc' = [pc EXCEPT ![c] = q]
  BY BroadcastingTable
  DEF ShutdownLead, ShutdownDrain, DrainThenStop, BroadcastAndUnlock, Sleep,
      Goto
<1>2. /\ UNCHANGED <<items, joined, birth, index, job, history>>
      /\ joining'
      /\ \/ pc[c] = "enter" /\ ~joined /\ ~joining
         \/ pc[c] = "drain" /\ accepting' = accepting /\ joining' = joining
  BY DEF ShutdownLead, ShutdownDrain, SInv, Leadership, Leading
<1>3. /\ pc'[c] = q /\ \A t \in Threads : t # c => pc'[t] = pc[t]
  BY <1>1, ThreadFacts DEF IInv, TypeOK
<1>4. /\ pc[Owner] \notin {"building", "failed", "gone"}
      /\ pc'[Owner] \notin {"failed", "gone"}
      /\ created = WorkerCount
  <2>1. pc[Owner] \notin Creating
    BY <1>2 DEF SInv, Possession, Creating
  <2>2. pc[Owner] # "gone"
    BY <1>2 DEF SInv, Possession
  <2>3. ~(created < WorkerCount)
    BY <2>1 DEF SInv, Possession
  <2>4. QED
    BY <1>3, <2>1, <2>2, <2>3, ThreadFacts DEF Creating, IInv, TypeOK
<1>5. CInv'
  BY <1>1, <1>2, <1>4, ClientCustody DEF items, birth, history
<1>6. CallMap' = CallMap
  <2>1. CallOf(c)' = CallOf(c)
    BY <1>2, <1>3 DEF CallOf, birth
  <2>2. \A d \in Clients : d # c => CallOf(d)' = CallOf(d)
    BY <1>2, <1>3, ThreadFacts DEF CallOf, birth
  <2>3. QED
    BY <2>1, <2>2 DEF CallMap
<1>7. CASE pc[c] = "enter" /\ ~joined /\ ~joining
  <2>1. Phase = "open" /\ Phase' = "closing"
    BY <1>2, <1>4, <1>7 DEF Phase, birth
  <2>2. CallOf(c) \in {"shutdown", "destroy"}
    BY <1>7 DEF CallOf
  <2>3. Contract!Close
    BY <1>2, <1>6, <2>1, <2>2 DEF Contract!Close, CallMap, items, history
  <2>4. QED
    BY <1>5, <2>3 DEF ContractStep, Contract!Next
<1>8. CASE /\ pc[c] = "drain"
           /\ accepting' = accepting /\ joining' = joining
  <2>1. Phase' = Phase
    BY <1>2, <1>4, <1>8 DEF Phase, birth
  <2>2. QED
    BY <1>2, <1>5, <1>6, <2>1
    DEF ContractStep, Contract!vars, CallMap, items, history
<1>9. QED
  BY <1>2, <1>7, <1>8

(* A shutdown is closed when nothing is left to run. *)
LEMMA PublishContract ==
  ASSUME IInv, SInv, CInv, NEW c \in Clients, ShutdownPublish(c)
  PROVE  CInv' /\ ContractStep
<1>1. /\ pc[c] = "join" /\ index[c] = WorkerCount /\ joined' = TRUE
      /\ UNCHANGED <<items, accepting, stopping, joining, birth, job, history>>
  BY DEF ShutdownPublish
<1>2. PICK q \in {"joinedBroadcast", "outside"} : pc' = [pc EXCEPT ![c] = q]
  BY BroadcastingTable DEF ShutdownPublish, BroadcastAndUnlock, Goto
<1>3. /\ pc'[c] = q /\ \A t \in Threads : t # c => pc'[t] = pc[t]
  BY <1>2, ThreadFacts DEF IInv, TypeOK
<1>4. joining /\ ~joined /\ stopping
  BY <1>1 DEF SInv, Leadership, Leading
<1>5. /\ pc[Owner] \notin {"building", "failed", "gone"}
      /\ pc'[Owner] \notin {"failed", "gone"}
  <2>1. pc[Owner] \notin Creating /\ pc[Owner] # "gone"
    BY <1>1 DEF SInv, Possession, Creating
  <2>2. QED
    BY <1>3, <2>1, ThreadFacts DEF Creating
<1>6. CInv'
  BY <1>1, <1>2, ClientCustody DEF items, birth, history
<1>7. Phase = "closing" /\ Phase' = "closed"
  BY <1>1, <1>4, <1>5 DEF Phase
<1>8. Contract!Drained
  <2>1. queue = <<>>
    BY <1>4 DEF IInv, Lifecycle
  <2>2. \A w \in Workers : pc[w] = "exited"
    <3>1. pc[c] \in JoinPlaces
      BY <1>1 DEF JoinPlaces
    <3>2. \A w \in Workers : w <= index[c]
      BY <1>1, ThreadFacts DEF Workers
    <3>3. QED
      BY <3>1, <3>2 DEF SInv, Joining
  <2>3. \A k \in Tasks : status[k] # "running"
    BY <2>2 DEF SInv, Backlog
  <2>4. QED
    BY <2>1, <2>3 DEF Contract!Drained, Contract!Running
<1>9. CallOf(c) \in {"shutdown", "destroy"}
  BY <1>1 DEF CallOf
<1>10. CallMap' = CallMap \/ (CallOf(c) = "shutdown"
                                /\ CallMap' = [CallMap EXCEPT ![c] = "none"])
  <2>1. CallMap' = [CallMap EXCEPT ![c] = CallOf(c)']
    BY <1>1, <1>2, CallMove DEF birth
  <2>2. CASE CallOf(c)' = CallOf(c)
    BY <2>1, <2>2 DEF CallMap
  <2>3. CASE CallOf(c)' # CallOf(c)
    <3>1. ~(c = Owner /\ retiring) /\ q = "outside"
      BY <1>1, <1>3, <2>3 DEF CallOf, birth
    <3>2. CallOf(c) = "shutdown" /\ CallOf(c)' = "none"
      BY <1>1, <1>3, <3>1 DEF CallOf, birth
    <3>3. QED
      BY <2>1, <3>2
  <2>4. QED
    BY <2>2, <2>3
<1>11. Contract!Closed(c)
  BY <1>1, <1>7, <1>8, <1>9, <1>10
  DEF Contract!Closed, CallMap, items, history
<1>12. QED
  BY <1>6, <1>11 DEF ContractStep, Contract!Next

LEMMA JoinNextContract ==
  ASSUME IInv, SInv, CInv, NEW c \in Clients, JoinNext(c)
  PROVE  CInv' /\ ContractStep
<1>1. UNCHANGED <<items, flags, mutex, cond, birth, pc, job, status, owed>>
  BY DEF JoinNext
<1>2. CInv'
  BY <1>1, SameCustody, SameAcceptance DEF CInv, items, flags, birth
<1>3. ContractStep
  BY <1>1, Hidden DEF Phase, CallOf, items, flags, birth
<1>4. QED
  BY <1>2, <1>3

(* destroy is called when nobody is inside the pool, and ends it last. *)
LEMMA DestroyContract ==
  ASSUME IInv, SInv, CInv, Destroy \/ DestroyFree
  PROVE  CInv' /\ ContractStep
<1>1. PICK q \in {"enter", "gone"} :
        /\ pc' = [pc EXCEPT ![Owner] = q]
        /\ q = "enter" => Destroy
        /\ q = "gone" => DestroyFree
  BY DEF Destroy, DestroyFree, Goto
<1>2. /\ pc[Owner] = "outside"
      /\ UNCHANGED <<items, flags, created, job, history>>
  BY DEF Destroy, DestroyFree
<1>3. /\ pc'[Owner] = q /\ \A t \in Threads : t # Owner => pc'[t] = pc[t]
  BY <1>1, ThreadFacts DEF IInv, TypeOK
<1>4. CInv'
  <2>1. Custody'
    BY <1>2, <1>3, SameCustody, ThreadFacts DEF CInv, items, history
  <2>2. Acceptance'
    BY <1>2, <1>3 DEF CInv, Acceptance, flags
  <2>3. QED
    BY <2>1, <2>2 DEF CInv
<1>5. CASE q = "enter"
  <2>1. /\ Usable /\ retiring' /\ ~retiring /\ created = WorkerCount
        /\ \A c \in Clients \ {Owner} : pc[c] = "outside"
    BY <1>1, <1>5 DEF Destroy, Usable
  <2>2. Phase \in {"open", "closing", "closed"} /\ Phase' = Phase
    BY <1>2, <1>3, <1>5, <2>1 DEF Phase, flags
  <2>3. \A c \in Clients : CallOf(c) = "none"
    BY <1>2, <2>1 DEF CallOf
  <2>4. \A c \in Clients : CallOf(c)' = IF c = Owner THEN "destroy" ELSE "none"
    BY <1>3, <1>5, <2>1, ThreadFacts DEF CallOf
  <2>5. CallMap' = [CallMap EXCEPT ![Owner] = "destroy"]
    BY <2>3, <2>4 DEF CallMap
  <2>6. Contract!BeginDestroy
    BY <1>2, <2>2, <2>3, <2>5
    DEF Contract!BeginDestroy, CallMap, items, history
  <2>7. QED
    BY <1>4, <2>6 DEF ContractStep, Contract!Next
<1>6. CASE q = "gone"
  <2>1. retiring /\ retiring' = retiring
    BY <1>1, <1>6 DEF DestroyFree
  <2>2. joined
    BY <1>2, <2>1 DEF SInv, Possession
  <2>3. Phase = "closed" /\ Phase' = "gone"
    BY <1>2, <1>3, <1>6, <2>2 DEF Phase
  <2>4. CallOf(Owner) = "destroy" /\ CallOf(Owner)' = "none"
    BY <1>2, <1>3, <1>6, <2>1 DEF CallOf
  <2>5. CallMap' = [CallMap EXCEPT ![Owner] = "none"]
    BY <1>1, <2>1, <2>4, CallMove, ThreadFacts
  <2>6. Contract!EndDestroy
    BY <1>2, <2>3, <2>4, <2>5, ThreadFacts
    DEF Contract!EndDestroy, CallMap, items, history
  <2>7. QED
    BY <1>4, <2>6 DEF ContractStep, Contract!Next
<1>7. QED
  BY <1>5, <1>6

LEMMA InitContract == Init => CInv /\ Contract!Init
<1> SUFFICES ASSUME Init PROVE CInv /\ Contract!Init
  OBVIOUS
<1>1. /\ pc[Owner] = "building"
      /\ \A w \in Workers : pc[w] = "unborn"
      /\ \A c \in Clients : pc[c] \in {"building", "outside"}
  BY ThreadFacts DEF Init
<1>2. /\ queue = <<>> /\ Len(queue) = 0 /\ held = {} /\ created = 0
      /\ ~joining /\ ~joined /\ ~retiring
  BY DEF Init
<1>3. created # WorkerCount
  BY <1>2, ThreadFacts
<1>4. CInv
  BY <1>1, <1>2, <1>3 DEF CInv, Custody, Acceptance
<1>5. Phase = "building"
  BY <1>1, <1>2, <1>3 DEF Phase
<1>6. CallMap = [c \in Clients |-> "none"]
  <2>1. \A c \in Clients : CallOf(c) = "none"
    BY <1>1, <1>2 DEF CallOf
  <2>2. QED
    BY <2>1 DEF CallMap
<1>7. QED
  BY <1>2, <1>4, <1>5, <1>6 DEF Contract!Init, CallMap, Init

LEMMA NextContract ==
  IInv /\ SInv /\ CInv /\ [Next]_vars => CInv' /\ ContractStep
<1> SUFFICES ASSUME IInv, SInv, CInv, [Next]_vars
             PROVE  CInv' /\ ContractStep
  OBVIOUS
<1>1. CASE CreateStep
  BY <1>1, CreatorContract
<1>2. CASE Destroy \/ DestroyFree
  BY <1>2, DestroyContract
<1>3. ASSUME NEW w \in Workers, WorkerStep(w) PROVE CInv' /\ ContractStep
  BY <1>3, WorkerContract
<1>4. ASSUME NEW c \in Clients, Call(c) \/ ClientStep(c)
      PROVE  CInv' /\ ContractStep
  BY <1>4, CallContract, WaitContract, LeaderContract, FollowContract,
     JoinNextContract, PublishContract DEF ClientStep
<1>5. ASSUME NEW t \in Threads,
             ThreadStep(t) \/ \E k \in Tasks : Submit(t, k)
      PROVE  CInv' /\ ContractStep
  BY <1>5, WakeContract, ReturnContract, SubmitContract DEF ThreadStep
<1>6. CASE UNCHANGED vars
  <2>1. CInv'
    BY <1>6, SameCustody, SameAcceptance DEF CInv, vars
  <2>2. ContractStep
    BY <1>6, Hidden DEF Phase, CallOf, vars
  <2>3. QED
    BY <2>1, <2>2
<1>7. QED
  BY <1>1, <1>2, <1>3, <1>4, <1>5, <1>6 DEF Next

(* For any number of workers, clients and tasks the pool keeps the contract
   of include/wcrt/thread_pool.h: tasks start in submission order on at most
   WorkerCount workers, wait and shutdown return from a drained pool only,
   nothing is accepted once the first shutdown has begun, destroy comes
   last. *)
THEOREM PoolImplementsContract == Spec => ImplementsContract
<1>1. Init => IInv /\ SInv /\ CInv /\ Contract!Init
  BY InitInv, InitShutdown, InitContract
<1>2. IInv /\ SInv /\ CInv /\ [Next]_vars
        => /\ IInv' /\ SInv' /\ CInv'
           /\ [Contract!Next]_(Contract!vars)
  BY NextInv, NextShutdown, NextContract DEF ContractStep
<1>3. QED
  BY <1>1, <1>2, PTL DEF Spec, ImplementsContract, Contract!Spec

=============================================================================
