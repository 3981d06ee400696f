---------------------------- MODULE CondVarProofs -----------------------------
(***************************************************************************)
(* Theorems about CondVar, for any threads, any operations they call and   *)
(* any number of calls, as long as broadcast is called with the mutex held *)
(* (src/thread_pool.c never calls it otherwise).                           *)
(***************************************************************************)
EXTENDS CondVar, TLAPS, FiniteSetTheorems

-----------------------------------------------------------------------------
(* The inductive invariant. *)

TypeOK ==
  /\ waiters \in Nat /\ generation \in Nat /\ broadcasting \in BOOLEAN
  /\ remaining \in Int /\ sem \in Nat /\ done \in BOOLEAN
  /\ mutex \in Threads \union {None}
  /\ at \in [Threads -> CondPlaces]
  /\ seen \in [Threads -> Nat] /\ calls \in [Threads -> Nat]
  /\ awaited \in [Threads -> SUBSET Threads]

(* waiters counts the registered threads, and none of them remembers a
   generation to come. *)
Counted ==
  /\ waiters = Cardinality(Registered)
  /\ \A t \in Threads : seen[t] <= generation

(* A thread about to leave the mutex and a broadcaster hold it. *)
Holding == \A t \in Threads : at[t] \in {"registered", "await", "clear"} => mutex = t

(* While a broadcaster waits, the countdown, the threads it found and the
   registered threads are the same; it is told once, when none is left. *)
Countdown ==
  /\ broadcasting <=> \E t \in Threads : at[t] \in {"await", "clear"}
  /\ \A t \in Threads : at[t] \in {"await", "clear"} =>
       remaining = Cardinality(Registered) /\ awaited[t] = Registered
  /\ \A t \in Threads : at[t] = "clear" =>
       ~done /\ Registered = {} /\ Holders("notify") = {}
  /\ done \/ Holders("notify") # {} => broadcasting /\ Registered = {}
  /\ done => Holders("notify") = {}
  /\ \A t, u \in Threads : at[t] = "notify" /\ at[u] = "notify" => t = u

IInv == TypeOK /\ Counted /\ Holding /\ Countdown

-----------------------------------------------------------------------------
(* What moving one thread does. *)

Inside == {"registered", "blocked", "check"}

(* Goto(t, place) moves t and leaves every other thread where it is, so the
   registered threads gain or lose t at most. *)
LEMMA Moves ==
  ASSUME at \in [Threads -> CondPlaces], NEW t \in Threads, NEW place \in CondPlaces,
         Move(t, place)
  PROVE  /\ at' \in [Threads -> CondPlaces]
         /\ at'[t] = place
         /\ \A u \in Threads : u # t => at'[u] = at[u]
         /\ Registered' = IF place \in Inside THEN Registered \union {t}
                                              ELSE Registered \ {t}
         /\ Registered \subseteq Threads
<1>1. /\ at' \in [Threads -> CondPlaces]
      /\ at'[t] = place
      /\ \A u \in Threads : u # t => at'[u] = at[u]
  BY DEF Move
<1>2. \A u \in Threads : u \in Registered' <=> at'[u] \in Inside
  BY DEF Registered, Inside
<1>3. \A u \in Threads : u \in Registered <=> at[u] \in Inside
  BY DEF Registered, Inside
<1>4. Registered' \subseteq Threads /\ Registered \subseteq Threads
  BY DEF Registered
<1>5. CASE place \in Inside
  <2>1. \A u : u \in Registered' <=> u \in Registered \union {t}
    BY <1>1, <1>2, <1>3, <1>4, <1>5
  <2> QED BY <1>1, <1>4, <1>5, <2>1
<1>6. CASE place \notin Inside
  <2>1. \A u : u \in Registered' <=> u \in Registered \ {t}
    BY <1>1, <1>2, <1>3, <1>4, <1>6
  <2> QED BY <1>1, <1>4, <1>6, <2>1
<1> QED BY <1>5, <1>6

(* The registered threads are finitely many. *)
LEMMA RegisteredFinite ==
  IsFiniteSet(Registered) /\ Cardinality(Registered) \in Nat
<1>1. IsFiniteSet(Threads)
  BY CondVarAssumption
<1>2. Registered \subseteq Threads
  BY DEF Registered
<1> QED BY <1>1, <1>2, FS_Subset, FS_CardinalityType

(* A token given back leaves a count. *)
LEMMA PutBackType == ASSUME sem \in Nat PROVE PutBack \in Nat
BY CondVarAssumption DEF PutBack

(* The invariant holds at first. *)
LEMMA InitInv == ASSUME CondInit PROVE IInv
<1>1. TypeOK
  <2>1. /\ at \in [Threads -> CondPlaces] /\ awaited \in [Threads -> SUBSET Threads]
        /\ seen \in [Threads -> Nat] /\ calls \in [Threads -> Nat]
    BY DEF CondInit, CondPlaces
  <2>2. /\ waiters \in Nat /\ generation \in Nat
        /\ remaining \in Int /\ sem \in Nat
    BY DEF CondInit
  <2>3. broadcasting \in BOOLEAN /\ done \in BOOLEAN
    BY DEF CondInit
  <2>4. mutex \in Threads \union {None}
    BY DEF CondInit
  <2> QED BY <2>1, <2>2, <2>3, <2>4 DEF TypeOK
<1>2. Registered = {} /\ Holders("notify") = {}
  BY DEF CondInit, Registered, Holders
<1>3. Counted
  BY <1>2, FS_EmptySet DEF CondInit, Counted
<1>4. Holding
  BY DEF CondInit, Holding
<1>5. Countdown
  BY <1>2 DEF CondInit, Countdown
<1> QED BY <1>1, <1>3, <1>4, <1>5 DEF IInv

-----------------------------------------------------------------------------
(* Every action preserves the invariant. *)

LEMMA LockInv ==
  ASSUME IInv, NEW t \in Threads, Lock(t)
  PROVE  IInv'
<1> USE DEF IInv
<1>1. /\ at[t] = "user" /\ mutex = None /\ mutex' = t /\ at' = at
      /\ UNCHANGED <<waiters, generation, broadcasting, remaining, sem, done,
                     seen, calls, awaited>>
  BY DEF Lock, fields
<1>2. Registered' = Registered /\ Holders("notify")' = Holders("notify")
  BY <1>1 DEF Registered, Holders
<1>3. TypeOK'
  BY <1>1 DEF TypeOK
<1>4. Counted'
  BY <1>1, <1>2 DEF Counted
<1>5. \A u \in Threads : at[u] \notin {"registered", "await", "clear"}
  BY <1>1, CondVarAssumption DEF Holding
<1>6. Holding'
  BY <1>1, <1>5 DEF Holding
<1>7. Countdown'
  BY <1>1, <1>2 DEF Countdown
<1> QED BY <1>3, <1>4, <1>6, <1>7

LEMMA UnlockInv ==
  ASSUME IInv, NEW t \in Threads, Unlock(t)
  PROVE  IInv'
<1> USE DEF IInv
<1>1. /\ at[t] = "user" /\ mutex = t /\ mutex' = None /\ at' = at
      /\ UNCHANGED <<waiters, generation, broadcasting, remaining, sem, done,
                     seen, calls, awaited>>
  BY DEF Unlock, fields
<1>2. Registered' = Registered /\ Holders("notify")' = Holders("notify")
  BY <1>1 DEF Registered, Holders
<1>3. TypeOK'
  BY <1>1 DEF TypeOK
<1>4. Counted'
  BY <1>1, <1>2 DEF Counted
<1>5. \A u \in Threads : at[u] \notin {"registered", "await", "clear"}
  BY <1>1 DEF Holding
<1>6. Holding'
  BY <1>1, <1>5 DEF Holding
<1>7. Countdown'
  BY <1>1, <1>2 DEF Countdown
<1> QED BY <1>3, <1>4, <1>6, <1>7

(* While a caller holds the mutex outside every call, nobody broadcasts. *)
LEMMA Alone ==
  ASSUME IInv, NEW t \in Threads, at[t] = "user", mutex = t
  PROVE  /\ \A u \in Threads : at[u] \notin {"registered", "await", "clear"}
         /\ ~broadcasting /\ ~done /\ Holders("notify") = {}
<1>1. \A u \in Threads : at[u] \notin {"registered", "await", "clear"}
  BY DEF IInv, Holding
<1>2. ~broadcasting
  BY <1>1 DEF IInv, Countdown, TypeOK
<1> QED BY <1>1, <1>2 DEF IInv, Countdown, TypeOK

LEMMA WaitRegisterInv ==
  ASSUME IInv, NEW t \in Threads, WaitRegister(t)
  PROVE  IInv'
<1> USE DEF IInv
<1>1. /\ at[t] = "user" /\ Move(t, "registered")
      /\ waiters' = waiters + 1
      /\ calls' = [calls EXCEPT ![t] = @ + 1]
      /\ seen' = [seen EXCEPT ![t] = generation]
      /\ UNCHANGED <<generation, broadcasting, remaining, sem, done, mutex,
                     awaited>>
  BY DEF WaitRegister, Calls
<1>2. mutex = t
  BY CondVarAssumption DEF WaitRegister, Calls
<1>3. /\ at' \in [Threads -> CondPlaces] /\ at'[t] = "registered"
      /\ \A u \in Threads : u # t => at'[u] = at[u]
      /\ Registered' = Registered \union {t} /\ t \notin Registered
  BY <1>1, Moves DEF TypeOK, CondPlaces, Inside, Registered
<1>4. Holders("notify")' = Holders("notify")
  BY <1>1, <1>3 DEF Holders
<1>5. TypeOK'
  <2>1. calls' \in [Threads -> Nat] /\ seen' \in [Threads -> Nat]
    BY <1>1 DEF TypeOK
  <2> QED BY <1>1, <1>3, <2>1 DEF TypeOK
<1>6. Counted'
  <2>1. Cardinality(Registered') = Cardinality(Registered) + 1
    BY <1>3, RegisteredFinite, FS_AddElement
  <2>2. \A u \in Threads : seen'[u] <= generation
    BY <1>1 DEF Counted, TypeOK
  <2> QED BY <1>1, <2>1, <2>2 DEF Counted
<1>7. /\ \A u \in Threads : at[u] \notin {"registered", "await", "clear"}
      /\ ~broadcasting /\ ~done /\ Holders("notify") = {}
  BY <1>1, <1>2, Alone
<1>8. Holding'
  BY <1>1, <1>2, <1>3, <1>7 DEF Holding
<1>9. \A u \in Threads : at'[u] \notin {"await", "clear", "notify"}
  BY <1>3, <1>7 DEF Holders
<1>10. Countdown'
  BY <1>1, <1>4, <1>7, <1>9 DEF Countdown
<1> QED BY <1>5, <1>6, <1>8, <1>10

LEMMA LeaveMutexInv ==
  ASSUME IInv, NEW t \in Threads, LeaveMutex(t)
  PROVE  IInv'
<1> USE DEF IInv
<1>1. /\ at[t] = "registered" /\ Move(t, "blocked") /\ mutex' = None
      /\ UNCHANGED <<waiters, generation, broadcasting, remaining, sem, done,
                     seen, calls, awaited>>
  BY DEF LeaveMutex, fields
<1>2. /\ at' \in [Threads -> CondPlaces] /\ at'[t] = "blocked"
      /\ \A u \in Threads : u # t => at'[u] = at[u]
      /\ Registered' = Registered
  BY <1>1, Moves DEF TypeOK, CondPlaces, Inside, Registered
<1>3. Holders("notify")' = Holders("notify")
  BY <1>1, <1>2 DEF Holders
<1>4. TypeOK'
  BY <1>1, <1>2 DEF TypeOK
<1>5. Counted'
  BY <1>1, <1>2 DEF Counted
<1>6. \A u \in Threads : at[u] \in {"registered", "await", "clear"} => u = t
  BY <1>1 DEF Holding
<1>7. Holding'
  BY <1>1, <1>2, <1>6 DEF Holding
<1>8. \A u \in Threads : at'[u] \in {"await", "clear", "notify"}
                           \/ at[u] \in {"await", "clear", "notify"}
                         => at'[u] = at[u]
  BY <1>1, <1>2
<1>9. Countdown'
  BY <1>1, <1>2, <1>3, <1>8 DEF Countdown
<1> QED BY <1>4, <1>5, <1>7, <1>9

(* A waiter that takes a token or gives it back stays registered. *)
LEMMA TokenInv ==
  ASSUME IInv, NEW t \in Threads, TakeToken(t) \/ ReturnToken(t)
  PROVE  IInv'
<1> USE DEF IInv
<1>1. /\ at[t] \in {"blocked", "check"}
      /\ \E place \in {"blocked", "check"} : Move(t, place)
      /\ UNCHANGED <<waiters, generation, broadcasting, remaining, done,
                     mutex, seen, calls, awaited>>
  BY DEF TakeToken, ReturnToken, fields
<1>2. sem' \in Nat
  BY PutBackType DEF TakeToken, ReturnToken, TypeOK
<1>3. /\ at' \in [Threads -> CondPlaces] /\ at'[t] \in {"blocked", "check"}
      /\ \A u \in Threads : u # t => at'[u] = at[u]
      /\ Registered' = Registered
  <2>1. PICK place \in {"blocked", "check"} : Move(t, place)
    BY <1>1
  <2> QED BY <1>1, <2>1, Moves DEF TypeOK, CondPlaces, Inside, Registered
<1>4. Holders("notify")' = Holders("notify")
  BY <1>1, <1>3 DEF Holders
<1>5. TypeOK'
  BY <1>1, <1>2, <1>3 DEF TypeOK
<1>6. Counted'
  BY <1>1, <1>3 DEF Counted
<1>7. Holding'
  BY <1>1, <1>3 DEF Holding
<1>8. \A u \in Threads : at'[u] \in {"await", "clear", "notify"}
                           \/ at[u] \in {"await", "clear", "notify"}
                         => at'[u] = at[u]
  BY <1>1, <1>3
<1>9. Countdown'
  BY <1>1, <1>3, <1>4, <1>8 DEF Countdown
<1> QED BY <1>5, <1>6, <1>7, <1>9

LEMMA LeaveConditionInv ==
  ASSUME IInv, NEW t \in Threads, LeaveCondition(t)
  PROVE  IInv'
<1> USE DEF IInv
<1> DEFINE last == broadcasting /\ remaining' = 0
<1>1. /\ at[t] = "check"
      /\ Move(t, IF last THEN "notify" ELSE "relock")
      /\ waiters' = waiters - 1
      /\ remaining' = IF broadcasting THEN remaining - 1 ELSE remaining
      /\ awaited' = [u \in Threads |-> awaited[u] \ {t}]
      /\ UNCHANGED <<generation, broadcasting, sem, done, mutex, seen, calls>>
  BY DEF LeaveCondition
<1>2. t \in Registered /\ ~done /\ Holders("notify") = {}
  BY <1>1 DEF Registered, Countdown, TypeOK
<1> HIDE DEF last
<1>3. /\ at' \in [Threads -> CondPlaces]
      /\ at'[t] = IF last THEN "notify" ELSE "relock"
      /\ \A u \in Threads : u # t => at'[u] = at[u]
      /\ Registered' = Registered \ {t} /\ Registered \subseteq Threads
  BY <1>1, Moves DEF TypeOK, CondPlaces, Inside
<1>4. /\ Cardinality(Registered') = Cardinality(Registered) - 1
      /\ Cardinality(Registered') \in Nat /\ Cardinality(Registered) \in Nat
      /\ IsFiniteSet(Registered')
  BY <1>2, <1>3, RegisteredFinite, FS_RemoveElement, FS_CardinalityType
<1>5. TypeOK'
  <2>1. waiters' \in Nat
    BY <1>1, <1>4 DEF Counted
  <2>2. remaining' \in Int
    BY <1>1 DEF TypeOK
  <2>3. awaited' \in [Threads -> SUBSET Threads]
    BY <1>1 DEF TypeOK
  <2> QED BY <1>1, <1>3, <2>1, <2>2, <2>3 DEF TypeOK
<1>6. Counted'
  BY <1>1, <1>4 DEF Counted
<1>7. Holding'
  BY <1>1, <1>3 DEF Holding
<1>8. \A u \in Threads : (at'[u] \in {"await", "clear"} \/ at[u] \in {"await", "clear"})
                           => at'[u] = at[u]
  BY <1>1, <1>3
<1>9. \A u \in Threads : at[u] # "clear"
  BY <1>2 DEF Countdown
<1>10. \A u \in Threads : at'[u] = "notify" => u = t /\ last
  BY <1>2, <1>3 DEF Holders
<1>11. last => broadcasting /\ Registered' = {}
  <2>1. SUFFICES ASSUME last PROVE broadcasting /\ Registered' = {}
    OBVIOUS
  <2>2. broadcasting /\ remaining' = 0
    BY <2>1 DEF last
  <2>3. remaining = Cardinality(Registered)
    BY <2>2 DEF Countdown
  <2>4. Cardinality(Registered') = 0
    BY <1>1, <1>4, <2>2, <2>3
  <2> QED BY <1>4, <2>2, <2>4, FS_EmptySet
<1>12. Countdown'
  <2>1. broadcasting' <=> \E u \in Threads : at'[u] \in {"await", "clear"}
    BY <1>1, <1>8 DEF Countdown
  <2>2. ASSUME NEW u \in Threads, at'[u] \in {"await", "clear"}
        PROVE  remaining' = Cardinality(Registered') /\ awaited'[u] = Registered'
    <3>1. at[u] \in {"await", "clear"} /\ broadcasting
      BY <2>2, <1>8 DEF Countdown
    <3>2. remaining = Cardinality(Registered) /\ awaited[u] = Registered
      BY <3>1 DEF Countdown
    <3> QED BY <1>1, <1>3, <1>4, <3>1, <3>2
  <2>3. \A u \in Threads : at'[u] # "clear"
    BY <1>8, <1>9
  <2>4. ~done'
    BY <1>1, <1>2
  <2>5. Holders("notify")' # {} => last
    BY <1>10 DEF Holders
  <2>6. done' \/ Holders("notify")' # {} => broadcasting' /\ Registered' = {}
    BY <1>1, <1>11, <2>4, <2>5
  <2> QED BY <1>10, <2>1, <2>2, <2>3, <2>4, <2>6 DEF Countdown
<1> QED BY <1>5, <1>6, <1>7, <1>12

LEMMA NotifyInv ==
  ASSUME IInv, NEW t \in Threads, Notify(t)
  PROVE  IInv'
<1> USE DEF IInv
<1>1. /\ at[t] = "notify" /\ Move(t, "relock") /\ done' = TRUE
      /\ UNCHANGED <<waiters, generation, broadcasting, remaining, sem, mutex,
                     seen, calls, awaited>>
  BY DEF Notify, fields
<1>2. t \in Holders("notify")
  BY <1>1 DEF Holders
<1>3. /\ at' \in [Threads -> CondPlaces] /\ at'[t] = "relock"
      /\ \A u \in Threads : u # t => at'[u] = at[u]
      /\ Registered' = Registered
  BY <1>1, Moves DEF TypeOK, CondPlaces, Inside, Registered
<1>4. broadcasting /\ Registered = {} /\ \A u \in Threads : at[u] # "clear"
  BY <1>2 DEF Countdown
<1>5. \A u \in Threads : at'[u] # "notify"
  BY <1>1, <1>3 DEF Countdown
<1>6. Holders("notify")' = {}
  BY <1>5 DEF Holders
<1>7. TypeOK'
  BY <1>1, <1>3 DEF TypeOK
<1>8. Counted'
  BY <1>1, <1>3 DEF Counted
<1>9. Holding'
  BY <1>1, <1>3 DEF Holding
<1>10. \A u \in Threads : at'[u] \in {"await", "clear"} \/ at[u] \in {"await", "clear"}
                            => at'[u] = at[u]
  BY <1>1, <1>3
<1>11. Countdown'
  BY <1>1, <1>3, <1>4, <1>5, <1>6, <1>10 DEF Countdown
<1> QED BY <1>7, <1>8, <1>9, <1>11

LEMMA RelockInv ==
  ASSUME IInv, NEW t \in Threads, Relock(t)
  PROVE  IInv'
<1> USE DEF IInv
<1>1. /\ at[t] = "relock" /\ mutex = None /\ mutex' = t /\ Move(t, "user")
      /\ UNCHANGED <<waiters, generation, broadcasting, remaining, sem, done,
                     seen, calls, awaited>>
  BY DEF Relock, fields
<1>2. /\ at' \in [Threads -> CondPlaces] /\ at'[t] = "user"
      /\ \A u \in Threads : u # t => at'[u] = at[u]
      /\ Registered' = Registered
  BY <1>1, Moves DEF TypeOK, CondPlaces, Inside, Registered
<1>3. Holders("notify")' = Holders("notify")
  BY <1>1, <1>2 DEF Holders
<1>4. \A u \in Threads : at[u] \notin {"registered", "await", "clear"}
  BY <1>1, CondVarAssumption DEF Holding
<1>5. TypeOK'
  BY <1>1, <1>2 DEF TypeOK
<1>6. Counted'
  BY <1>1, <1>2 DEF Counted
<1>7. Holding'
  BY <1>1, <1>2, <1>4 DEF Holding
<1>8. \A u \in Threads : at'[u] \in {"await", "clear", "notify"}
                           \/ at[u] \in {"await", "clear", "notify"}
                         => at'[u] = at[u]
  BY <1>1, <1>2
<1>9. Countdown'
  BY <1>1, <1>2, <1>3, <1>8 DEF Countdown
<1> QED BY <1>5, <1>6, <1>7, <1>9

LEMMA SignalsInv ==
  ASSUME IInv, NEW t \in Threads, Signals(t)
  PROVE  IInv'
<1> USE DEF IInv
<1>1. /\ at[t] = "user" /\ calls' = [calls EXCEPT ![t] = @ + 1]
      /\ UNCHANGED <<waiters, broadcasting, remaining, sem, done, mutex, seen>>
  BY DEF Signals, Calls
<1>2. calls' \in [Threads -> Nat]
  BY <1>1 DEF TypeOK
<1>3. CASE waiters > 0
  <2>1. /\ generation' = generation + 1 /\ Move(t, "post")
        /\ awaited' = [awaited EXCEPT ![t] = Registered]
    BY <1>3 DEF Signals
  <2>2. /\ at' \in [Threads -> CondPlaces] /\ at'[t] = "post"
        /\ \A u \in Threads : u # t => at'[u] = at[u]
        /\ Registered' = Registered /\ Registered \subseteq Threads
    BY <1>1, <2>1, Moves DEF TypeOK, CondPlaces, Inside, Registered
  <2>3. Holders("notify")' = Holders("notify")
    BY <1>1, <2>2 DEF Holders
  <2>4. awaited' \in [Threads -> SUBSET Threads]
    BY <2>1, <2>2 DEF TypeOK
  <2>5. TypeOK'
    BY <1>1, <1>2, <2>1, <2>2, <2>4 DEF TypeOK
  <2>6. Counted'
    BY <1>1, <2>1, <2>2 DEF Counted, TypeOK
  <2>7. Holding'
    BY <1>1, <2>2 DEF Holding
  <2>8. \A u \in Threads : at'[u] \in {"await", "clear", "notify"}
                             \/ at[u] \in {"await", "clear", "notify"}
                           => at'[u] = at[u] /\ awaited'[u] = awaited[u]
    BY <1>1, <2>1, <2>2 DEF TypeOK
  <2>9. Countdown'
    BY <1>1, <2>2, <2>3, <2>8 DEF Countdown
  <2> QED BY <2>5, <2>6, <2>7, <2>9
<1>4. CASE ~(waiters > 0)
  <2>1. UNCHANGED <<generation, awaited, at>>
    BY <1>4 DEF Signals
  <2>2. Registered' = Registered /\ Holders("notify")' = Holders("notify")
    BY <2>1 DEF Registered, Holders
  <2> QED BY <1>1, <1>2, <2>1, <2>2 DEF TypeOK, Counted, Holding, Countdown
<1> QED BY <1>3, <1>4

LEMMA PostInv ==
  ASSUME IInv, NEW t \in Threads, Post(t)
  PROVE  IInv'
<1> USE DEF IInv
<1>1. /\ at[t] = "post" /\ Move(t, "user")
      /\ UNCHANGED <<waiters, generation, broadcasting, remaining, done,
                     mutex, seen, calls, awaited>>
  BY DEF Post, fields
<1>2. sem' \in Nat
  BY PutBackType DEF Post, TypeOK
<1>3. /\ at' \in [Threads -> CondPlaces] /\ at'[t] = "user"
      /\ \A u \in Threads : u # t => at'[u] = at[u]
      /\ Registered' = Registered
  BY <1>1, Moves DEF TypeOK, CondPlaces, Inside, Registered
<1>4. Holders("notify")' = Holders("notify")
  BY <1>1, <1>3 DEF Holders
<1>5. TypeOK'
  BY <1>1, <1>2, <1>3 DEF TypeOK
<1>6. Counted'
  BY <1>1, <1>3 DEF Counted
<1>7. Holding'
  BY <1>1, <1>3 DEF Holding
<1>8. \A u \in Threads : at'[u] \in {"await", "clear", "notify"}
                           \/ at[u] \in {"await", "clear", "notify"}
                         => at'[u] = at[u]
  BY <1>1, <1>3
<1>9. Countdown'
  BY <1>1, <1>3, <1>4, <1>8 DEF Countdown
<1> QED BY <1>5, <1>6, <1>7, <1>9

LEMMA BroadcastsInv ==
  ASSUME "broadcast" \notin Unlocked,
         IInv, NEW t \in Threads, Broadcasts(t)
  PROVE  IInv'
<1> USE DEF IInv
<1>1. /\ at[t] = "user" /\ mutex = t
      /\ calls' = [calls EXCEPT ![t] = @ + 1]
      /\ UNCHANGED <<done, mutex, seen>>
  BY DEF Broadcasts, Calls
<1>2. calls' \in [Threads -> Nat]
  BY <1>1 DEF TypeOK
<1>3. /\ \A u \in Threads : at[u] \notin {"registered", "await", "clear"}
      /\ ~broadcasting /\ ~done /\ Holders("notify") = {}
  BY <1>1, Alone
<1>4. CASE waiters = 0
  <2>1. UNCHANGED <<waiters, generation, broadcasting, remaining, sem, at,
                    awaited>>
    BY <1>4 DEF Broadcasts, fields
  <2>2. Registered' = Registered /\ Holders("notify")' = Holders("notify")
    BY <2>1 DEF Registered, Holders
  <2> QED BY <1>1, <1>2, <2>1, <2>2 DEF TypeOK, Counted, Holding, Countdown
<1>5. CASE waiters # 0
  <2> DEFINE place == IF broadcasting' THEN "await" ELSE "user"
  <2>1. /\ remaining' = waiters /\ generation' = generation + 1
        /\ broadcasting' = (sem + waiters <= SemMax)
        /\ sem' = (IF broadcasting' THEN sem + waiters ELSE sem)
        /\ awaited' = [awaited EXCEPT ![t] = Registered]
        /\ Move(t, place) /\ waiters' = waiters
    BY <1>5 DEF Broadcasts
  <2>2. place \in CondPlaces \ Inside /\ broadcasting' \in BOOLEAN
    BY <2>1 DEF CondPlaces, Inside
  <2>3. place \in {"await", "user"}
    OBVIOUS
  <2>4. broadcasting' => place = "await"
    OBVIOUS
  <2> HIDE DEF place
  <2>5. /\ at' \in [Threads -> CondPlaces] /\ at'[t] = place
        /\ \A u \in Threads : u # t => at'[u] = at[u]
        /\ Registered' = Registered /\ Registered \subseteq Threads
    BY <1>1, <2>1, <2>2, Moves DEF TypeOK, Registered
  <2>6. \A u \in Threads : at'[u] \notin {"notify", "clear", "registered"}
    BY <1>3, <2>3, <2>5 DEF Holders
  <2>7. Holders("notify")' = {}
    BY <2>6 DEF Holders
  <2>8. TypeOK'
    <3>1. awaited' \in [Threads -> SUBSET Threads]
      BY <2>1, <2>5 DEF TypeOK
    <3>2. sem' \in Nat /\ remaining' \in Int /\ generation' \in Nat
      BY <2>1 DEF TypeOK
    <3> QED BY <1>1, <1>2, <2>1, <2>2, <2>5, <3>1, <3>2 DEF TypeOK
  <2>9. Counted'
    BY <1>1, <2>1, <2>5 DEF Counted, TypeOK
  <2>10. Holding'
    BY <1>1, <1>3, <2>5 DEF Holding
  <2>11. \A u \in Threads : at'[u] \in {"await", "clear"} => u = t /\ place = "await"
    BY <1>3, <2>3, <2>5
  <2>12. place = "await" => broadcasting'
    <3>1. "await" # "user"
      OBVIOUS
    <3> QED BY <2>2, <3>1 DEF place
  <2>13. awaited'[t] = Registered' /\ remaining' = Cardinality(Registered')
    BY <2>1, <2>5 DEF TypeOK, Counted
  <2>14. ~done'
    BY <1>1, <1>3
  <2>15. Countdown'
    <3>1. broadcasting' <=> \E u \in Threads : at'[u] \in {"await", "clear"}
      BY <2>4, <2>5, <2>11, <2>12
    <3> QED BY <2>6, <2>7, <2>11, <2>13, <2>14, <3>1 DEF Countdown
  <2> QED BY <2>8, <2>9, <2>10, <2>15
<1> QED BY <1>4, <1>5

LEMMA AwaitInv ==
  ASSUME IInv, NEW t \in Threads, AwaitDone(t)
  PROVE  IInv'
<1> USE DEF IInv
<1>1. /\ at[t] = "await" /\ done /\ done' = FALSE /\ Move(t, "clear")
      /\ UNCHANGED <<waiters, generation, broadcasting, remaining, sem, mutex,
                     seen, calls, awaited>>
  BY DEF AwaitDone, fields
<1>2. /\ at' \in [Threads -> CondPlaces] /\ at'[t] = "clear"
      /\ \A u \in Threads : u # t => at'[u] = at[u]
      /\ Registered' = Registered
  BY <1>1, Moves DEF TypeOK, CondPlaces, Inside, Registered
<1>3. Holders("notify")' = Holders("notify")
  BY <1>1, <1>2 DEF Holders
<1>4. Registered = {} /\ Holders("notify") = {}
  BY <1>1 DEF Countdown
<1>5. TypeOK'
  BY <1>1, <1>2 DEF TypeOK
<1>6. Counted'
  BY <1>1, <1>2 DEF Counted
<1>7. Holding'
  BY <1>1, <1>2 DEF Holding
<1>8. \A u \in Threads : at'[u] \in {"await", "clear"} <=> at[u] \in {"await", "clear"}
  BY <1>1, <1>2
<1>9. Countdown'
  <2>1. broadcasting' <=> \E u \in Threads : at'[u] \in {"await", "clear"}
    BY <1>1, <1>8 DEF Countdown
  <2>2. \A u \in Threads : at'[u] \in {"await", "clear"} =>
          remaining' = Cardinality(Registered') /\ awaited'[u] = Registered'
    BY <1>1, <1>2, <1>8 DEF Countdown
  <2>3. \A u \in Threads : at'[u] # "notify"
    BY <1>3, <1>4 DEF Holders
  <2> QED BY <1>1, <1>2, <1>3, <1>4, <2>1, <2>2, <2>3 DEF Countdown
<1> QED BY <1>5, <1>6, <1>7, <1>9

LEMMA ClearInv ==
  ASSUME IInv, NEW t \in Threads, Clear(t)
  PROVE  IInv'
<1> USE DEF IInv
<1>1. /\ at[t] = "clear" /\ broadcasting' = FALSE /\ Move(t, "user")
      /\ UNCHANGED <<waiters, generation, remaining, sem, done, mutex, seen,
                     calls, awaited>>
  BY DEF Clear
<1>2. /\ at' \in [Threads -> CondPlaces] /\ at'[t] = "user"
      /\ \A u \in Threads : u # t => at'[u] = at[u]
      /\ Registered' = Registered
  BY <1>1, Moves DEF TypeOK, CondPlaces, Inside, Registered
<1>3. Holders("notify")' = Holders("notify")
  BY <1>1, <1>2 DEF Holders
<1>4. ~done /\ Registered = {} /\ Holders("notify") = {}
  BY <1>1 DEF Countdown
<1>5. \A u \in Threads : at[u] \in {"await", "clear"} => u = t
  BY <1>1 DEF Holding
<1>6. \A u \in Threads : at'[u] \notin {"await", "clear"}
  BY <1>2, <1>5
<1>7. TypeOK'
  BY <1>1, <1>2 DEF TypeOK
<1>8. Counted'
  BY <1>1, <1>2 DEF Counted
<1>9. Holding'
  BY <1>1, <1>2 DEF Holding
<1>10. \A u \in Threads : at'[u] # "notify"
  BY <1>3, <1>4 DEF Holders
<1>11. Countdown'
  BY <1>1, <1>3, <1>4, <1>6, <1>10 DEF Countdown
<1> QED BY <1>7, <1>8, <1>9, <1>11

LEMMA IdleInv ==
  ASSUME IInv, UNCHANGED condvars
  PROVE  IInv'
<1>1. /\ UNCHANGED <<waiters, generation, broadcasting, remaining, sem, done,
                     mutex, at, seen, calls, awaited>>
  BY DEF condvars
<1>2. Registered' = Registered /\ Holders("notify")' = Holders("notify")
  BY <1>1 DEF Registered, Holders
<1>3. TypeOK'
  BY <1>1 DEF IInv, TypeOK
<1>4. Counted' /\ Holding'
  BY <1>1, <1>2 DEF IInv, Counted, Holding
<1>5. Countdown'
  BY <1>1, <1>2 DEF IInv, Countdown
<1> QED BY <1>3, <1>4, <1>5 DEF IInv

(* The invariant is inductive. *)
LEMMA NextInv ==
  ASSUME "broadcast" \notin Unlocked, IInv, [CondNext]_condvars
  PROVE  IInv'
<1>1. CASE UNCHANGED condvars
  BY <1>1, IdleInv
<1>2. CASE CondNext
  <2>1. PICK t \in Threads : CondStep(t)
    BY <1>2 DEF CondNext
  <2>2. CASE CondCall(t)
    BY <2>2, LeaveMutexInv, TokenInv, LeaveConditionInv, NotifyInv,
       RelockInv, PostInv, AwaitInv, ClearInv DEF CondCall
  <2> QED BY <2>1, <2>2, LockInv, UnlockInv, WaitRegisterInv, SignalsInv,
             BroadcastsInv DEF CondStep
<1> QED BY <1>1, <1>2

(* The invariant holds in every state of a program that broadcasts with the
   mutex held. *)
THEOREM CondVarInvariant ==
  ASSUME "broadcast" \notin Unlocked
  PROVE  CondSpec => []IInv
<1>1. CondInit => IInv
  BY InitInv
<1>2. IInv /\ [CondNext]_condvars => IInv'
  BY NextInv
<1> QED BY <1>1, <1>2, PTL DEF CondSpec

-----------------------------------------------------------------------------
(* pthread_cond_broadcast returns only when every thread it found registered
   has left the condition, whoever signals, takes a stale token or gives one
   back meanwhile: a broadcaster that clears the flag has seen the countdown
   end, and nobody enters the condition while it holds the mutex. *)
THEOREM BroadcastAlwaysCovers ==
  ASSUME "broadcast" \notin Unlocked
  PROVE  CondSpec => BroadcastCovers
<1>1. ASSUME IInv, NEW t \in Threads, at[t] = "clear"
      PROVE  awaited[t] = {}
  BY <1>1 DEF IInv, Countdown
<1>2. IInv => [\A t \in Threads :
                 at[t] = "clear" /\ at'[t] = "user" => awaited[t] = {}]_condvars
  BY <1>1
<1> QED BY <1>2, CondVarInvariant, PTL DEF BroadcastCovers

-----------------------------------------------------------------------------
(* The generation counter, the semaphore and the event implement the atomic
   condition.  The semaphore refuses a token at its maximum count, 0x7fffffff
   in the code; the theorem is about executions in which the tokens nobody
   has consumed for good stay below it. *)

Roomy == condition.tokens <= SemMax

Eligible == {t \in Registered : seen[t] # generation}
InHand == Holders("check") \union Holders("post")
Tokens == sem + Cardinality(InHand)
Drained == done \/ Holders("notify") \union Holders("clear") # {}

(* A condition with these parts. *)
Parts(r, e, k, m, b, d) ==
  [registered |-> r, eligible |-> e, tokens |-> k,
   remaining |-> m, broadcasting |-> b, drained |-> d]

LEMMA ConditionParts ==
  condition = Parts(Registered, Eligible, Tokens, remaining, broadcasting,
                    Drained)
BY DEF condition, Parts, Eligible, Tokens, InHand, Drained

(* The operations of Condition, part by part. *)
LEMMA RegisterParts ==
  ASSUME NEW r, NEW e, NEW k, NEW m, NEW b, NEW d, NEW t
  PROVE  Atomic!Register(Parts(r, e, k, m, b, d), t)
           = Parts(r \union {t}, e, k, m, b, d)
BY DEF Atomic!Register, Parts

LEMMA SignalParts ==
  ASSUME NEW r, NEW e, NEW k, NEW m, NEW b, NEW d, r # {}, k < SemMax
  PROVE  Atomic!Signal(Parts(r, e, k, m, b, d)) = Parts(r, r, k + 1, m, b, d)
BY DEF Atomic!Signal, Parts

LEMMA EndParts ==
  ASSUME NEW r, NEW e, NEW k, NEW m, NEW b, NEW d
  PROVE  Atomic!EndBroadcast(Parts(r, e, k, m, b, d))
           = Parts(r, e, k, m, FALSE, FALSE)
<1> DEFINE c == Parts(r, e, k, m, b, d)
<1>1. ASSUME NEW x, NEW y
      PROVE  [c EXCEPT !.broadcasting = x, !.drained = y] = Parts(r, e, k, m, x, y)
  <2>1. [c EXCEPT !.broadcasting = x, !.drained = y]
          = [[c EXCEPT !.broadcasting = x] EXCEPT !.drained = y]
    OBVIOUS
  <2>2. [c EXCEPT !.broadcasting = x] = Parts(r, e, k, m, x, d)
    BY DEF Parts
  <2>3. [Parts(r, e, k, m, x, d) EXCEPT !.drained = y] = Parts(r, e, k, m, x, y)
    BY DEF Parts
  <2> QED BY <2>1, <2>2, <2>3
<1> QED BY <1>1, Zenon DEF Atomic!EndBroadcast

(* A thread that moves gains or loses at most one token in hand. *)
LEMMA HandMoves ==
  ASSUME at \in [Threads -> CondPlaces], NEW t \in Threads, NEW place \in CondPlaces,
         Move(t, place)
  PROVE  /\ InHand' = IF place \in {"check", "post"} THEN InHand \union {t}
                                                     ELSE InHand \ {t}
         /\ t \in InHand <=> at[t] \in {"check", "post"}
         /\ IsFiniteSet(InHand) /\ Cardinality(InHand) \in Nat
<1>1. /\ at'[t] = place
      /\ \A u \in Threads : u # t => at'[u] = at[u]
  BY Moves
<1>2. \A u : u \in InHand' <=> u \in Threads /\ at'[u] \in {"check", "post"}
  BY DEF InHand, Holders
<1>3. \A u : u \in InHand <=> u \in Threads /\ at[u] \in {"check", "post"}
  BY DEF InHand, Holders
<1>4. IsFiniteSet(InHand) /\ Cardinality(InHand) \in Nat
  <2>1. IsFiniteSet(Threads) /\ InHand \subseteq Threads
    BY <1>3, CondVarAssumption
  <2> QED BY <2>1, FS_Subset, FS_CardinalityType
<1>5. CASE place \in {"check", "post"}
  <2>1. \A u : u \in InHand' <=> u \in InHand \union {t}
    BY <1>1, <1>2, <1>3, <1>5
  <2>2. InHand' = InHand \union {t}
    BY <2>1
  <2> QED BY <1>3, <1>4, <1>5, <2>2
<1>6. CASE place \notin {"check", "post"}
  <2>1. \A u : u \in InHand' <=> u \in InHand \ {t}
    BY <1>1, <1>2, <1>3, <1>6
  <2>2. InHand' = InHand \ {t}
    BY <2>1
  <2> QED BY <1>3, <1>4, <1>6, <2>2
<1> QED BY <1>5, <1>6

(* The same for the threads that stand for a broadcast nobody has finished. *)
LEMMA DrainedMoves ==
  ASSUME at \in [Threads -> CondPlaces], NEW t \in Threads, NEW place \in CondPlaces,
         Move(t, place),
         at[t] \notin {"notify", "clear"}, place \notin {"notify", "clear"},
         done' = done
  PROVE  Drained' = Drained
<1>1. \A u \in Threads : at'[u] \in {"notify", "clear"} <=> at[u] \in {"notify", "clear"}
  BY Moves
<1>2. (Holders("notify") \union Holders("clear"))'
        = Holders("notify") \union Holders("clear")
  BY <1>1 DEF Holders
<1> QED BY <1>2 DEF Drained

(* A step that changes no part of the condition. *)
LEMMA SameParts ==
  ASSUME Registered' = Registered, Eligible' = Eligible, Tokens' = Tokens,
         remaining' = remaining, broadcasting' = broadcasting,
         Drained' = Drained
  PROVE  condition' = condition
BY ConditionParts DEF condition, Parts, Eligible, Tokens, InHand, Drained

(* A thread that moves between places no part of the condition names. *)
LEMMA MoveAside ==
  ASSUME IInv, NEW t \in Threads, NEW place \in CondPlaces, Move(t, place),
         at[t] \in Inside <=> place \in Inside,
         at[t] \notin {"notify", "clear", "check", "post"},
         place \notin {"notify", "clear", "check", "post"},
         UNCHANGED <<generation, broadcasting, remaining, sem, done, seen>>
  PROVE  condition' = condition
<1> USE DEF IInv, TypeOK
<1>1. Registered' = Registered
  BY Moves DEF Registered, Inside
<1>2. Eligible' = Eligible
  BY <1>1 DEF Eligible
<1>3. InHand' = InHand
  BY HandMoves
<1>4. Tokens' = Tokens
  BY <1>3 DEF Tokens
<1>5. Drained' = Drained
  BY DrainedMoves
<1> QED BY <1>1, <1>2, <1>4, <1>5, SameParts

(* Every action is a step of the atomic condition or invisible to it. *)

(* A caller that takes or leaves the mutex does not touch the condition. *)
LEMMA CallerStep ==
  ASSUME IInv, NEW t \in Threads, Lock(t) \/ Unlock(t)
  PROVE  condition' = condition
<1>1. /\ at' = at /\ seen' = seen /\ sem' = sem /\ done' = done
      /\ generation' = generation /\ remaining' = remaining
      /\ broadcasting' = broadcasting
  BY DEF Lock, Unlock, fields
<1>2. /\ Registered' = Registered /\ InHand' = InHand
      /\ Holders("notify")' = Holders("notify")
      /\ Holders("clear")' = Holders("clear")
  BY <1>1 DEF Registered, InHand, Holders
<1>3. Eligible' = Eligible /\ Tokens' = Tokens /\ Drained' = Drained
  BY <1>1, <1>2 DEF Eligible, Tokens, Drained
<1> QED BY <1>1, <1>2, <1>3, SameParts

LEMMA LeaveMutexStep ==
  ASSUME IInv, NEW t \in Threads, LeaveMutex(t)
  PROVE  condition' = condition
BY MoveAside DEF LeaveMutex, fields, CondPlaces, Inside

LEMMA RelockStep ==
  ASSUME IInv, NEW t \in Threads, Relock(t)
  PROVE  condition' = condition
BY MoveAside DEF Relock, fields, CondPlaces, Inside

(* The tokens of the condition are a number. *)
LEMMA TokensType == ASSUME IInv PROVE Tokens \in Nat
<1>1. \A u : u \in InHand <=> u \in Threads /\ at[u] \in {"check", "post"}
  BY DEF InHand, Holders
<1>2. IsFiniteSet(Threads) /\ InHand \subseteq Threads
  BY <1>1, CondVarAssumption
<1>3. Cardinality(InHand) \in Nat
  BY <1>2, FS_Subset, FS_CardinalityType
<1> QED BY <1>3 DEF Tokens, IInv, TypeOK

(* A waiter that takes a token holds it, instead of the semaphore. *)
LEMMA TakeTokenStep ==
  ASSUME IInv, NEW t \in Threads, TakeToken(t)
  PROVE  condition' = condition
<1> USE DEF IInv, TypeOK
<1>1. /\ at[t] = "blocked" /\ sem > 0 /\ sem' = sem - 1 /\ Move(t, "check")
      /\ UNCHANGED <<generation, broadcasting, remaining, done, seen>>
  BY DEF TakeToken, fields
<1>2. Registered' = Registered
  BY <1>1, Moves DEF Registered, Inside, CondPlaces
<1>3. Eligible' = Eligible
  BY <1>1, <1>2 DEF Eligible
<1>4. /\ InHand' = InHand \union {t} /\ t \notin InHand
      /\ IsFiniteSet(InHand) /\ Cardinality(InHand) \in Nat
  BY <1>1, HandMoves DEF CondPlaces
<1>5. Cardinality(InHand') = Cardinality(InHand) + 1
  BY <1>4, FS_AddElement
<1>6. Tokens' = Tokens
  BY <1>1, <1>4, <1>5 DEF Tokens
<1>7. Drained' = Drained
  BY <1>1, DrainedMoves DEF CondPlaces
<1> QED BY <1>1, <1>2, <1>3, <1>6, <1>7, SameParts

(* A token in hand goes back into a semaphore that is not full. *)
LEMMA PutBackStep ==
  ASSUME IInv, Roomy, NEW t \in Threads, ReturnToken(t) \/ Post(t)
  PROVE  condition' = condition
<1> USE DEF IInv, TypeOK
<1>1. /\ at[t] \in {"check", "post"} /\ sem' = PutBack
      /\ UNCHANGED <<generation, broadcasting, remaining, done, seen>>
  BY DEF ReturnToken, Post, fields
<1>2. PICK place \in {"blocked", "user"} :
        Move(t, place) /\ (at[t] \in Inside <=> place \in Inside)
  BY DEF ReturnToken, Post, Inside
<1>3. Registered' = Registered
  BY <1>1, <1>2, Moves DEF Registered, Inside, CondPlaces
<1>4. Eligible' = Eligible
  BY <1>1, <1>3 DEF Eligible
<1>5. /\ InHand' = InHand \ {t} /\ t \in InHand
      /\ IsFiniteSet(InHand) /\ Cardinality(InHand) \in Nat
  BY <1>1, <1>2, HandMoves DEF CondPlaces
<1>6. Cardinality(InHand') = Cardinality(InHand) - 1
      /\ Cardinality(InHand') \in Nat
  BY <1>5, FS_RemoveElement, FS_CardinalityType
<1>7. sem < SemMax
  <2>1. Tokens <= SemMax
    BY ConditionParts DEF Roomy, Parts
  <2> QED BY <1>6, <2>1, <1>5, CondVarAssumption DEF Tokens
<1>8. Tokens' = Tokens
  BY <1>1, <1>5, <1>6, <1>7 DEF Tokens, PutBack
<1>9. Drained' = Drained
  BY <1>1, <1>2, DrainedMoves DEF CondPlaces
<1> QED BY <1>1, <1>3, <1>4, <1>8, <1>9, SameParts

(* A waiter that is counted in enters the condition. *)
LEMMA WaitRegisterStep ==
  ASSUME IInv, NEW t \in Threads, WaitRegister(t)
  PROVE  Atomic!Enter(t)
<1> USE DEF IInv, TypeOK
<1>1. /\ at[t] = "user" /\ Move(t, "registered")
      /\ seen' = [seen EXCEPT ![t] = generation]
      /\ UNCHANGED <<generation, broadcasting, remaining, sem, done>>
  BY DEF WaitRegister, Calls
<1>2. /\ Registered' = Registered \union {t} /\ t \notin Registered
      /\ Registered \subseteq Threads
  BY <1>1, Moves DEF Registered, Inside, CondPlaces
<1>3. Eligible' = Eligible
  <2>1. \A u \in Registered : seen'[u] = seen[u]
    BY <1>1, <1>2
  <2>2. seen'[t] = generation
    BY <1>1
  <2> QED BY <1>1, <1>2, <2>1, <2>2 DEF Eligible
<1>4. InHand' = InHand
  BY <1>1, HandMoves DEF CondPlaces
<1>5. Tokens' = Tokens
  BY <1>1, <1>4 DEF Tokens
<1>6. Drained' = Drained
  BY <1>1, DrainedMoves DEF CondPlaces
<1>7. condition' = Parts(Registered', Eligible', Tokens', remaining',
                         broadcasting', Drained')
  BY ConditionParts DEF condition, Parts, Eligible, Tokens, InHand, Drained
<1>8. condition' = Parts(Registered \union {t}, Eligible, Tokens, remaining,
                         broadcasting, Drained)
  BY <1>1, <1>2, <1>3, <1>5, <1>6, <1>7
<1>9. condition.registered = Registered
  BY DEF condition
<1> QED BY <1>2, <1>8, <1>9, ConditionParts, RegisterParts DEF Atomic!Enter

(* A waiter that may leave is counted out, and tells the broadcaster if it
   is the last one. *)
LEMMA LeaveConditionStep ==
  ASSUME IInv, NEW t \in Threads, LeaveCondition(t)
  PROVE  Atomic!Exit(t)
<1> USE DEF IInv, TypeOK
<1> DEFINE last == broadcasting /\ remaining = 1
           place == IF last THEN "notify" ELSE "relock"
<1>1. /\ at[t] = "check" /\ seen[t] # generation /\ Move(t, place)
      /\ remaining' = IF broadcasting THEN remaining - 1 ELSE remaining
      /\ UNCHANGED <<generation, broadcasting, sem, done, seen>>
  <2>1. broadcasting /\ remaining' = 0 <=> last
    BY DEF LeaveCondition
  <2> QED BY <2>1 DEF LeaveCondition
<1>2. place \in {"notify", "relock"} /\ (place = "notify" <=> last)
  OBVIOUS
<1> HIDE DEF place, last
<1>3. Registered' = Registered \ {t} /\ t \in Registered
  BY <1>1, <1>2, Moves DEF Registered, Inside, CondPlaces
<1>4. Eligible' = Eligible \ {t} /\ t \in Eligible
  BY <1>1, <1>3 DEF Eligible
<1>5. /\ InHand' = InHand \ {t} /\ t \in InHand
      /\ IsFiniteSet(InHand) /\ Cardinality(InHand) \in Nat
  BY <1>1, <1>2, HandMoves DEF CondPlaces
<1>6. Cardinality(InHand') = Cardinality(InHand) - 1
      /\ Cardinality(InHand') \in Nat
  BY <1>5, FS_RemoveElement, FS_CardinalityType
<1>7. Tokens' = Tokens - 1 /\ Tokens > 0
  BY <1>1, <1>5, <1>6 DEF Tokens
<1>8. Drained' <=> Drained \/ last
  <2>1. /\ at'[t] = place
        /\ \A u \in Threads : u # t => at'[u] = at[u]
    BY <1>1, <1>2, Moves DEF CondPlaces
  <2>2. Drained' <=> done \/ \E u \in Threads : at'[u] \in {"notify", "clear"}
    BY <1>1 DEF Drained, Holders
  <2>3. Drained <=> done \/ \E u \in Threads : at[u] \in {"notify", "clear"}
    BY DEF Drained, Holders
  <2> QED BY <1>1, <1>2, <2>1, <2>2, <2>3
<1>9. Drained' = (Drained \/ (broadcasting /\ remaining = 1))
  BY <1>8 DEF Drained, last
<1>10. condition' = Parts(Registered', Eligible', Tokens', remaining',
                          broadcasting', Drained')
  BY ConditionParts DEF condition, Parts, Eligible, Tokens, InHand, Drained
<1>11. condition' = Parts(Registered \ {t}, Eligible \ {t}, Tokens - 1,
                          remaining', broadcasting, Drained')
  BY <1>1, <1>3, <1>4, <1>7, <1>10
<1> DEFINE rr == Registered \ {t}
           ee == Eligible \ {t}
           kk == Tokens - 1
           mm == IF broadcasting THEN remaining - 1 ELSE remaining
           dd == Drained \/ (broadcasting /\ remaining = 1)
           c == condition
           c1 == [c EXCEPT !.registered = rr]
           c2 == [c1 EXCEPT !.eligible = ee]
           c3 == [c2 EXCEPT !.tokens = kk]
           c4 == [c3 EXCEPT !.remaining = mm]
           c5 == [c4 EXCEPT !.drained = dd]
<1>12. Atomic!Leave(c, t) = Parts(rr, ee, kk, mm, broadcasting, dd)
  <2>1. c = Parts(Registered, Eligible, Tokens, remaining, broadcasting, Drained)
    BY ConditionParts
  <2> HIDE DEF c, IInv, TypeOK
  <2>2. /\ c.registered = Registered /\ c.eligible = Eligible
        /\ c.tokens = Tokens /\ c.remaining = remaining
        /\ c.broadcasting = broadcasting /\ c.drained = Drained
    BY <2>1 DEF Parts
  <2>3. Atomic!Leave(c, t)
          = [c EXCEPT !.registered = rr, !.eligible = ee, !.tokens = kk,
                      !.remaining = mm, !.drained = dd]
    BY <2>2, Zenon DEF Atomic!Leave
  <2> HIDE DEF rr, ee, kk, mm, dd
  <2>4. Atomic!Leave(c, t) = c5
    BY <2>3
  <2>5. c1 = Parts(rr, Eligible, Tokens, remaining, broadcasting, Drained)
    BY <2>1 DEF Parts
  <2> HIDE DEF c1
  <2>6. c2 = Parts(rr, ee, Tokens, remaining, broadcasting, Drained)
    BY <2>5 DEF Parts
  <2> HIDE DEF c2
  <2>7. c3 = Parts(rr, ee, kk, remaining, broadcasting, Drained)
    BY <2>6 DEF Parts
  <2> HIDE DEF c3
  <2>8. c4 = Parts(rr, ee, kk, mm, broadcasting, Drained)
    BY <2>7 DEF Parts
  <2> HIDE DEF c4
  <2>9. c5 = Parts(rr, ee, kk, mm, broadcasting, dd)
    BY <2>8 DEF Parts
  <2> QED BY <2>4, <2>9
<1>13. condition.eligible = Eligible /\ condition.tokens = Tokens
  BY ConditionParts DEF Parts
<1>14. mm = remaining' /\ dd = Drained'
  BY <1>1, <1>9
<1>15. condition' = Atomic!Leave(condition, t)
  <2> HIDE DEF mm, dd
  <2> QED BY <1>11, <1>12, <1>14
<1> QED BY <1>4, <1>7, <1>13, <1>15 DEF Atomic!Exit, Atomic!CanLeave

(* Notify hands the news of the last leaver from its caller to the event. *)
LEMMA NotifyStep ==
  ASSUME IInv, NEW t \in Threads, Notify(t)
  PROVE  condition' = condition
<1> USE DEF IInv, TypeOK
<1>1. /\ at[t] = "notify" /\ Move(t, "relock") /\ done' = TRUE
      /\ UNCHANGED <<generation, broadcasting, remaining, sem, seen>>
  BY DEF Notify, fields
<1>2. Registered' = Registered
  BY <1>1, Moves DEF Registered, Inside, CondPlaces
<1>3. Eligible' = Eligible
  BY <1>1, <1>2 DEF Eligible
<1>4. InHand' = InHand
  BY <1>1, HandMoves DEF CondPlaces
<1>5. Tokens' = Tokens
  BY <1>1, <1>4 DEF Tokens
<1>6. Drained /\ Drained'
  BY <1>1 DEF Drained, Holders
<1>7. Drained' = Drained
  BY <1>6 DEF Drained
<1> QED BY <1>1, <1>2, <1>3, <1>5, <1>7, SameParts

(* The event passes from the kernel to the broadcaster it lets through. *)
LEMMA AwaitStep ==
  ASSUME IInv, NEW t \in Threads, AwaitDone(t)
  PROVE  condition' = condition
<1> USE DEF IInv, TypeOK
<1>1. /\ at[t] = "await" /\ Move(t, "clear") /\ done /\ done' = FALSE
      /\ UNCHANGED <<generation, broadcasting, remaining, sem, seen>>
  BY DEF AwaitDone, fields
<1>2. Registered' = Registered /\ at'[t] = "clear"
  BY <1>1, Moves DEF Registered, Inside, CondPlaces
<1>3. Eligible' = Eligible
  BY <1>1, <1>2 DEF Eligible
<1>4. InHand' = InHand
  BY <1>1, HandMoves DEF CondPlaces
<1>5. Tokens' = Tokens
  BY <1>1, <1>4 DEF Tokens
<1>6. Drained /\ Drained'
  BY <1>1, <1>2 DEF Drained, Holders
<1>7. Drained' = Drained
  BY <1>6 DEF Drained
<1> QED BY <1>1, <1>2, <1>3, <1>5, <1>7, SameParts

(* The broadcaster ends the broadcast. *)
LEMMA ClearStep ==
  ASSUME IInv, NEW t \in Threads, Clear(t)
  PROVE  condition.drained /\ condition' = Atomic!EndBroadcast(condition)
<1> USE DEF IInv, TypeOK
<1>1. /\ at[t] = "clear" /\ Move(t, "user") /\ broadcasting' = FALSE
      /\ UNCHANGED <<generation, remaining, sem, done, seen>>
  BY DEF Clear
<1>2. Registered' = Registered
  BY <1>1, Moves DEF Registered, Inside, CondPlaces
<1>3. Eligible' = Eligible
  BY <1>1, <1>2 DEF Eligible
<1>4. InHand' = InHand
  BY <1>1, HandMoves DEF CondPlaces
<1>5. Tokens' = Tokens
  BY <1>1, <1>4 DEF Tokens
<1>6. condition.drained
  BY <1>1 DEF condition, Holders
<1>7. Drained' = FALSE
  <2>1. ~done /\ Holders("notify") = {}
    BY <1>1 DEF Countdown
  <2>2. \A u \in Threads : at[u] \in {"await", "clear"} => u = t
    BY <1>1 DEF Holding
  <2>3. \A u \in Threads : at'[u] \notin {"notify", "clear"}
    BY <1>1, <2>1, <2>2, Moves DEF CondPlaces, Holders
  <2>4. ~Drained'
    BY <1>1, <2>1, <2>3 DEF Drained, Holders
  <2> QED BY <2>4 DEF Drained
<1>8. condition' = Parts(Registered', Eligible', Tokens', remaining',
                         broadcasting', Drained')
  BY ConditionParts DEF condition, Parts, Eligible, Tokens, InHand, Drained
<1>9. condition' = Parts(Registered, Eligible, Tokens, remaining, FALSE, FALSE)
  BY <1>1, <1>2, <1>3, <1>5, <1>7, <1>8
<1>10. condition' = Atomic!EndBroadcast(condition)
  BY <1>9, ConditionParts, EndParts
<1> QED BY <1>6, <1>10

(* A new generation makes every registered thread eligible. *)
LEMMA NewGeneration ==
  ASSUME IInv, generation' = generation + 1, seen' = seen,
         Registered' = Registered
  PROVE  Eligible' = Registered
BY DEF IInv, TypeOK, Counted, Eligible, Registered

(* A signal posts one token, which its caller holds for now. *)
LEMMA SignalsStep ==
  ASSUME IInv, Roomy', NEW t \in Threads, Signals(t)
  PROVE  condition' = Atomic!Signal(condition)
<1> USE DEF IInv, TypeOK
<1>1. /\ at[t] = "user"
      /\ UNCHANGED <<waiters, broadcasting, remaining, sem, done, seen>>
  BY DEF Signals, Calls
<1>2. waiters = Cardinality(Registered) /\ IsFiniteSet(Registered)
  BY RegisteredFinite DEF Counted
<1>3. condition.registered = Registered
  BY DEF condition
<1>4. CASE waiters > 0
  <2>1. Move(t, "post") /\ generation' = generation + 1
    BY <1>4 DEF Signals
  <2>2. Registered # {}
    BY <1>2, <1>4, FS_EmptySet
  <2>3. Registered' = Registered
    BY <1>1, <2>1, Moves DEF Registered, Inside, CondPlaces
  <2>4. Eligible' = Registered
    BY <1>1, <2>1, <2>3, NewGeneration
  <2>5. /\ InHand' = InHand \union {t} /\ t \notin InHand
        /\ IsFiniteSet(InHand) /\ Cardinality(InHand) \in Nat
    BY <1>1, <2>1, HandMoves DEF CondPlaces
  <2>6. Cardinality(InHand') = Cardinality(InHand) + 1
    BY <2>5, FS_AddElement
  <2>7. Tokens' = Tokens + 1
    BY <1>1, <2>5, <2>6 DEF Tokens
  <2>8. Drained' = Drained
    BY <1>1, <2>1, DrainedMoves DEF CondPlaces
  <2>9. condition' = Parts(Registered', Eligible', Tokens', remaining',
                           broadcasting', Drained')
    BY ConditionParts DEF condition, Parts, Eligible, Tokens, InHand, Drained
  <2>10. Tokens < SemMax
    <3>1. Tokens' <= SemMax
      BY <2>9 DEF Roomy, Parts
    <3> QED BY <2>7, <3>1, TokensType, CondVarAssumption
  <2>11. condition' = Parts(Registered, Registered, Tokens + 1, remaining,
                            broadcasting, Drained)
    BY <1>1, <2>3, <2>4, <2>7, <2>8, <2>9
  <2> QED BY <2>2, <2>10, <2>11, ConditionParts, SignalParts
<1>5. CASE ~(waiters > 0)
  <2>1. generation' = generation /\ at' = at
    BY <1>5 DEF Signals
  <2>2. Registered = {}
    BY <1>2, <1>5, FS_EmptySet, RegisteredFinite
  <2>3. /\ Registered' = Registered /\ InHand' = InHand
        /\ Holders("notify")' = Holders("notify")
        /\ Holders("clear")' = Holders("clear")
    BY <2>1 DEF Registered, InHand, Holders
  <2>4. Eligible' = Eligible /\ Tokens' = Tokens /\ Drained' = Drained
    BY <1>1, <2>1, <2>3 DEF Eligible, Tokens, Drained
  <2>5. condition' = condition
    BY <1>1, <2>3, <2>4, SameParts
  <2> QED BY <1>3, <2>2, <2>5 DEF Atomic!Signal
<1> QED BY <1>4, <1>5

(* A broadcast counts the registered threads and posts a token for each,
   unless the semaphore has no room for them. *)
LEMMA BroadcastsStep ==
  ASSUME "broadcast" \notin Unlocked,
         IInv, Roomy', NEW t \in Threads, Broadcasts(t)
  PROVE  condition' = Atomic!Broadcast(condition)
<1> USE DEF IInv, TypeOK
<1>1. at[t] = "user" /\ done' = done /\ seen' = seen
  BY DEF Broadcasts, Calls
<1>2. waiters = Cardinality(Registered) /\ IsFiniteSet(Registered)
  BY RegisteredFinite DEF Counted
<1>3. condition.registered = Registered
  BY DEF condition
<1>4. CASE waiters = 0
  <2>1. UNCHANGED <<waiters, generation, broadcasting, remaining, sem, at>>
    BY <1>4 DEF Broadcasts, fields
  <2>2. Registered = {}
    BY <1>2, <1>4, FS_EmptySet
  <2>3. /\ Registered' = Registered /\ InHand' = InHand
        /\ Holders("notify")' = Holders("notify")
        /\ Holders("clear")' = Holders("clear")
    BY <2>1 DEF Registered, InHand, Holders
  <2>4. Eligible' = Eligible /\ Tokens' = Tokens /\ Drained' = Drained
    BY <1>1, <2>1, <2>3 DEF Eligible, Tokens, Drained
  <2>5. condition' = condition
    BY <2>1, <2>3, <2>4, SameParts
  <2> QED BY <1>3, <2>2, <2>5 DEF Atomic!Broadcast
<1>5. CASE waiters # 0
  <2> DEFINE fits == sem + waiters <= SemMax
             place == IF fits THEN "await" ELSE "user"
  <2>1. /\ remaining' = waiters /\ generation' = generation + 1
        /\ broadcasting' = fits
        /\ sem' = (IF fits THEN sem + waiters ELSE sem)
        /\ Move(t, place)
    BY <1>5 DEF Broadcasts
  <2>2. place \in {"await", "user"}
    OBVIOUS
  <2> HIDE DEF place
  <2>3. Registered # {}
    BY <1>2, <1>5, FS_EmptySet
  <2>4. Registered' = Registered
    BY <1>1, <2>1, <2>2, Moves DEF Registered, Inside, CondPlaces
  <2>5. Eligible' = Registered
    BY <1>1, <2>1, <2>4, NewGeneration
  <2>6. InHand' = InHand /\ Cardinality(InHand) \in Nat
    BY <1>1, <2>1, <2>2, HandMoves DEF CondPlaces
  <2>7. Drained' = Drained
    BY <1>1, <2>1, <2>2, DrainedMoves DEF CondPlaces
  <2>8. condition' = Parts(Registered', Eligible', Tokens', remaining',
                           broadcasting', Drained')
    BY ConditionParts DEF condition, Parts, Eligible, Tokens, InHand, Drained
  <2>9. Tokens' <= SemMax
    BY <2>8 DEF Roomy, Parts
  <2>10. fits <=> Tokens + Cardinality(Registered) <= SemMax
    BY <1>2, <2>1, <2>6, <2>9, RegisteredFinite, CondVarAssumption DEF Tokens
  <2>11. Tokens' = IF fits THEN Tokens + Cardinality(Registered) ELSE Tokens
    BY <1>2, <2>1, <2>6, RegisteredFinite DEF Tokens
  <2> DEFINE n == Cardinality(Registered)
             k == Tokens + n
             c == condition
             room == Atomic!Fits(c)
  <2>12. condition' = Parts(Registered, Registered, Tokens', n, broadcasting',
                            Drained)
    BY <1>2, <2>1, <2>4, <2>5, <2>7, <2>8
  <2>13. c = Parts(Registered, Eligible, Tokens, remaining, broadcasting, Drained)
    BY ConditionParts
  <2>14. c.registered = Registered /\ c.tokens = Tokens
    BY <2>13 DEF Parts
  <2>15. Atomic!Cardinality(Registered) = n
    BY Zenon DEF Atomic!Cardinality, Cardinality
  <2>16. room <=> k <= SemMax
    BY <2>14, <2>15 DEF Atomic!Fits
  <2>17. Atomic!Broadcast(c)
           = [c EXCEPT !.eligible = Registered,
                       !.tokens = IF room THEN @ + n ELSE @,
                       !.remaining = n, !.broadcasting = room]
    BY <2>3, <2>14, <2>15 DEF Atomic!Broadcast
  <2>18. room \in BOOLEAN
    BY DEF Atomic!Fits
  <2> HIDE DEF c, room, fits, IInv, TypeOK
  <2>19. CASE room
    <3>1. /\ fits /\ fits = TRUE /\ room = TRUE
      BY <2>10, <2>16, <2>18, <2>19 DEF fits
    <3>2. Tokens' = Tokens + n /\ broadcasting' = TRUE
      BY <2>1, <2>11, <3>1
    <3> HIDE DEF n
    <3>3. Atomic!Broadcast(c)
            = Parts(Registered, Registered, Tokens + n, n, TRUE, Drained)
      BY <2>13, <2>17, <3>1 DEF Parts
    <3> QED BY <2>12, <3>2, <3>3 DEF c
  <2>20. CASE ~room
    <3>1. /\ ~fits /\ fits = FALSE /\ room = FALSE
      BY <2>10, <2>16, <2>18, <2>20 DEF fits
    <3>2. Tokens' = Tokens /\ broadcasting' = FALSE
      BY <2>1, <2>11, <3>1
    <3> HIDE DEF n
    <3>3. Atomic!Broadcast(c)
            = Parts(Registered, Registered, Tokens, n, FALSE, Drained)
      BY <2>13, <2>17, <3>1 DEF Parts
    <3> QED BY <2>12, <3>2, <3>3 DEF c
  <2> QED BY <2>19, <2>20
<1> QED BY <1>4, <1>5

LEMMA NextCondition ==
  ASSUME "broadcast" \notin Unlocked, IInv, Roomy, Roomy', [CondNext]_condvars
  PROVE  [Atomic!Next]_condition
<1>1. CASE UNCHANGED condvars
  <2>1. /\ at' = at /\ seen' = seen /\ sem' = sem /\ done' = done
        /\ generation' = generation /\ remaining' = remaining
        /\ broadcasting' = broadcasting
    BY <1>1 DEF condvars
  <2>2. /\ Registered' = Registered /\ InHand' = InHand
        /\ Holders("notify")' = Holders("notify")
        /\ Holders("clear")' = Holders("clear")
    BY <2>1 DEF Registered, InHand, Holders
  <2>3. Eligible' = Eligible /\ Tokens' = Tokens /\ Drained' = Drained
    BY <2>1, <2>2 DEF Eligible, Tokens, Drained
  <2> QED BY <2>1, <2>2, <2>3, SameParts
<1>2. CASE CondNext
  <2>1. PICK t \in Threads : CondStep(t)
    BY <1>2 DEF CondNext
  <2>2. CASE Lock(t) \/ Unlock(t)
    BY <2>2, CallerStep
  <2>3. CASE WaitRegister(t)
    BY <2>3, WaitRegisterStep DEF Atomic!Next
  <2>4. CASE Signals(t)
    BY <2>4, SignalsStep DEF Atomic!Next
  <2>5. CASE Broadcasts(t)
    BY <2>5, BroadcastsStep DEF Atomic!Next
  <2>6. CASE LeaveMutex(t) \/ TakeToken(t) \/ ReturnToken(t) \/ Post(t)
             \/ Notify(t) \/ Relock(t) \/ AwaitDone(t)
    BY <2>6, LeaveMutexStep, TakeTokenStep, PutBackStep, NotifyStep,
       RelockStep, AwaitStep
  <2>7. CASE LeaveCondition(t)
    BY <2>7, LeaveConditionStep DEF Atomic!Next
  <2>8. CASE Clear(t)
    BY <2>8, ClearStep DEF Atomic!Next
  <2> QED BY <2>1, <2>2, <2>3, <2>4, <2>5, <2>6, <2>7, <2>8 DEF CondStep, CondCall
<1> QED BY <1>1, <1>2

LEMMA InitCondition == ASSUME CondInit PROVE Atomic!Init
<1>1. /\ Registered = {} /\ InHand = {}
      /\ Holders("notify") \union Holders("clear") = {}
  BY DEF CondInit, Registered, InHand, Holders
<1>2. Eligible = {}
  BY <1>1 DEF Eligible
<1>3. Tokens = 0
  BY <1>1, FS_EmptySet DEF CondInit, Tokens
<1>4. Drained = FALSE
  BY <1>1 DEF CondInit, Drained
<1>5. remaining = 0 /\ broadcasting = FALSE
  BY DEF CondInit
<1>6. condition = Parts({}, {}, 0, 0, FALSE, FALSE)
  BY <1>1, <1>2, <1>3, <1>4, <1>5, ConditionParts
<1> QED BY <1>6, Zenon DEF Atomic!Init, Atomic!FreshCondition, Parts

(* The condition variable implements the atomic condition ThreadPool is
   built on, for any threads and any mixture of waiting, signalling and
   broadcasting, as long as broadcasts are made with the mutex held and the
   semaphore never fills up. *)
THEOREM CondVarImplementsCondition ==
  ASSUME "broadcast" \notin Unlocked
  PROVE  CondSpec /\ []Roomy => ImplementsCondition
<1>1. CondInit => Atomic!Init
  BY InitCondition
<1>2. IInv /\ Roomy /\ Roomy' /\ [CondNext]_condvars => [Atomic!Next]_condition
  BY NextCondition
<1> QED BY <1>1, <1>2, CondVarInvariant, PTL DEF CondSpec, ImplementsCondition, Atomic!Spec

=============================================================================
