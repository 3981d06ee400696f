----------------------- MODULE ThreadLifecycleProofs ------------------------
(***************************************************************************)
(* Theorems about ThreadLifecycle, for any finite set of callers.          *)
(*                                                                         *)
(* That one call at most succeeds and what a join delivers hold whatever   *)
(* the worker does.  The others assume Early = {}: until pthread_create    *)
(* has stored the handle, the worker neither passes its identifier on nor  *)
(* detaches itself.  Without that, TouchesLive and RefusedForAnother are   *)
(* false, as TLC finds.                                                    *)
(***************************************************************************)
EXTENDS ThreadLifecycle, TLAPS

-----------------------------------------------------------------------------
(* The inductive invariant. *)

(* The places of pthread_create, on the creator's side. *)
Making == {"calloc", "guard", "spawn", "store", "publish"}

(* The worker is beyond its routine. *)
Dying ==
  \/ pc[Worker] \in {"finish", "free", "ended"}
  \/ pc[Worker] = "release" /\ result # "none"

(* CreateThread has succeeded. *)
Born == pc[Worker] # "unborn"

(* How far pthread_create has come, and what nobody can have done before. *)
Creation ==
  /\ pc[Creator] \in {"calloc", "guard", "spawn"} => ~Born /\ ~handle
  /\ pc[Creator] = "calloc" => block = "none" /\ guard = "none"
  /\ pc[Creator] = "guard" => block = "allocated" /\ guard = "none"
  /\ pc[Creator] = "spawn" =>
       block = "allocated" /\ guard = "open" /\ references = 2
  /\ pc[Creator] = "store" => Born /\ ~handle
  /\ Born /\ ~handle => pc[Creator] = "store"
  /\ pc[Creator] = "publish" => handle
  /\ \A c \in Callers :
       /\ pc[c] \in Making => c = Creator
       /\ pc[c] \notin {"routine", "finish"}
  /\ handle => Born
  /\ ~Born => object = "none" /\ result = "none"
  /\ ~Born /\ pc[Creator] \notin Making =>
       block # "allocated" /\ guard # "open"
  /\ ~handle =>
       /\ known = {} /\ ~claimed /\ wins = 0 /\ ~refused
       /\ \A c \in Callers :
            pc[c] = "user" \/ (c = Creator /\ pc[c] \in Making)
       /\ pc[Worker] # "detach" /\ (pc[Worker] = "release" => Dying)

(* The worker's result is there from the end of wcrt_finish_thread on. *)
ResultStored ==
  /\ result # "none" => pc[Worker] \in {"release", "free", "ended"}
  /\ pc[Worker] \in {"free", "ended"} => result = "value"
  /\ \A c \in Callers : pc[c] = "collect" => pc[Worker] = "ended"

(* a has claimed the thread and not yet let go of it. *)
HoldsClaim(a) ==
  \/ pc[a] \in {"await", "collect"}
  \/ pc[a] = "release" /\ (a = Worker => result = "none")

(* The reference of the holder lasts until a call has won, the worker's until
   wcrt_release_thread at its end. *)
References ==
  Born => references = (1 - wins) +
                       (IF pc[Worker] \in {"free", "ended"} THEN 0 ELSE 1)

OneClaim ==
  /\ wins \in 0..1 /\ (wins = 1 => claimed) /\ (refused => claimed)
  /\ \A a \in Actors : HoldsClaim(a) => claimed /\ wins = 0
  /\ \A a, b \in Actors : HoldsClaim(a) /\ HoldsClaim(b) => a = b
  /\ \A a \in Actors : pc[a] # "unclaim"

(* The block is freed by the one who gave up the last reference. *)
Block ==
  Born =>
    /\ block \in {"allocated", "freed"}
    /\ references > 0 => block = "allocated"
    /\ block = "allocated" => guard = "open"
    /\ block = "freed" => guard = "closed" /\ object = "closed"
    /\ \A a \in Actors :
         pc[a] = "free" => references = 0 /\ block = "allocated"
    /\ \A a, b \in Actors : pc[a] = "free" /\ pc[b] = "free" => a = b
    /\ references = 0 /\ block = "allocated" =>
         \E a \in Actors : pc[a] = "free"

IInv ==
  /\ TypeOK /\ Creation /\ ResultStored /\ References /\ OneClaim /\ Block

-----------------------------------------------------------------------------
(* Constants. *)

(* The creator is a caller and the worker is not. *)
LEMMA LifecycleFacts ==
  Creator \in Callers /\ Worker \notin Callers /\ Creator # Worker
BY ThreadLifecycleAssumption DEF ThreadLifecycleAssumption

-----------------------------------------------------------------------------
(* pthread_create keeps the invariant. *)

(* No TLS key or no memory: nothing was made. *)
LEMMA CreateFailsInv ==
  ASSUME Early = {}, IInv, CreateFails
  PROVE  IInv'
<1>1. TypeOK'
  BY LifecycleFacts
  DEF IInv, TypeOK, Actors, Places, Goto, control, resources, history,
      CreateFails
<1>2. Creation'
  BY DEF IInv, Creation, Born, Goto, control, resources, history, CreateFails
<1>3. ResultStored'
  BY DEF IInv, ResultStored, Goto, control, CreateFails
<1>4. References'
  BY DEF IInv, References, Born, Goto, control, history, CreateFails
<1>5. OneClaim'
  BY DEF IInv, OneClaim, HoldsClaim, Goto, control, history, CreateFails
<1>6. Block'
  BY DEF IInv, Block, Born, Goto, control, resources, CreateFails
<1>7. QED
  BY <1>1, <1>2, <1>3, <1>4, <1>5, <1>6 DEF IInv

(* calloc of the control block. *)
LEMMA AllocateInv ==
  ASSUME Early = {}, IInv, Allocate
  PROVE  IInv'
<1>1. TypeOK'
  BY LifecycleFacts
  DEF IInv, TypeOK, Actors, Places, Goto, control, history, Allocate
<1>2. Creation'
  BY LifecycleFacts
  DEF IInv, TypeOK, Creation, Born, Making, Actors, Goto, control, history,
      Allocate
<1>3. ResultStored'
  BY DEF IInv, ResultStored, Goto, control, Allocate
<1>4. References'
  BY DEF IInv, References, Born, Goto, control, history, Allocate
<1>5. OneClaim'
  BY DEF IInv, OneClaim, HoldsClaim, Goto, control, history, Allocate
<1>6. Block'
  BY DEF IInv, Creation, Block, Born, Goto, Allocate
<1>7. QED
  BY <1>1, <1>2, <1>3, <1>4, <1>5, <1>6 DEF IInv

(* pthread_mutex_init has failed and the block is freed. *)
LEMMA GuardFailsInv ==
  ASSUME Early = {}, IInv, GuardFails
  PROVE  IInv'
<1>1. TypeOK'
  BY LifecycleFacts
  DEF IInv, TypeOK, Actors, Places, Goto, control, history, GuardFails
<1>2. Creation'
  BY LifecycleFacts
  DEF IInv, TypeOK, Creation, Born, Actors, Goto, control, history, GuardFails
<1>3. ResultStored'
  BY DEF IInv, ResultStored, Goto, control, GuardFails
<1>4. References'
  BY DEF IInv, References, Born, Goto, control, history, GuardFails
<1>5. OneClaim'
  BY DEF IInv, OneClaim, HoldsClaim, Goto, control, history, GuardFails
<1>6. Block'
  BY DEF IInv, Creation, Block, Born, Goto, GuardFails
<1>7. QED
  BY <1>1, <1>2, <1>3, <1>4, <1>5, <1>6 DEF IInv

(* The guard is made and the two references are counted. *)
LEMMA MakeGuardInv ==
  ASSUME Early = {}, IInv, MakeGuard
  PROVE  IInv'
<1>1. TypeOK'
  BY LifecycleFacts DEF IInv, TypeOK, Actors, Places, Goto, history, MakeGuard
<1>2. Creation'
  BY LifecycleFacts
  DEF IInv, TypeOK, Creation, Born, Making, Actors, Goto, history, MakeGuard
<1>3. ResultStored'
  BY DEF IInv, ResultStored, Goto, MakeGuard
<1>4. References'
  BY DEF IInv, Creation, References, Born, Goto, MakeGuard
<1>5. OneClaim'
  BY DEF IInv, OneClaim, HoldsClaim, Goto, history, MakeGuard
<1>6. Block'
  BY DEF IInv, Creation, Block, Born, Goto, MakeGuard
<1>7. QED
  BY <1>1, <1>2, <1>3, <1>4, <1>5, <1>6 DEF IInv

(* CreateThread has failed: guard and block go. *)
LEMMA SpawnFailsInv ==
  ASSUME Early = {}, IInv, SpawnFails
  PROVE  IInv'
<1>1. TypeOK'
  BY LifecycleFacts
  DEF IInv, TypeOK, Actors, Places, Goto, control, history, SpawnFails
<1>2. Creation'
  BY LifecycleFacts
  DEF IInv, TypeOK, Creation, Born, Actors, Goto, control, history, SpawnFails
<1>3. ResultStored'
  BY DEF IInv, ResultStored, Goto, control, SpawnFails
<1>4. References'
  BY DEF IInv, References, Born, Goto, control, history, SpawnFails
<1>5. OneClaim'
  BY DEF IInv, OneClaim, HoldsClaim, Goto, control, history, SpawnFails
<1>6. Block'
  BY DEF IInv, Creation, Block, Born, Goto, SpawnFails
<1>7. QED
  BY <1>1, <1>2, <1>3, <1>4, <1>5, <1>6 DEF IInv

(* CreateThread: the worker comes to life. *)
LEMMA SpawnInv ==
  ASSUME Early = {}, IInv, Spawn
  PROVE  IInv'
<1>1. TypeOK'
  BY DEF IInv, TypeOK, Actors, Places, control, history, Spawn
<1>2. Creation'
  BY LifecycleFacts
  DEF IInv, TypeOK, Creation, Born, Making, Actors, control, history, Spawn
<1>3. ResultStored'
  BY DEF IInv, TypeOK, Creation, ResultStored, Actors, control, Spawn
<1>4. References'
  BY DEF IInv, TypeOK, Creation, References, Actors, control, history, Spawn
<1>5. OneClaim'
  BY DEF IInv, TypeOK, OneClaim, HoldsClaim, control, history, Spawn
<1>6. Block'
  BY DEF IInv, TypeOK, Creation, Block, Actors, control, Spawn
<1>7. QED
  BY <1>1, <1>2, <1>3, <1>4, <1>5, <1>6 DEF IInv

(* The handle is stored, and with Early = {} nobody but the creator and
   the running worker has touched the block before. *)
LEMMA StoreHandleInv ==
  ASSUME Early = {}, IInv, StoreHandle
  PROVE  IInv'
<1>1. TypeOK'
  BY LifecycleFacts
  DEF IInv, TypeOK, Actors, Places, Goto, resources, history, StoreHandle
<1>2. Creation'
  BY LifecycleFacts DEF IInv, TypeOK, Creation, Born, Actors, Goto, StoreHandle
<1>3. ResultStored'
  BY DEF IInv, ResultStored, Goto, StoreHandle
<1>4. References'
  BY DEF IInv, References, Born, Goto, history, StoreHandle
<1>5. OneClaim'
  BY DEF IInv, OneClaim, HoldsClaim, Goto, history, StoreHandle
<1>6. Block'
  BY DEF IInv, Block, Born, Goto, resources, StoreHandle
<1>7. QED
  BY <1>1, <1>2, <1>3, <1>4, <1>5, <1>6 DEF IInv

(* The identifier is given to the caller. *)
LEMMA PublishInv ==
  ASSUME Early = {}, IInv, Publish
  PROVE  IInv'
<1>1. TypeOK'
  BY LifecycleFacts
  DEF IInv, TypeOK, Actors, Places, Goto, control, resources, history, Publish
<1>2. Creation'
  BY DEF IInv, Creation, Born, Goto, control, Publish
<1>3. ResultStored'
  BY DEF IInv, ResultStored, Goto, control, Publish
<1>4. References'
  BY DEF IInv, References, Born, Goto, control, history, Publish
<1>5. OneClaim'
  BY DEF IInv, OneClaim, HoldsClaim, Goto, control, history, Publish
<1>6. Block'
  BY DEF IInv, Block, Born, Goto, control, resources, Publish
<1>7. QED
  BY <1>1, <1>2, <1>3, <1>4, <1>5, <1>6 DEF IInv

-----------------------------------------------------------------------------
(* What the program does keeps the invariant. *)

(* The worker hands its identifier on. *)
LEMMA TellInv ==
  ASSUME Early = {}, IInv, Tell
  PROVE  IInv'
<1>1. TypeOK'
  BY DEF IInv, TypeOK, control, resources, history, Tell
<1>2. Creation'
  BY DEF IInv, Creation, Born, control, Tell
<1>3. ResultStored'
  BY DEF IInv, ResultStored, control, Tell
<1>4. References'
  BY DEF IInv, References, Born, control, history, Tell
<1>5. OneClaim'
  BY DEF IInv, OneClaim, HoldsClaim, control, history, Tell
<1>6. Block'
  BY DEF IInv, Block, Born, control, resources, Tell
<1>7. QED
  BY <1>1, <1>2, <1>3, <1>4, <1>5, <1>6 DEF IInv

(* The worker detaches itself. *)
LEMMA CallDetachSelfInv ==
  ASSUME Early = {}, IInv, CallDetachSelf
  PROVE  IInv'
<1>1. TypeOK'
  BY DEF IInv, TypeOK, Actors, Places, Goto, control, resources, history,
         CallDetachSelf, Call
<1>2. Creation'
  BY DEF IInv, Creation, Born, Goto, control, CallDetachSelf, Call
<1>3. ResultStored'
  BY DEF IInv, ResultStored, Goto, control, CallDetachSelf, Call
<1>4. References'
  BY DEF IInv, References, Born, Goto, control, history, CallDetachSelf, Call
<1>5. OneClaim'
  BY DEF IInv, OneClaim, HoldsClaim, Goto, control, history, CallDetachSelf,
         Call
<1>6. Block'
  BY DEF IInv, Block, Born, Goto, control, resources, CallDetachSelf, Call
<1>7. QED
  BY <1>1, <1>2, <1>3, <1>4, <1>5, <1>6 DEF IInv

(* The routine ends, whoever is in a call. *)
LEMMA EndRoutineInv ==
  ASSUME Early = {}, IInv, EndRoutine
  PROVE  IInv'
<1>1. TypeOK'
  BY DEF IInv, TypeOK, Actors, Places, Goto, control, resources, history,
         EndRoutine
<1>2. Creation'
  BY DEF IInv, Creation, Born, Goto, control, history, EndRoutine
<1>3. ResultStored'
  BY DEF IInv, ResultStored, Goto, control, EndRoutine
<1>4. References'
  BY DEF IInv, References, Born, Goto, control, history, EndRoutine
<1>5. OneClaim'
  BY DEF IInv, OneClaim, HoldsClaim, Goto, control, history, EndRoutine
<1>6. Block'
  BY DEF IInv, Block, Born, Goto, control, resources, EndRoutine
<1>7. QED
  BY <1>1, <1>2, <1>3, <1>4, <1>5, <1>6 DEF IInv

(* wcrt_finish_thread stores the result. *)
LEMMA StoreResultInv ==
  ASSUME Early = {}, IInv, StoreResult
  PROVE  IInv'
<1>1. TypeOK'
  BY DEF IInv, TypeOK, Actors, Places, Goto, resources, history, StoreResult
<1>2. Creation'
  BY DEF IInv, Creation, Dying, Born, Goto, history, StoreResult
<1>3. ResultStored'
  BY DEF IInv, TypeOK, ResultStored, Actors, Goto, StoreResult
<1>4. References'
  BY DEF IInv, References, Born, Goto, history, StoreResult
<1>5. OneClaim'
  BY DEF IInv, OneClaim, HoldsClaim, Goto, history, StoreResult
<1>6. Block'
  BY DEF IInv, Block, Born, Goto, resources, StoreResult
<1>7. QED
  BY <1>1, <1>2, <1>3, <1>4, <1>5, <1>6 DEF IInv

(* A caller enters pthread_join. *)
LEMMA CallJoinInv ==
  ASSUME Early = {}, NEW c \in Callers, IInv, CallJoin(c)
  PROVE  IInv'
<1>1. TypeOK'
  BY DEF IInv, TypeOK, Actors, Places, Goto, control, resources, history,
         CallJoin, Call
<1>2. Creation'
  BY DEF IInv, Creation, Born, Making, Goto, control, CallJoin, Call
<1>3. ResultStored'
  BY DEF IInv, ResultStored, Goto, control, CallJoin, Call
<1>4. References'
  BY DEF IInv, References, Born, Goto, control, history, CallJoin, Call
<1>5. OneClaim'
  BY DEF IInv, OneClaim, HoldsClaim, Goto, control, history, CallJoin, Call
<1>6. Block'
  BY DEF IInv, Block, Born, Goto, control, resources, CallJoin, Call
<1>7. QED
  BY <1>1, <1>2, <1>3, <1>4, <1>5, <1>6 DEF IInv

(* A caller enters pthread_detach. *)
LEMMA CallDetachInv ==
  ASSUME Early = {}, NEW c \in Callers, IInv, CallDetach(c)
  PROVE  IInv'
<1>1. TypeOK'
  BY DEF IInv, TypeOK, Actors, Places, Goto, control, resources, history,
         CallDetach, Call
<1>2. Creation'
  BY DEF IInv, Creation, Born, Making, Goto, control, CallDetach, Call
<1>3. ResultStored'
  BY DEF IInv, ResultStored, Goto, control, CallDetach, Call
<1>4. References'
  BY DEF IInv, References, Born, Goto, control, history, CallDetach, Call
<1>5. OneClaim'
  BY DEF IInv, OneClaim, HoldsClaim, Goto, control, history, CallDetach, Call
<1>6. Block'
  BY DEF IInv, Block, Born, Goto, control, resources, CallDetach, Call
<1>7. QED
  BY <1>1, <1>2, <1>3, <1>4, <1>5, <1>6 DEF IInv

-----------------------------------------------------------------------------
(* What happens inside the calls keeps the invariant. *)

(* pthread_detach takes the claim under the guard. *)
LEMMA ClaimDetachInv ==
  ASSUME Early = {}, NEW a \in Actors, IInv, ClaimDetach(a)
  PROVE  IInv'
<1>1. TypeOK'
  BY DEF IInv, TypeOK, Places, Goto, resources, history, ClaimDetach, Claim
<1>2. Creation'
  BY DEF IInv, Creation, Born, Making, Actors, Goto, ClaimDetach, Claim
<1>3. ResultStored'
  BY DEF IInv, ResultStored, Goto, ClaimDetach, Claim
<1>4. References'
  BY DEF IInv, References, Born, Goto, history, ClaimDetach, Claim
<1>5. OneClaim'
  BY DEF IInv, OneClaim, HoldsClaim, Goto, history, ClaimDetach, Claim
<1>6. Block'
  BY DEF IInv, Block, Born, Goto, resources, ClaimDetach, Claim
<1>7. QED
  BY <1>1, <1>2, <1>3, <1>4, <1>5, <1>6 DEF IInv

(* A call finds the thread claimed, and the caller, the worker itself
   perhaps, goes back to where it came from. *)
LEMMA RefuseInv ==
  ASSUME Early = {}, NEW a \in Actors, IInv, Refuse(a)
  PROVE  IInv'
<1>0. /\ a \in Claiming
      /\ pc' = [pc EXCEPT ![a] = IF a = Worker THEN "routine" ELSE "user"]
      /\ UNCHANGED <<resources, control, known, wins>> /\ refused' /\ claimed
  BY LifecycleFacts
  DEF IInv, TypeOK, ResultStored, Claiming, Refuse, Goto, Back, Actors
<1>1. TypeOK'
  BY <1>0 DEF IInv, TypeOK, Places, control, resources
<1>2. Creation'
  BY <1>0, LifecycleFacts DEF IInv, Creation, Born, Making, control
<1>3. ResultStored'
  BY <1>0 DEF IInv, ResultStored, Claiming, control
<1>4. References'
  BY <1>0 DEF IInv, References, Born, Claiming, control
<1>5. OneClaim'
  BY <1>0 DEF IInv, OneClaim, HoldsClaim, control
<1>6. Block'
  BY <1>0 DEF IInv, Block, Born, Claiming, control, resources
<1>7. QED
  BY <1>1, <1>2, <1>3, <1>4, <1>5, <1>6 DEF IInv

(* A call comes too late: it was not the worker's, whose own reference would
   have kept the block. *)
LEMMA OvertakenInv ==
  ASSUME Early = {}, NEW a \in Actors, IInv, Overtaken(a)
  PROVE  IInv'
<1>1. /\ pc[a] \in {"join", "detach"} /\ block = "freed"
      /\ pc' = [pc EXCEPT ![a] = "astray"]
      /\ UNCHANGED <<resources, control, known, history>>
  BY DEF Overtaken, Claiming, Goto
<1>2. Born
  BY <1>1 DEF IInv, Creation, Born, Making, Actors
<1>3. a \in Callers
  <2>1. references = 0
    BY <1>1, <1>2 DEF IInv, Block, TypeOK
  <2>2. pc[Worker] \in {"free", "ended"}
    BY <1>2, <2>1 DEF IInv, References, OneClaim
  <2> QED BY <1>1, <2>2 DEF Actors
<1>4. TypeOK'
  BY <1>1 DEF IInv, TypeOK, Places, control, resources, history
<1>5. Creation'
  BY <1>1, <1>3, LifecycleFacts
  DEF IInv, Creation, Born, Making, Dying, control, resources, history
<1>6. ResultStored'
  BY <1>1, <1>3, LifecycleFacts DEF IInv, ResultStored, control
<1>7. References'
  BY <1>1, <1>3, LifecycleFacts
  DEF IInv, References, Born, control, history
<1>8. OneClaim'
  BY <1>1 DEF IInv, OneClaim, HoldsClaim, control, history
<1>9. Block'
  BY <1>1, <1>3, LifecycleFacts
  DEF IInv, Block, Born, control, resources
<1> QED BY <1>4, <1>5, <1>6, <1>7, <1>8, <1>9 DEF IInv

(* wcrt_release_thread gives up one reference: the holder's or, when the
   result is there, the worker's. *)
LEMMA ReleaseInv ==
  ASSUME Early = {}, NEW a \in Actors, IInv, Release(a)
  PROVE  IInv'
<1>1. TypeOK'
  BY DEF IInv, TypeOK, Creation, References, OneClaim, HoldsClaim, Places,
         Goto, resources, Release, Back
<1>2. Creation'
  BY LifecycleFacts
  DEF IInv, Creation, Dying, Born, Making, Actors, Goto, Release, Back
<1>3. ResultStored'
  BY DEF IInv, TypeOK, Creation, ResultStored, References, OneClaim,
         HoldsClaim, Goto, Release, Back
<1>4. References'
  BY DEF IInv, TypeOK, Creation, References, OneClaim, HoldsClaim, Goto,
         Release, Back
<1>5. OneClaim'
  BY DEF IInv, TypeOK, OneClaim, HoldsClaim, Goto, Release, Back
<1>6. Block'
  BY DEF IInv, TypeOK, Creation, References, OneClaim, Block, HoldsClaim, Goto,
         resources, Release, Back
<1>7. QED
  BY <1>1, <1>2, <1>3, <1>4, <1>5, <1>6 DEF IInv

(* The last user of the block closes what is open and frees it. *)
LEMMA FreeInv ==
  ASSUME Early = {}, NEW a \in Actors, IInv, Free(a)
  PROVE  IInv'
<1>1. TypeOK'
  BY DEF IInv, TypeOK, Places, Goto, control, history, Free, Back
<1>2. Creation'
  BY LifecycleFacts
  DEF IInv, Creation, Born, Making, Actors, Goto, control, history, Free, Back
<1>3. ResultStored'
  BY DEF IInv, ResultStored, Goto, control, Free, Back
<1>4. References'
  BY DEF IInv, ResultStored, References, Born, Goto, control, history, Free,
         Back
<1>5. OneClaim'
  BY DEF IInv, OneClaim, HoldsClaim, Goto, control, history, Free, Back
<1>6. Block'
  BY DEF IInv, TypeOK, Creation, References, Block, Born, Goto, control, Free,
         Back
<1>7. QED
  BY <1>1, <1>2, <1>3, <1>4, <1>5, <1>6 DEF IInv

(* pthread_join takes the claim under the guard. *)
LEMMA ClaimJoinInv ==
  ASSUME Early = {}, NEW c \in Callers, IInv, ClaimJoin(c)
  PROVE  IInv'
<1>1. TypeOK'
  BY DEF IInv, TypeOK, Actors, Places, Goto, resources, history, ClaimJoin,
         Claim
<1>2. Creation'
  BY DEF IInv, Creation, Born, Making, Goto, ClaimJoin, Claim
<1>3. ResultStored'
  BY DEF IInv, ResultStored, Goto, ClaimJoin, Claim
<1>4. References'
  BY DEF IInv, References, Born, Goto, history, ClaimJoin, Claim
<1>5. OneClaim'
  BY DEF IInv, OneClaim, HoldsClaim, Goto, history, ClaimJoin, Claim
<1>6. Block'
  BY DEF IInv, Block, Born, Goto, resources, ClaimJoin, Claim
<1>7. QED
  BY <1>1, <1>2, <1>3, <1>4, <1>5, <1>6 DEF IInv

(* The thread object is signalled. *)
LEMMA AwaitInv ==
  ASSUME Early = {}, NEW c \in Callers, IInv, Await(c)
  PROVE  IInv'
<1>1. TypeOK'
  BY DEF IInv, TypeOK, Actors, Places, Goto, control, resources, history, Await
<1>2. Creation'
  BY DEF IInv, Creation, Born, Making, Goto, control, Await
<1>3. ResultStored'
  BY DEF IInv, ResultStored, Goto, control, Await
<1>4. References'
  BY DEF IInv, References, Born, Goto, control, history, Await
<1>5. OneClaim'
  BY DEF IInv, OneClaim, HoldsClaim, Goto, control, history, Await
<1>6. Block'
  BY DEF IInv, Block, Born, Goto, control, resources, Await
<1>7. QED
  BY <1>1, <1>2, <1>3, <1>4, <1>5, <1>6 DEF IInv

(* Nobody waits on a null handle when nobody joins before it is stored. *)
LEMMA AwaitFailsInv ==
  ASSUME Early = {}, NEW c \in Callers, IInv, AwaitFails(c)
  PROVE  IInv'
<1>1. TypeOK'
  BY DEF IInv, TypeOK, Actors, Places, Goto, control, resources, history,
         AwaitFails
<1>2. Creation'
  BY DEF IInv, Creation, Making, AwaitFails
<1>3. ResultStored'
  BY DEF IInv, ResultStored, Goto, control, AwaitFails
<1>4. References'
  BY DEF IInv, References, Born, Goto, control, history, AwaitFails
<1>5. OneClaim'
  BY DEF IInv, Creation, Making, AwaitFails
<1>6. Block'
  BY DEF IInv, Block, Born, Goto, control, resources, AwaitFails
<1>7. QED
  BY <1>1, <1>2, <1>3, <1>4, <1>5, <1>6 DEF IInv

(* So nobody gives up a claim. *)
LEMMA UnclaimInv ==
  ASSUME Early = {}, NEW c \in Callers, IInv, Unclaim(c)
  PROVE  IInv'
<1>1. TypeOK'
  BY DEF IInv, OneClaim, Actors, Unclaim
<1>2. Creation'
  BY DEF IInv, Creation, Born, Making, Goto, Unclaim
<1>3. ResultStored'
  BY DEF IInv, ResultStored, Goto, Unclaim
<1>4. References'
  BY DEF IInv, References, Born, Goto, Unclaim
<1>5. OneClaim'
  BY DEF IInv, OneClaim, Actors, Unclaim
<1>6. Block'
  BY DEF IInv, Block, Born, Goto, resources, Unclaim
<1>7. QED
  BY <1>1, <1>2, <1>3, <1>4, <1>5, <1>6 DEF IInv

(* The joiner has read the result. *)
LEMMA CollectInv ==
  ASSUME Early = {}, NEW c \in Callers, IInv, Collect(c)
  PROVE  IInv'
<1>1. TypeOK'
  BY DEF IInv, TypeOK, Actors, Places, Goto, control, resources, history,
         Collect
<1>2. Creation'
  BY DEF IInv, Creation, Born, Making, Goto, control, Collect
<1>3. ResultStored'
  BY DEF IInv, ResultStored, Goto, control, Collect
<1>4. References'
  BY DEF IInv, References, Born, Goto, control, history, Collect
<1>5. OneClaim'
  BY DEF IInv, OneClaim, HoldsClaim, Goto, control, history, Collect
<1>6. Block'
  BY DEF IInv, Block, Born, Goto, control, resources, Collect
<1>7. QED
  BY <1>1, <1>2, <1>3, <1>4, <1>5, <1>6 DEF IInv

-----------------------------------------------------------------------------
(* The invariant holds. *)

(* Before pthread_create everything is unmade. *)
LEMMA InitInv == ASSUME Init PROVE IInv
<1>1. /\ pc[Creator] = "calloc" /\ pc[Worker] = "unborn"
      /\ \A c \in Callers : pc[c] = "user" \/ c = Creator
      /\ pc \in [Actors -> Places]
  BY LifecycleFacts DEF Init, Actors, Places
<1>2. TypeOK
  <2>1. handle \in BOOLEAN /\ claimed \in BOOLEAN /\ refused \in BOOLEAN
    BY Zenon DEF Init
  <2>2. QED
    BY <1>1, <2>1 DEF Init, TypeOK
<1>3. Creation /\ ResultStored /\ References /\ Block
  BY <1>1 DEF Init, Creation, ResultStored, References, Block, Born, Making
<1>4. OneClaim
  BY <1>1 DEF Init, OneClaim, HoldsClaim
<1>5. QED
  BY <1>2, <1>3, <1>4 DEF IInv

(* A step that changes nothing keeps the invariant. *)
LEMMA StutterInv == ASSUME IInv, UNCHANGED vars PROVE IInv'
BY DEF vars, IInv, TypeOK, Creation, ResultStored, References, OneClaim,
       Block, HoldsClaim, Dying, Born, Claiming, control,
       resources, history

(* Every step keeps the invariant. *)
LEMMA NextInv == ASSUME Early = {}, IInv, [Next]_vars PROVE IInv'
<1>1. CASE Create
  BY <1>1, CreateFailsInv, AllocateInv, GuardFailsInv, MakeGuardInv,
     SpawnFailsInv, SpawnInv, StoreHandleInv, PublishInv
  DEF Create
<1>2. CASE Tell \/ CallDetachSelf \/ EndRoutine \/ StoreResult
  BY <1>2, TellInv, CallDetachSelfInv, EndRoutineInv, StoreResultInv
<1>3. CASE \E c \in Callers : CallJoin(c) \/ CallDetach(c)
  BY <1>3, CallJoinInv, CallDetachInv
<1>4. ASSUME NEW a \in Actors, InCall(a) PROVE IInv'
  BY <1>4, ClaimDetachInv, RefuseInv, OvertakenInv, ReleaseInv, FreeInv, ClaimJoinInv,
     AwaitInv, AwaitFailsInv, UnclaimInv, CollectInv
  DEF InCall
<1>5. CASE UNCHANGED vars
  BY <1>5, StutterInv
<1>6. QED
  BY <1>1, <1>2, <1>3, <1>4, <1>5 DEF Next

(* The inductive invariant, for a program whose threads neither pass on
   their identifier nor detach themselves before the handle is stored. *)
LEMMA InductiveInvariant == Early = {} => (Spec => []IInv)
<1> SUFFICES ASSUME Early = {} PROVE Spec => []IInv
  OBVIOUS
<1>1. IInv /\ [Next]_vars => IInv'
  BY NextInv
<1>2. QED
  BY <1>1, InitInv, PTL DEF Spec

-----------------------------------------------------------------------------
(* The claim alone.  That one call at most succeeds, and what a join
   delivers, depends on the claim and on nothing that pthread_create does
   after CreateThread, and so holds whatever the worker does early. *)

Stations ==
  /\ pc \in [Actors -> Places] /\ result \in {"none", "value"}
  /\ pc[Worker] \in {"unborn", "routine", "detach", "release", "free",
                     "astray", "finish", "ended"}
  /\ \A c \in Callers : pc[c] \notin {"unborn", "routine", "finish", "ended"}
  /\ pc[Creator] \in {"calloc", "guard", "spawn"} => pc[Worker] = "unborn"

(* The worker's result is there when it has ended, and no joiner goes on
   before that. *)
Delivered ==
  /\ result # "none" => pc[Worker] \in {"release", "free", "ended"}
  /\ pc[Worker] = "ended" => result = "value"
  /\ \A c \in Callers : pc[c] = "collect" => pc[Worker] = "ended"

(* a has claimed the thread, and has neither succeeded nor given up yet. *)
Claims(a) == HoldsClaim(a) \/ pc[a] = "unclaim"

SoleClaim ==
  /\ wins \in 0..1 /\ (wins = 1 => claimed)
  /\ \A a \in Actors : Claims(a) => claimed /\ wins = 0
  /\ \A a, b \in Actors : Claims(a) /\ Claims(b) => a = b

CInv == Stations /\ Delivered /\ SoleClaim

(* Steps after which nobody has a claim who had none, and no claim has
   ended. *)
LEMMA ClaimsKept ==
  ASSUME CInv, wins' = wins, claimed' = claimed,
         \A a \in Actors : Claims(a)' => Claims(a)
  PROVE  SoleClaim'
BY DEF CInv, SoleClaim

LEMMA CreateClaims ==
  ASSUME CInv, Create
  PROVE  CInv'
<1>1. /\ result' = result /\ claimed' = claimed /\ wins' = wins
      /\ pc[Creator] \in Making
  BY DEF Create, CreateFails, Allocate, GuardFails, MakeGuard, SpawnFails,
         Spawn, StoreHandle, Publish, control, history, Making
<1>2. \/ \E place \in Making \union {"user"} :
           /\ Goto(Creator, place)
           /\ place \in {"calloc", "guard", "spawn"} => pc[Worker] = "unborn"
      \/ /\ pc[Creator] = "spawn"
         /\ pc' = [pc EXCEPT ![Creator] = "store", ![Worker] = "routine"]
  BY DEF Create, CreateFails, Allocate, GuardFails, MakeGuard, SpawnFails,
         Spawn, StoreHandle, Publish, Making, CInv, Stations
<1>3. CASE \E place \in Making \union {"user"} :
             /\ Goto(Creator, place)
             /\ place \in {"calloc", "guard", "spawn"} => pc[Worker] = "unborn"
  <2>1. PICK place \in Making \union {"user"} :
          /\ Goto(Creator, place)
          /\ place \in {"calloc", "guard", "spawn"} => pc[Worker] = "unborn"
    BY <1>3
  <2>2. /\ pc' \in [Actors -> Places] /\ pc'[Creator] = place
        /\ \A a \in Actors \ {Creator} : pc'[a] = pc[a]
        /\ Creator \in Actors /\ Worker \in Actors \ {Creator}
    BY <2>1, LifecycleFacts DEF Goto, CInv, Stations, Actors, Places, Making
  <2>3. Stations'
    BY <1>1, <2>1, <2>2 DEF CInv, Stations, Actors, Making
  <2>4. Delivered'
    BY <1>1, <2>2 DEF CInv, Delivered, Actors, Making
  <2>5. \A a \in Actors : Claims(a)' => Claims(a)
    BY <1>1, <2>2 DEF Claims, HoldsClaim, Making
  <2> QED BY <1>1, <2>3, <2>4, <2>5, ClaimsKept DEF CInv
<1>4. CASE /\ pc[Creator] = "spawn"
           /\ pc' = [pc EXCEPT ![Creator] = "store", ![Worker] = "routine"]
  <2>1. /\ pc' \in [Actors -> Places]
        /\ pc'[Creator] = "store" /\ pc'[Worker] = "routine"
        /\ \A a \in Actors \ {Creator, Worker} : pc'[a] = pc[a]
        /\ Creator \in Actors /\ Worker \in Actors /\ pc[Worker] = "unborn"
    BY <1>4, LifecycleFacts DEF CInv, Stations, Actors, Places
  <2>2. Stations'
    BY <1>1, <2>1 DEF CInv, Stations, Actors
  <2>3. Delivered'
    BY <1>1, <2>1 DEF CInv, Delivered, Actors
  <2>4. \A a \in Actors : Claims(a)' => Claims(a)
    BY <1>1, <2>1 DEF Claims, HoldsClaim
  <2> QED BY <1>1, <2>2, <2>3, <2>4, ClaimsKept DEF CInv
<1> QED BY <1>2, <1>3, <1>4

(* What a step that moves one actor leaves alone. *)
LEMMA OneMoves ==
  ASSUME CInv, NEW a \in Actors, NEW place \in Places, Goto(a, place)
  PROVE  /\ pc' \in [Actors -> Places] /\ pc'[a] = place
         /\ \A b \in Actors \ {a} : pc'[b] = pc[b]
         /\ Worker \in Actors /\ Creator \in Actors
         /\ Callers \subseteq Actors /\ Worker \notin Callers
BY LifecycleFacts DEF CInv, Stations, Goto, Actors

LEMMA RoutineClaims ==
  ASSUME CInv, CallDetachSelf \/ EndRoutine \/ StoreResult
  PROVE  CInv'
<1>1. claimed' = claimed /\ wins' = wins
  BY DEF CallDetachSelf, Call, EndRoutine, StoreResult, control, history
<1>2. \/ pc[Worker] = "routine" /\ Goto(Worker, "detach") /\ result' = result
      \/ pc[Worker] = "routine" /\ Goto(Worker, "finish") /\ result' = result
      \/ pc[Worker] = "finish" /\ Goto(Worker, "release") /\ result' = "value"
  BY DEF CallDetachSelf, Call, EndRoutine, StoreResult, control
<1>3. PICK place \in {"detach", "finish", "release"} :
        /\ Goto(Worker, place)
        /\ pc[Worker] \in {"routine", "finish"}
        /\ place # "release" => result' = result
        /\ place = "release" => result' = "value"
  BY <1>2
<1>4. /\ pc' \in [Actors -> Places] /\ pc'[Worker] = place
      /\ \A b \in Actors \ {Worker} : pc'[b] = pc[b]
      /\ Worker \in Actors /\ Creator \in Actors
      /\ Callers \subseteq Actors /\ Worker \notin Callers
  <2>1. Worker \in Actors /\ place \in Places
    BY DEF Actors, Places
  <2> QED BY <1>3, <2>1, OneMoves
<1>5. Stations'
  BY <1>3, <1>4, LifecycleFacts DEF CInv, Stations
<1>6. Delivered'
  BY <1>3, <1>4 DEF CInv, Delivered
<1>7. \A a \in Actors : Claims(a)' => Claims(a)
  <2>1. ~Claims(Worker)'
    BY <1>3, <1>4 DEF Claims, HoldsClaim
  <2>2. \A a \in Actors \ {Worker} : Claims(a)' => Claims(a)
    BY <1>4 DEF Claims, HoldsClaim
  <2> QED BY <2>1, <2>2
<1> QED BY <1>1, <1>5, <1>6, <1>7, ClaimsKept DEF CInv

LEMMA CallClaims ==
  ASSUME CInv, NEW c \in Callers, CallJoin(c) \/ CallDetach(c)
  PROVE  CInv'
<1>1. /\ claimed' = claimed /\ wins' = wins /\ result' = result
      /\ pc[c] = "user"
  BY DEF CallJoin, CallDetach, Call, control, history
<1>2. PICK place \in {"join", "detach"} : Goto(c, place)
  BY DEF CallJoin, CallDetach, Call
<1>3. /\ pc' \in [Actors -> Places] /\ pc'[c] = place
      /\ \A b \in Actors \ {c} : pc'[b] = pc[b]
      /\ Worker \in Actors /\ Creator \in Actors
      /\ Callers \subseteq Actors /\ Worker \notin Callers
  <2>1. c \in Actors /\ place \in Places
    BY DEF Actors, Places
  <2> QED BY <1>2, <2>1, OneMoves
<1>4. Stations'
  BY <1>1, <1>2, <1>3, LifecycleFacts DEF CInv, Stations
<1>5. Delivered'
  BY <1>1, <1>2, <1>3 DEF CInv, Delivered
<1>6. \A a \in Actors : Claims(a)' => Claims(a)
  BY <1>1, <1>2, <1>3 DEF Claims, HoldsClaim
<1> QED BY <1>1, <1>4, <1>5, <1>6, ClaimsKept DEF CInv

(* A claim is made only while there is none and nobody has succeeded. *)
LEMMA ClaimClaims ==
  ASSUME CInv, NEW a \in Actors,
         ClaimDetach(a) \/ (a \in Callers /\ ClaimJoin(a))
  PROVE  CInv'
<1>1. /\ pc[a] \in {"join", "detach"} /\ ~claimed /\ claimed' = TRUE
      /\ wins' = wins /\ result' = result
      /\ pc[a] = "join" => a \in Callers
  BY DEF ClaimDetach, ClaimJoin, Claim, history
<1>2. PICK place \in {"await", "release"} :
        Goto(a, place) /\ (place = "await" => a \in Callers)
  BY DEF ClaimDetach, ClaimJoin, Claim
<1>3. /\ pc' \in [Actors -> Places] /\ pc'[a] = place
      /\ \A b \in Actors \ {a} : pc'[b] = pc[b]
      /\ Worker \in Actors /\ Creator \in Actors
      /\ Callers \subseteq Actors /\ Worker \notin Callers
  <2>1. place \in Places
    BY DEF Places
  <2> QED BY <1>2, <2>1, OneMoves
<1>4. Stations'
  BY <1>1, <1>2, <1>3, LifecycleFacts DEF CInv, Stations
<1>5. Delivered'
  BY <1>1, <1>2, <1>3 DEF CInv, Delivered
<1>6. SoleClaim'
  <2>1. wins = 0 /\ \A b \in Actors : ~Claims(b)
    BY <1>1 DEF CInv, SoleClaim
  <2>2. \A b \in Actors : Claims(b)' => b = a
    BY <1>1, <1>3, <2>1 DEF Claims, HoldsClaim
  <2> QED BY <1>1, <2>1, <2>2 DEF SoleClaim
<1> QED BY <1>4, <1>5, <1>6 DEF CInv

LEMMA BackPlaces ==
  ASSUME CInv, NEW a \in Actors
  PROVE  /\ Back(a) \in Places
         /\ a \in Callers => Back(a) = "user"
         /\ a \notin Callers =>
              a = Worker /\ Back(a) = IF result = "none" THEN "routine" ELSE "ended"
BY LifecycleFacts DEF Back, Places, Actors

(* The steps that end a call or a wait without a claim being made. *)
LEMMA RefuseClaims ==
  ASSUME CInv, NEW a \in Actors, Refuse(a) \/ Free(a)
  PROVE  CInv'
<1>1. /\ claimed' = claimed /\ wins' = wins /\ result' = result
      /\ Goto(a, Back(a))
      /\ pc[a] \in {"join", "detach", "free"}
  BY DEF Refuse, Free, Claiming, control, history
<1>2. /\ pc' \in [Actors -> Places] /\ pc'[a] = Back(a)
      /\ \A b \in Actors \ {a} : pc'[b] = pc[b]
      /\ Worker \in Actors /\ Creator \in Actors
      /\ Callers \subseteq Actors /\ Worker \notin Callers
  BY <1>1, BackPlaces, OneMoves
<1>3. Stations'
  BY <1>1, <1>2, BackPlaces, LifecycleFacts DEF CInv, Stations
<1>4. Delivered'
  BY <1>1, <1>2, BackPlaces DEF CInv, Delivered, Stations
<1>5. \A b \in Actors : Claims(b)' => Claims(b)
  BY <1>1, <1>2, BackPlaces DEF Claims, HoldsClaim
<1> QED BY <1>1, <1>3, <1>4, <1>5, ClaimsKept DEF CInv

LEMMA OvertakenClaims ==
  ASSUME CInv, NEW a \in Actors, Overtaken(a)
  PROVE  CInv'
<1>1. /\ claimed' = claimed /\ wins' = wins /\ result' = result
      /\ Goto(a, "astray")
      /\ pc[a] \in {"join", "detach"}
  BY DEF Overtaken, Claiming, control, history
<1>2. /\ pc' \in [Actors -> Places] /\ pc'[a] = "astray"
      /\ \A b \in Actors \ {a} : pc'[b] = pc[b]
      /\ Worker \in Actors /\ Creator \in Actors
      /\ Callers \subseteq Actors /\ Worker \notin Callers
  <2>1. "astray" \in Places
    BY DEF Places
  <2> QED BY <1>1, <2>1, OneMoves
<1>3. Stations'
  BY <1>1, <1>2, LifecycleFacts DEF CInv, Stations
<1>4. Delivered'
  BY <1>1, <1>2 DEF CInv, Delivered
<1>5. \A b \in Actors : Claims(b)' => Claims(b)
  BY <1>1, <1>2 DEF Claims, HoldsClaim
<1> QED BY <1>1, <1>3, <1>4, <1>5, ClaimsKept DEF CInv

(* A claim ends with a success, or a worker's own reference is given up. *)
LEMMA ReleaseClaims ==
  ASSUME CInv, NEW a \in Actors, Release(a)
  PROVE  CInv'
<1>1. /\ pc[a] = "release" /\ claimed' = claimed /\ result' = result
      /\ wins' = IF Back(a) = "ended" THEN wins ELSE wins + 1
  BY DEF Release
<1>2. PICK place \in {"free", Back(a)} : Goto(a, place)
  BY DEF Release
<1>3. /\ pc' \in [Actors -> Places] /\ pc'[a] = place
      /\ \A b \in Actors \ {a} : pc'[b] = pc[b]
      /\ Worker \in Actors /\ Creator \in Actors
      /\ Callers \subseteq Actors /\ Worker \notin Callers
  <2>1. place \in Places
    BY BackPlaces DEF Places
  <2> QED BY <1>2, <2>1, OneMoves
<1>4. Stations'
  BY <1>1, <1>2, <1>3, BackPlaces, LifecycleFacts DEF CInv, Stations
<1>5. Delivered'
  BY <1>1, <1>2, <1>3, BackPlaces DEF CInv, Delivered, Stations
<1>6. SoleClaim'
  <2>1. ~Claims(a)' /\ \A b \in Actors : Claims(b)' => Claims(b) /\ b # a
    BY <1>1, <1>2, <1>3, BackPlaces DEF Claims, HoldsClaim
  <2>2. CASE Claims(a)
    <3>1. wins = 0 /\ claimed /\ Back(a) # "ended"
      BY <1>1, <2>2, BackPlaces, LifecycleFacts
      DEF CInv, SoleClaim, Claims, HoldsClaim
    <3>2. \A b \in Actors : ~Claims(b)'
      BY <2>1, <2>2 DEF CInv, SoleClaim
    <3> QED BY <1>1, <3>1, <3>2 DEF SoleClaim
  <2>3. CASE ~Claims(a)
    <3>1. Back(a) = "ended"
      BY <1>1, <2>3, BackPlaces, LifecycleFacts DEF Claims, HoldsClaim
    <3> QED BY <1>1, <2>1, <3>1, ClaimsKept
  <2> QED BY <2>2, <2>3
<1> QED BY <1>4, <1>5, <1>6 DEF CInv

LEMMA JoinClaims ==
  ASSUME CInv, NEW c \in Callers, Await(c) \/ AwaitFails(c) \/ Collect(c)
  PROVE  CInv'
<1>1. claimed' = claimed /\ wins' = wins /\ result' = result
  BY DEF Await, AwaitFails, Collect, control, history
<1>2. PICK place \in {"collect", "unclaim", "release"} :
        /\ Goto(c, place) /\ pc[c] \in {"await", "collect"}
        /\ place = "collect" => pc[Worker] = "ended"
  BY DEF Await, AwaitFails, Collect
<1>3. /\ pc' \in [Actors -> Places] /\ pc'[c] = place
      /\ \A b \in Actors \ {c} : pc'[b] = pc[b]
      /\ Worker \in Actors /\ Creator \in Actors
      /\ Callers \subseteq Actors /\ Worker \notin Callers
  <2>1. c \in Actors /\ place \in Places
    BY DEF Actors, Places
  <2> QED BY <1>2, <2>1, OneMoves
<1>4. Stations'
  BY <1>1, <1>2, <1>3, LifecycleFacts DEF CInv, Stations
<1>5. Delivered'
  BY <1>1, <1>2, <1>3 DEF CInv, Delivered
<1>6. \A a \in Actors : Claims(a)' => Claims(a)
  BY <1>1, <1>2, <1>3 DEF Claims, HoldsClaim
<1> QED BY <1>1, <1>4, <1>5, <1>6, ClaimsKept DEF CInv

(* A claim that is given up leaves none behind, and nobody has succeeded. *)
LEMMA UnclaimClaims ==
  ASSUME CInv, NEW c \in Callers, Unclaim(c)
  PROVE  CInv'
<1>1. /\ pc[c] = "unclaim" /\ claimed' = FALSE /\ wins' = wins
      /\ result' = result /\ Goto(c, "user")
  BY DEF Unclaim
<1>2. /\ pc' \in [Actors -> Places] /\ pc'[c] = "user"
      /\ \A b \in Actors \ {c} : pc'[b] = pc[b]
      /\ Worker \in Actors /\ Creator \in Actors
      /\ Callers \subseteq Actors /\ Worker \notin Callers
  <2>1. c \in Actors /\ "user" \in Places
    BY DEF Actors, Places
  <2> QED BY <1>1, <2>1, OneMoves
<1>3. Stations'
  BY <1>1, <1>2, LifecycleFacts DEF CInv, Stations
<1>4. Delivered'
  BY <1>1, <1>2 DEF CInv, Delivered
<1>5. SoleClaim'
  <2>1. Claims(c) /\ c \in Actors
    BY <1>1, <1>2 DEF Claims
  <2>2. wins = 0 /\ \A a \in Actors : Claims(a) => a = c
    BY <2>1 DEF CInv, SoleClaim
  <2>3. \A a \in Actors : ~Claims(a)'
    BY <1>1, <1>2, <2>2 DEF Claims, HoldsClaim
  <2> QED BY <1>1, <2>2, <2>3 DEF SoleClaim
<1> QED BY <1>3, <1>4, <1>5 DEF CInv

LEMMA ClaimInvariant == Spec => []CInv
<1>1. ASSUME Init PROVE CInv
  <2>1. /\ pc[Creator] = "calloc" /\ pc[Worker] = "unborn"
        /\ \A c \in Callers : pc[c] = "user" \/ pc[c] = "calloc"
        /\ pc \in [Actors -> Places]
    BY <1>1, LifecycleFacts DEF Init, Actors, Places
  <2>2. Stations /\ Delivered
    BY <1>1, <2>1 DEF Init, Stations, Delivered
  <2>3. \A a \in Actors : ~Claims(a)
    BY <2>1 DEF Claims, HoldsClaim, Actors
  <2> QED BY <1>1, <2>2, <2>3 DEF Init, CInv, SoleClaim
<1>2. ASSUME CInv, [Next]_vars PROVE CInv'
  <2>1. CASE Create
    BY <1>2, <2>1, CreateClaims
  <2>2. CASE CallDetachSelf \/ EndRoutine \/ StoreResult
    BY <1>2, <2>2, RoutineClaims
  <2>3. CASE Tell \/ UNCHANGED vars
    BY <1>2, <2>3 DEF Tell, vars, control, resources, history, CInv, Stations,
                      Delivered, SoleClaim, Claims, HoldsClaim
  <2>4. ASSUME NEW c \in Callers, CallJoin(c) \/ CallDetach(c) PROVE CInv'
    BY <1>2, <2>4, CallClaims
  <2>5. ASSUME NEW a \in Actors, InCall(a) PROVE CInv'
    BY <1>2, <2>5, ClaimClaims, RefuseClaims, OvertakenClaims, ReleaseClaims,
       JoinClaims, UnclaimClaims
    DEF InCall
  <2> QED BY <1>2, <2>1, <2>2, <2>3, <2>4, <2>5 DEF Next
<1> QED BY <1>1, <1>2, PTL DEF Spec

-----------------------------------------------------------------------------
(* The theorems. *)

(* Type correctness. *)
THEOREM TypeCorrect == Early = {} => (Spec => []TypeOK)
<1>1. IInv => TypeOK
  BY DEF IInv
<1>2. QED
  BY <1>1, InductiveInvariant, PTL

(* The block is freed only when the worker has ended and another's call has
   won; until then a reference keeps it. *)
LEMMA FreedFact ==
  ASSUME IInv, Born, block # "allocated" \/ guard # "open"
  PROVE  claimed /\ wins = 1 /\ pc[Worker] = "ended"
<1>1. references = 0 /\ block = "freed"
  BY DEF IInv, Block, TypeOK
<1>2. wins = 1 /\ pc[Worker] \in {"free", "ended"}
  BY <1>1 DEF IInv, References, OneClaim
<1>3. pc[Worker] # "free"
  BY <1>1 DEF IInv, Block, Actors
<1> QED BY <1>2, <1>3 DEF IInv, OneClaim

(* Whoever is about to touch the block holds a reference or waits for one
   who does, or has begun a call and lost the claim. *)
LEMMA TouchesFact == ASSUME IInv PROVE TouchesLive
<1> SUFFICES ASSUME NEW a \in Actors
             PROVE  /\ pc[a] \in {"store", "await", "collect", "unclaim",
                                  "release", "free", "routine", "finish"}
                         => block = "allocated" /\ guard = "open"
                    /\ a \in Claiming
                         => \/ block = "allocated" /\ guard = "open"
                            \/ /\ a # Worker /\ claimed /\ wins = 1
                               /\ pc[Worker] = "ended"
  BY DEF TouchesLive
<1>1. ASSUME pc[a] \in {"store", "await", "collect", "unclaim", "release",
                       "free", "routine", "finish"}
      PROVE  block = "allocated" /\ guard = "open"
  <2>1. Born
    BY <1>1 DEF IInv, Creation, Actors, Born, Making
  <2>2. CASE pc[a] = "free"
    BY <2>1, <2>2 DEF IInv, Block
  <2>3. CASE a = Worker /\ pc[a] # "free"
    BY <1>1, <2>1, <2>3, FreedFact
  <2>4. CASE a \in Callers /\ pc[a] = "store"
    BY <2>1, <2>4, FreedFact DEF IInv, Creation, Making
  <2>5. CASE HoldsClaim(a)
    BY <2>1, <2>5, FreedFact DEF IInv, OneClaim
  <2> QED BY <1>1, <2>2, <2>3, <2>4, <2>5
          DEF IInv, OneClaim, Creation, HoldsClaim, Actors
<1>2. ASSUME a \in Claiming, block # "allocated" \/ guard # "open"
      PROVE  a # Worker /\ claimed /\ wins = 1 /\ pc[Worker] = "ended"
  <2>1. Born /\ pc[a] # "ended"
    BY <1>2 DEF Claiming, IInv, Creation, Actors, Born, Making
  <2> QED BY <1>2, <2>1, FreedFact
<1> QED BY <1>1, <1>2

(* Nobody awaits, ends or lets go of a thread whose control block or guard
   has gone, in whatever order the worker's end and the calls come; and a
   join or detach that begins while the block is there finds it, unless
   another call has won and the worker has ended before it looked. *)
THEOREM TouchesAlwaysLive == Early = {} => (Spec => []TouchesLive)
<1>1. IInv => TouchesLive
  BY TouchesFact
<1>2. QED
  BY <1>1, InductiveInvariant, PTL

(* Of all joins and detaches that overlap, one at most succeeds, even if the
   worker passes on its identifier or detaches itself before pthread_create
   has stored the handle. *)
THEOREM AtMostOneWinner == Spec => []OneWinner
<1>1. CInv => OneWinner
  BY DEF CInv, SoleClaim, OneWinner
<1>2. QED
  BY <1>1, ClaimInvariant, PTL

(* A join that goes on to read the result finds the value the routine
   returned, after the worker has ended, however early it was called. *)
THEOREM JoinAlwaysDelivers == Spec => []JoinDelivers
<1>1. CInv => JoinDelivers
  BY DEF CInv, Delivered, JoinDelivers
<1>2. QED
  BY <1>1, ClaimInvariant, PTL

(* When worker and holder are done, or pthread_create has failed, block,
   guard and kernel object are released. *)
THEOREM AlwaysReleasedAtEnd == Early = {} => (Spec => []ReleasedAtEnd)
<1>1. ASSUME IInv PROVE ReleasedAtEnd
  <2> SUFFICES ASSUME Idle, wins > 0 \/ ~Born
               PROVE  block # "allocated" /\ guard # "open" /\ object # "open"
    BY DEF ReleasedAtEnd, Born
  <2>1. CASE ~Born
    BY <1>1, <2>1, LifecycleFacts DEF IInv, Creation, Idle, Making
  <2>2. CASE Born
    <3>1. references = 0
      BY <1>1, <2>2 DEF IInv, References, OneClaim, Idle, Born
    <3>2. \A a \in Actors : pc[a] # "free"
      BY <2>2 DEF Idle, Actors, Born
    <3>3. QED
      BY <1>1, <2>2, <3>1, <3>2 DEF IInv, Block
  <2>3. QED
    BY <2>1, <2>2
<1>2. QED
  BY <1>1, InductiveInvariant, PTL

(* A join or detach is refused only because another has the claim. *)
THEOREM RefusalsAreForAnother == Early = {} => (Spec => []RefusedForAnother)
<1>1. IInv => RefusedForAnother
  BY DEF IInv, OneClaim, RefusedForAnother
<1>2. QED
  BY <1>1, InductiveInvariant, PTL
=============================================================================
