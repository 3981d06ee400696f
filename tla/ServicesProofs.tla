--------------------------- MODULE ServicesProofs ----------------------------
(***************************************************************************)
(* Theorems about first use and pthread_once as MCServices composes them:  *)
(* any number of threads, the kernel may refuse every part and the lock    *)
(* may be refused wherever it is asked for; stores are seen in the order   *)
(* they are made (x86, x64), without which TLC finds NoEarlyUse violated.  *)
(***************************************************************************)
EXTENDS MCServices, SequenceTheorems, TLAPS

-----------------------------------------------------------------------------
(* The inductive invariant of a first use. *)

FTypes ==
  /\ memory \subseteq F!Writes /\ first \in Racers \union {None}
  /\ section \in Racers \union {None}
  /\ fpc \in [Racers -> F!Places] /\ used \in BOOLEAN

Sections ==
  /\ \A t \in Racers : fpc[t] \in {"recheck", "build", "drop"} => first = t
  /\ \A t \in Racers : fpc[t] = "inside" => section = t

(* The writes of a builder get out in order, before it drops the mutex; so
   others see nothing of the object, or some of it while a builder is at
   work, or all. *)
Stores ==
  /\ pending \in {<<>>, <<"ready">>, <<"object", "ready">>}
  /\ pending # <<>> => \E t \in Racers : fpc[t] = "drop"
  /\ pending = <<>> => memory \in {{}, F!Writes}
  /\ pending = <<"ready">> => memory = {"object"}
  /\ pending = <<"object", "ready">> => memory = {}

Stages ==
  /\ \A t \in Racers :
       /\ fpc[t] = "build" => memory = {} /\ pending = <<>>
       /\ fpc[t] = "drop" /\ pending = <<>> => memory = F!Writes
       /\ fpc[t] \in {"enter", "inside"} => memory = F!Writes
  /\ used => memory = F!Writes
  /\ built = IF memory = {} /\ pending = <<>> THEN 0 ELSE 1

FInv == FTypes /\ Sections /\ Stores /\ Stages

(* That of a pthread_once control. *)
OTypes ==
  /\ state \in 0..2 /\ runs \in 0..1 /\ finished \in 0..1
  /\ opc \in [Racers -> {"out", "once", "routine", "publish"}]
  /\ answer \in [Racers -> {"none", "0", "EAGAIN"}]

(* The thread that runs the routine. *)
Runner(t) == opc[t] \in {"routine", "publish"}

Turns ==
  /\ \A t \in Racers : Runner(t) => state = 1
  /\ \A t, u \in Racers : Runner(t) /\ Runner(u) => t = u
  /\ \A t \in Racers : /\ opc[t] = "routine" => finished = 0
                       /\ opc[t] = "publish" => finished = 1
  /\ state = 0 => runs = 0 /\ finished = 0
  /\ state # 0 => runs = 1
  /\ state = 2 => finished = 1
  /\ \A t \in Racers : answer[t] = "0" => finished = 1

OInv == OTypes /\ Turns

-----------------------------------------------------------------------------
(* First use. *)

LEMMA FirstUseFacts ==
  /\ None \notin Racers /\ F!Writes = {"object", "ready"}
  /\ F!Writes # {} /\ F!Writes # {"object"} /\ "ready" \notin {"object"}
BY ServicesAssumption DEF F!FirstUseAssumption, F!Writes

(* The queue of writes loses its first. *)
LEMMA Removed ==
  /\ F!RemoveAt(<<"ready">>, 1) = <<>>
  /\ F!RemoveAt(<<"object", "ready">>, 1) = <<"ready">>
<1> DEFINE one == <<"ready">>
           two == <<"object", "ready">>
<1>1. /\ one \in Seq(F!Writes) /\ Len(one) = 1 /\ one[1] = "ready"
      /\ two \in Seq(F!Writes) /\ Len(two) = 2 /\ two[2] = "ready"
  BY FirstUseFacts
<1> HIDE DEF one, two
<1>2. /\ SubSeq(one, 1, 0) = <<>> /\ SubSeq(one, 2, 1) = <<>>
      /\ SubSeq(two, 1, 0) = <<>> /\ SubSeq(two, 2, 2) = <<"ready">>
  <2>1. /\ SubSeq(one, 1, 0) = <<>> /\ SubSeq(one, 2, 1) = <<>>
        /\ SubSeq(two, 1, 0) = <<>>
    BY SubSeqEmpty
  <2>2. \A i \in 2..2 : two[i] \in F!Writes
    BY <1>1, FirstUseFacts
  <2>3. /\ SubSeq(two, 2, 2) \in Seq(F!Writes)
        /\ Len(SubSeq(two, 2, 2)) = IF 2 <= 2 THEN 2 - 2 + 1 ELSE 0
        /\ \A i \in 1 .. 2 - 2 + 1 : SubSeq(two, 2, 2)[i] = two[2 + i - 1]
    <3> HIDE DEF F!Writes
    <3> QED BY <2>2, SubSeqProperties
  <2>4. Len(SubSeq(two, 2, 2)) = 1 /\ SubSeq(two, 2, 2)[1] = "ready"
    BY <1>1, <2>3
  <2>5. SubSeq(two, 2, 2) = <<"ready">>
    <3> DEFINE rest == SubSeq(two, 2, 2)
    <3>1. rest \in Seq(F!Writes) /\ Len(rest) = 1 /\ rest[1] = "ready"
      BY <2>3, <2>4
    <3> HIDE DEF rest
    <3>2. rest = <<"ready">>
      BY <3>1, <1>1, SeqEqual DEF one
    <3> QED BY <3>2 DEF rest
  <2> QED BY <2>1, <2>5
<1>3. <<>> \o <<>> = <<>> /\ <<>> \o <<"ready">> = <<"ready">>
  OBVIOUS
<1>4. /\ F!RemoveAt(one, 1) = SubSeq(one, 1, 0) \o SubSeq(one, 2, 1)
      /\ F!RemoveAt(two, 1) = SubSeq(two, 1, 0) \o SubSeq(two, 2, 2)
  BY <1>1 DEF F!RemoveAt
<1>5. F!RemoveAt(one, 1) = <<>> /\ F!RemoveAt(two, 1) = <<"ready">>
  BY <1>2, <1>3, <1>4, Zenon
<1> QED BY <1>5 DEF one, two

(* Steps that leave memory, the queue of writes and built alone. *)
LEMMA StoresKept ==
  ASSUME FInv, UNCHANGED <<memory, pending>>,
         \A t \in Racers : fpc[t] = "drop" => fpc'[t] = "drop"
  PROVE  Stores'
BY DEF FInv, Stores

LEMMA FlushInv ==
  ASSUME FInv, F!Flush
  PROVE  FInv'
<1>1. /\ first' = first /\ section' = section /\ fpc' = fpc
      /\ built' = built /\ used' = used
  BY DEF F!Flush
<1>2. PICK i \in 1..Len(pending) :
        /\ i = 1
        /\ memory' = memory \union {pending[i]}
        /\ pending' = F!RemoveAt(pending, i)
  BY DEF F!Flush
<1>3. pending \in {<<"ready">>, <<"object", "ready">>}
  <2>1. pending # <<>>
    BY <1>2
  <2> QED BY <2>1 DEF FInv, Stores
<1>4. \/ /\ pending = <<"ready">> /\ pending' = <<>>
         /\ memory = {"object"} /\ memory' = F!Writes
      \/ /\ pending = <<"object", "ready">> /\ pending' = <<"ready">>
         /\ memory = {} /\ memory' = {"object"}
  <2>1. CASE pending = <<"ready">>
    <3>1. pending[1] = "ready" /\ memory = {"object"}
      BY <2>1 DEF FInv, Stores
    <3> QED BY <1>2, <2>1, <3>1, Removed, FirstUseFacts
  <2>2. CASE pending = <<"object", "ready">>
    <3>1. pending[1] = "object" /\ memory = {}
      BY <2>2 DEF FInv, Stores
    <3> QED BY <1>2, <2>2, <3>1, Removed
  <2> QED BY <1>3, <2>1, <2>2
<1>5. FTypes' /\ Sections'
  BY <1>1, <1>4, FirstUseFacts DEF FInv, FTypes, Sections
<1>6. Stores'
  BY <1>1, <1>4 DEF FInv, Stores
<1>7. Stages'
  BY <1>1, <1>4, FirstUseFacts DEF FInv, Stages
<1> QED BY <1>5, <1>6, <1>7 DEF FInv

(* What a thread's move leaves alone. *)
LEMMA FGotoFacts ==
  ASSUME FInv, NEW t \in Racers, NEW place \in F!Places, F!Goto(t, place)
  PROVE  /\ fpc' \in [Racers -> F!Places] /\ fpc'[t] = place
         /\ \A u \in Racers \ {t} : fpc'[u] = fpc[u]
BY DEF FInv, FTypes, F!Goto

(* Looking at the word, failing and leaving change nothing but the thread's
   place and who is in a section. *)
LEMMA LooksInv ==
  ASSUME FInv, NEW t \in Racers,
         F!Test(t) \/ F!HoldFails(t) \/ F!TryFails(t) \/ F!Enter(t)
           \/ F!Leave(t) \/ F!Hold(t) \/ F!Recheck(t)
  PROVE  FInv'
<1>1. UNCHANGED <<memory, pending, built>>
  BY DEF F!Test, F!HoldFails, F!TryFails, F!Enter, F!Leave, F!Hold, F!Recheck
<1>2. fpc[t] # "drop" /\ fpc[t] # "build"
  BY DEF F!Test, F!HoldFails, F!TryFails, F!Enter, F!Leave, F!Hold, F!Recheck
<1>3. PICK place \in F!Places :
        /\ F!Goto(t, place)
        /\ place = "enter" => memory = F!Writes
        /\ place = "build" => memory = {} /\ pending = <<>>
        /\ place = "drop" /\ pending = <<>> => memory = F!Writes
        /\ place = "inside" => memory = F!Writes /\ section = None /\ section' = t
        /\ place # "inside" =>
             section' = section \/ (fpc[t] = "inside" /\ section' = None)
        /\ place = "recheck" => first = None /\ first' = t
        /\ place # "recheck" => first' = first
        /\ place \in {"drop", "build"} => fpc[t] = "recheck"
        /\ used' # used => used' = TRUE /\ memory = F!Writes
  <2>1. CASE F!Test(t)
    <3>1. F!Ready => memory = F!Writes
      BY FirstUseFacts DEF F!Ready, FInv, Stores
    <3> QED BY <2>1, <3>1 DEF F!Test, F!Places
  <2>2. CASE F!HoldFails(t)
    BY <2>2 DEF F!HoldFails, F!Places
  <2>3. CASE F!TryFails(t)
    <3>1. memory = F!Writes
      BY <2>3 DEF F!TryFails, FInv, Stages
    <3> QED BY <2>3, <3>1 DEF F!TryFails, F!Places
  <2>4. CASE F!Enter(t)
    <3>1. memory = F!Writes
      BY <2>4 DEF F!Enter, FInv, Stages
    <3> QED BY <2>4, <3>1 DEF F!Enter, F!Places
  <2>5. CASE F!Leave(t)
    BY <2>5 DEF F!Leave, F!Places
  <2>6. CASE F!Hold(t)
    BY <2>6 DEF F!Hold, F!Places
  <2>7. CASE F!Recheck(t)
    <3>1. \A u \in Racers : fpc[u] # "drop"
      BY <2>7, FirstUseFacts DEF F!Recheck, FInv, Sections
    <3>2. pending = <<>>
      BY <3>1 DEF FInv, Stores
    <3>3. IF F!Ready THEN memory = F!Writes ELSE memory = {}
      BY <3>2, FirstUseFacts DEF F!Ready, FInv, Stores
    <3> QED BY <2>7, <3>2, <3>3 DEF F!Recheck, F!Places
  <2> QED BY <2>1, <2>2, <2>3, <2>4, <2>5, <2>6, <2>7
<1>4. /\ fpc' \in [Racers -> F!Places] /\ fpc'[t] = place
      /\ \A u \in Racers \ {t} : fpc'[u] = fpc[u]
  BY <1>3, FGotoFacts
<1>5. FTypes'
  BY <1>1, <1>3, <1>4 DEF FInv, FTypes
<1>6. Sections'
  BY <1>3, <1>4, FirstUseFacts DEF FInv, Sections
<1>7. Stores'
  BY <1>1, <1>2, <1>4, StoresKept
<1>8. Stages'
  BY <1>1, <1>3, <1>4 DEF FInv, Stages, FTypes
<1> QED BY <1>5, <1>6, <1>7, <1>8 DEF FInv

(* The builder is alone under the mutex, and nothing of the object is there
   when it begins. *)
LEMMA BuildInv ==
  ASSUME FInv, NEW t \in Racers, F!Build(t) \/ F!BuildFails(t) \/ F!Drop(t)
  PROVE  FInv'
<1>1. /\ section' = section /\ used' = used /\ memory' = memory
      /\ first = t
      /\ \A u \in Racers \ {t} : fpc[u] \notin {"recheck", "build", "drop"}
  BY DEF F!Build, F!BuildFails, F!Drop, FInv, Sections
<1>2. CASE F!Build(t)
  <2>1. /\ memory = {} /\ pending = <<>> /\ built = 0 /\ ~used
        /\ \A u \in Racers : fpc[u] \notin {"enter", "inside"}
    BY <1>2, FirstUseFacts DEF F!Build, FInv, Stages, FTypes
  <2>2. /\ pending' = <<"object", "ready">> /\ built' = 1 /\ first' = first
        /\ F!Goto(t, "drop") /\ "drop" \in F!Places
    BY <1>2, <2>1 DEF F!Build, F!Places
  <2>3. /\ fpc' \in [Racers -> F!Places] /\ fpc'[t] = "drop"
        /\ \A u \in Racers \ {t} : fpc'[u] = fpc[u]
    BY <2>2, FGotoFacts
  <2>4. FTypes' /\ Sections'
    BY <1>1, <2>2, <2>3 DEF FInv, FTypes, Sections
  <2>5. <<"object", "ready">> # <<>> /\ <<"object", "ready">> # <<"ready">>
    OBVIOUS
  <2>6. Stores'
    BY <1>1, <2>1, <2>2, <2>3, <2>5 DEF Stores
  <2>7. Stages'
    BY <1>1, <2>1, <2>2, <2>3, <2>5 DEF Stages
  <2> QED BY <2>4, <2>6, <2>7 DEF FInv
<1>3. CASE F!BuildFails(t)
  <2>1. /\ pending' = pending /\ built' = built /\ first' = None
        /\ F!Goto(t, "out") /\ "out" \in F!Places /\ fpc[t] = "build"
    BY <1>3 DEF F!BuildFails, F!Places
  <2>2. /\ fpc' \in [Racers -> F!Places] /\ fpc'[t] = "out"
        /\ \A u \in Racers \ {t} : fpc'[u] = fpc[u]
    BY <2>1, FGotoFacts
  <2>3. FTypes' /\ Sections'
    BY <1>1, <2>1, <2>2 DEF FInv, FTypes, Sections
  <2>4. Stores'
    BY <1>1, <2>1, <2>2, StoresKept
  <2>5. Stages'
    BY <1>1, <2>1, <2>2 DEF FInv, Stages
  <2> QED BY <2>3, <2>4, <2>5 DEF FInv
<1>4. CASE F!Drop(t)
  <2>1. /\ pending = <<>> /\ pending' = pending /\ built' = built
        /\ first' = None /\ F!Goto(t, "enter") /\ "enter" \in F!Places
        /\ memory = F!Writes
    BY <1>4 DEF F!Drop, F!Places, FInv, Stages
  <2>2. /\ fpc' \in [Racers -> F!Places] /\ fpc'[t] = "enter"
        /\ \A u \in Racers \ {t} : fpc'[u] = fpc[u]
    BY <2>1, FGotoFacts
  <2>3. FTypes' /\ Sections'
    BY <1>1, <2>1, <2>2 DEF FInv, FTypes, Sections
  <2>4. Stores'
    BY <1>1, <2>1 DEF FInv, Stores
  <2>5. Stages'
    BY <1>1, <2>1, <2>2 DEF FInv, Stages
  <2> QED BY <2>3, <2>4, <2>5 DEF FInv
<1> QED BY <1>2, <1>3, <1>4

LEMMA DestroyInv ==
  ASSUME FInv, NEW t \in Racers, F!Destroy(t)
  PROVE  FInv'
<1>1. /\ memory' = {} /\ built' = 0 /\ used' = FALSE /\ pending' = pending
      /\ first' = first /\ section' = section /\ fpc' = fpc
      /\ \A u \in Racers : fpc[u] = "out"
  BY DEF F!Destroy
<1>2. pending = <<>>
  BY <1>1 DEF FInv, Stores
<1> QED BY <1>1, <1>2 DEF FInv, FTypes, Sections, Stores, Stages

LEMMA FirstUseInv ==
  ASSUME FInv, F!Next
  PROVE  FInv'
BY FlushInv, LooksInv, BuildInv, DestroyInv DEF F!Next, F!Progress

LEMMA FirstUseBegins == F!Init => FInv
<1> SUFFICES ASSUME F!Init PROVE FInv
  OBVIOUS
<1>1. /\ memory = {} /\ pending = <<>> /\ first = None /\ section = None
      /\ fpc = [t \in Racers |-> "out"] /\ built = 0 /\ used = FALSE
  BY DEF F!Init
<1>2. FTypes
  BY <1>1 DEF FTypes, F!Places
<1> QED BY <1>1, <1>2 DEF FInv, Sections, Stores, Stages

-----------------------------------------------------------------------------
(* pthread_once. *)

LEMMA OnceBegins == O!Init => OInv
<1> SUFFICES ASSUME O!Init PROVE OInv
  OBVIOUS
<1> QED BY DEF O!Init, OInv, OTypes, Turns, Runner

(* A thread that does not run the routine moves, and changes nothing but its
   answer: to 0 only once state 2 is written. *)
LEMMA BystanderInv ==
  ASSUME OInv, NEW t \in Racers,
         O!Call(t) \/ O!LockFails(t) \/ O!AlreadyDone(t)
  PROVE  OInv'
<1>1. /\ UNCHANGED <<state, runs, finished>> /\ ~Runner(t)
      /\ \A u \in Racers \ {t} : opc'[u] = opc[u] /\ answer'[u] = answer[u]
      /\ opc' \in [Racers -> {"out", "once", "routine", "publish"}]
      /\ opc'[t] \in {"out", "once"}
      /\ answer' \in [Racers -> {"none", "0", "EAGAIN"}]
      /\ answer'[t] = "0" => state = 2
  BY DEF OInv, OTypes, Runner, O!Call, O!LockFails, O!AlreadyDone,
         O!Returns, O!Goto
<1> QED BY <1>1 DEF OInv, OTypes, Turns, Runner

LEMMA RunnerInv ==
  ASSUME OInv, NEW t \in Racers,
         O!Begin(t) \/ O!RoutineReturns(t) \/ O!Publish(t) \/ O!PublishFails(t)
  PROVE  OInv'
<1>1. CASE O!Begin(t)
  <2>1. /\ state = 0 /\ state' = 1 /\ runs = 0 /\ runs' = 1
        /\ finished = 0 /\ finished' = 0 /\ answer' = answer
        /\ opc' \in [Racers -> {"out", "once", "routine", "publish"}]
        /\ opc'[t] = "routine"
        /\ \A u \in Racers \ {t} : opc'[u] = opc[u] /\ ~Runner(u)
    BY <1>1 DEF OInv, OTypes, Turns, Runner, O!Begin, O!Goto
  <2> QED BY <2>1 DEF OInv, OTypes, Turns, Runner
<1>0. /\ Runner(t) => state = 1 /\ \A u \in Racers \ {t} : ~Runner(u)
      /\ opc[t] = "routine" => finished = 0
      /\ opc[t] = "publish" => finished = 1
      /\ opc \in [Racers -> {"out", "once", "routine", "publish"}]
      /\ answer \in [Racers -> {"none", "0", "EAGAIN"}]
  <2>1. Runner(t) => \A u \in Racers \ {t} : ~Runner(u)
    BY DEF OInv, Turns
  <2>2. /\ opc[t] = "routine" => finished = 0
        /\ opc[t] = "publish" => finished = 1
    BY DEF OInv, Turns
  <2>3. Runner(t) => state = 1
    BY DEF OInv, Turns
  <2>4. /\ opc \in [Racers -> {"out", "once", "routine", "publish"}]
        /\ answer \in [Racers -> {"none", "0", "EAGAIN"}]
    BY DEF OInv, OTypes
  <2> QED BY <2>1, <2>2, <2>3, <2>4
<1>2. CASE O!RoutineReturns(t)
  <2>1. /\ state = 1 /\ state' = 1 /\ runs' = runs
        /\ finished = 0 /\ finished' = 1 /\ answer' = answer
        /\ opc' \in [Racers -> {"out", "once", "routine", "publish"}]
        /\ opc'[t] = "publish"
        /\ \A u \in Racers \ {t} : opc'[u] = opc[u] /\ ~Runner(u)
    BY <1>0, <1>2 DEF Runner, O!RoutineReturns, O!Goto
  <2> QED BY <2>1 DEF OInv, OTypes, Turns, Runner
<1>3. CASE O!Publish(t) \/ O!PublishFails(t)
  <2>1. /\ state = 1 /\ state' \in {1, 2} /\ runs' = runs
        /\ finished = 1 /\ finished' = 1
        /\ opc' \in [Racers -> {"out", "once", "routine", "publish"}]
        /\ opc'[t] = "out"
        /\ answer' \in [Racers -> {"none", "0", "EAGAIN"}]
        /\ \A u \in Racers \ {t} : opc'[u] = opc[u] /\ ~Runner(u)
    BY <1>0, <1>3 DEF Runner, O!Publish, O!PublishFails, O!Returns, O!Goto
  <2> QED BY <2>1 DEF OInv, OTypes, Turns, Runner
<1> QED BY <1>1, <1>2, <1>3

LEMMA OnceInv ==
  ASSUME OInv, O!Next
  PROVE  OInv'
BY BystanderInv, RunnerInv DEF O!Next, O!Progress

-----------------------------------------------------------------------------
(* The services together. *)

(* What the invariants say of the properties. *)
LEMMA FirstUseHolds ==
  ASSUME FInv
  PROVE  F!TypeOK /\ F!BuiltOnce /\ F!NoEarlyUse
<1>1. F!ToSet(pending) \subseteq F!Writes
  BY FirstUseFacts DEF FInv, Stores, F!ToSet
<1>2. F!TypeOK
  BY <1>1 DEF FInv, FTypes, Stages, F!TypeOK
<1>3. F!BuiltOnce
  BY FirstUseFacts DEF FInv, Stages, F!BuiltOnce
<1>4. F!NoEarlyUse
  BY FirstUseFacts DEF FInv, Stages, F!NoEarlyUse
<1> QED BY <1>2, <1>3, <1>4

LEMMA OnceHolds ==
  ASSUME OInv
  PROVE  O!TypeOK /\ O!SerializesOne
BY DEF OInv, OTypes, Turns, O!TypeOK, O!SerializesOne

(* Who begins to use an object that has been used finds it ready. *)
LEMMA FastPath ==
  ASSUME FInv, F!Next, NEW t \in Racers,
         used, fpc[t] = "out", fpc'[t] # "out"
  PROVE  fpc'[t] = "enter"
<1>1. fpc \in [Racers -> F!Places] /\ F!Ready
  BY FirstUseFacts DEF FInv, FTypes, Stages, F!Ready
<1>2. PICK u \in Racers : fpc' # fpc /\ (F!Test(u) \/ F!Progress(u)
                              \/ F!TryFails(u) \/ F!HoldFails(u) \/ F!BuildFails(u))
  BY DEF F!Next, F!Flush, F!Destroy
<1>3. PICK place : F!Goto(u, place) /\ (fpc[u] = "out" => F!Test(u))
  BY <1>2 DEF F!Test, F!Progress, F!Hold, F!Recheck, F!Build, F!Drop, F!Enter,
              F!Leave, F!TryFails, F!HoldFails, F!BuildFails
<1>4. t = u
  BY <1>1, <1>3 DEF F!Goto
<1> QED BY <1>1, <1>3, <1>4 DEF F!Test, F!Goto

(* One step of the composition: the two invariants last, and nobody who has
   got an object needs the kernel for a mutex. *)
LEMMA ServicesStep ==
  ASSUME FInv, OInv, [ServicesNext]_allvars
  PROVE  /\ FInv' /\ OInv'
         /\ [\A t \in Racers :
               used /\ fpc[t] = "out" /\ fpc'[t] # "out"
                 => fpc'[t] = "enter"]_fvars
<1>1. CASE UNCHANGED fvars /\ UNCHANGED ovars
  <2>1. FInv'
    BY <1>1 DEF fvars, FInv, FTypes, Sections, Stores, Stages
  <2>2. OInv'
    BY <1>1 DEF ovars, OInv, OTypes, Turns, Runner
  <2> QED BY <1>1, <2>1, <2>2
<1>2. CASE F!Next /\ UNCHANGED ovars
  <2>1. OInv'
    BY <1>2 DEF ovars, OInv, OTypes, Turns, Runner
  <2> QED BY <1>2, <2>1, FirstUseInv, FastPath
<1>3. CASE O!Next /\ UNCHANGED fvars
  <2>1. FInv'
    BY <1>3 DEF fvars, FInv, FTypes, Sections, Stores, Stages
  <2> QED BY <1>3, <2>1, OnceInv
<1>4. \/ UNCHANGED fvars /\ UNCHANGED ovars
      \/ F!Next /\ UNCHANGED ovars
      \/ O!Next /\ UNCHANGED fvars
  BY DEF ServicesNext, Conditions, Lifecycle, FirstUses, Onces, others, allvars
<1> QED BY <1>1, <1>2, <1>3, <1>4

(* Concurrent first uses build an object exactly once, nobody enters a
   section still being built, and once an acquisition has succeeded none
   depends on the kernel (src/internal/lock.h:29-37); a pthread_once routine
   runs once, and nobody is told 0 before it has returned
   (src/platform/windows/pthread.c:439-465).  For any number of threads, on
   a processor that keeps the order of stores. *)
THEOREM AlwaysInitializedOnce == ServicesSpec => InitializedOnce
<1>1. ServicesInit => FInv /\ OInv
  BY FirstUseBegins, OnceBegins DEF ServicesInit
<1>2. FInv /\ OInv /\ [ServicesNext]_allvars => FInv' /\ OInv'
  BY ServicesStep
<1>3. FInv /\ OInv /\ [ServicesNext]_allvars
        => [\A t \in Racers :
              used /\ fpc[t] = "out" /\ fpc'[t] # "out"
                => fpc'[t] = "enter"]_fvars
  BY ServicesStep
<1>4. F!CannotFailAfterSuccess
        <=> [][\A t \in Racers :
                 used /\ fpc[t] = "out" /\ fpc'[t] # "out"
                   => fpc'[t] = "enter"]_fvars
  BY DEF F!CannotFailAfterSuccess, F!vars, fvars
<1>5. FInv => F!TypeOK /\ (F!BuiltOnce /\ F!NoEarlyUse)
  BY FirstUseHolds
<1>6. OInv => O!TypeOK /\ O!SerializesOne
  BY OnceHolds
<1> QED BY <1>1, <1>2, <1>3, <1>4, <1>5, <1>6, PTL
        DEF ServicesSpec, InitializedOnce

-----------------------------------------------------------------------------
(* The worker that uses its identifier early.  The instance E and an instance
   of the theorems about ThreadLifecycle say the same of it. *)
EP == INSTANCE ThreadLifecycleProofs WITH
        Early <- {"tell", "detach"}, block <- eblock, guard <- eguard,
        object <- eobject, handle <- ehandle, references <- ereferences,
        claimed <- eclaimed, result <- eresult, pc <- epc, known <- eknown,
        wins <- ewins, refused <- erefused

LEMMA EarlyAllowed == EP!ThreadLifecycleAssumption
BY ThreadLifecycleAssumption
DEF ThreadLifecycleAssumption, EP!ThreadLifecycleAssumption, IsFiniteSet,
    EP!IsFiniteSet

LEMMA EarlySame ==
  /\ E!Init <=> EP!Init
  /\ E!Next <=> EP!Next
  /\ E!OneWinner <=> EP!OneWinner
  /\ E!JoinDelivers <=> EP!JoinDelivers
<1>1. E!Init <=> EP!Init
  BY DEF E!Init, EP!Init, E!Actors, EP!Actors
<1>2. E!Next <=> EP!Next
  BY DEF E!Next, EP!Next, E!Create, EP!Create, E!CreateFails, EP!CreateFails,
         E!Allocate, EP!Allocate, E!GuardFails, EP!GuardFails, E!MakeGuard,
         EP!MakeGuard, E!SpawnFails, EP!SpawnFails, E!Spawn, EP!Spawn,
         E!StoreHandle, EP!StoreHandle, E!Publish, EP!Publish, E!Tell, EP!Tell,
         E!CallDetachSelf, EP!CallDetachSelf, E!EndRoutine, EP!EndRoutine,
         E!StoreResult, EP!StoreResult, E!CallJoin, EP!CallJoin,
         E!CallDetach, EP!CallDetach, E!InCall, EP!InCall, E!ClaimDetach,
         EP!ClaimDetach, E!Refuse, EP!Refuse, E!Release, EP!Release, E!Free,
         EP!Free, E!ClaimJoin, EP!ClaimJoin, E!Await, EP!Await, E!AwaitFails,
         EP!AwaitFails, E!Unclaim, EP!Unclaim, E!Collect, EP!Collect,
         E!Claim, EP!Claim, E!Call, EP!Call, E!Overtaken, EP!Overtaken, E!Claiming,
         EP!Claiming, E!Goto, EP!Goto, E!Back, EP!Back, E!Actors, EP!Actors,
         E!control, EP!control, E!resources, EP!resources, E!history,
         EP!history
<1>3. /\ E!OneWinner <=> EP!OneWinner
      /\ E!JoinDelivers <=> EP!JoinDelivers
  BY DEF E!OneWinner, EP!OneWinner, E!JoinDelivers, EP!JoinDelivers
<1> QED BY <1>1, <1>2, <1>3

(* What a worker does before pthread_create has stored the handle puts no
   claim in danger: one join or detach at most succeeds, and a join delivers
   the worker's value (src/platform/windows/pthread.c:379-419).  For any
   callers. *)
THEOREM AlwaysEarlyClaims == ServicesSpec => []EarlyClaims
<1>1. ServicesInit => EP!Init
  BY EarlySame DEF ServicesInit
<1>2. [ServicesNext]_allvars => [EP!Next]_(EP!vars)
  <2>1. UNCHANGED evars => UNCHANGED EP!vars
    BY DEF evars, EP!vars, EP!control, EP!resources, EP!history
  <2>2. [ServicesNext]_allvars => E!Next \/ UNCHANGED evars
    BY DEF ServicesNext, Conditions, Lifecycle, FirstUses, Onces, others, allvars
  <2> QED BY <2>1, <2>2, EarlySame
<1>3. EP!Spec => []EP!OneWinner
  BY EarlyAllowed, EP!AtMostOneWinner
<1>4. EP!Spec => []EP!JoinDelivers
  BY EarlyAllowed, EP!JoinAlwaysDelivers
<1>5. ServicesSpec => EP!Spec
  BY <1>1, <1>2, PTL DEF ServicesSpec, EP!Spec
<1>6. EP!OneWinner /\ EP!JoinDelivers => EarlyClaims
  BY EarlySame DEF EarlyClaims
<1> QED BY <1>3, <1>4, <1>5, <1>6, PTL

=============================================================================
