----------------------------- MODULE FilesProofs -----------------------------
(***************************************************************************)
(* Theorems about the components of FileServices, for every value of their  *)
(* constants: record locks (RecordLocks), command streams (CommandStreams), *)
(* directory searches (Searches), files and streams by name (NamedFiles)    *)
(* and directory streams (Directories).                                     *)
(***************************************************************************)
EXTENDS FileServices, FiniteSetTheorems, SequenceTheorems, WellFoundedInduction, TLAPS

-----------------------------------------------------------------------------
(* Record locks: the inductive invariant. *)

Blocking(h) == call[h].mode \in {"LOCK", "RLCK"}

LockAnswers ==
  [r : {0, -1}, errno : {"saved", "EACCES", "EDEADLOCK", "EIO"}]

LockTypes ==
  /\ held \in [LockHandles -> SUBSET (Regions \union {{}})]
  /\ pc \in [LockHandles -> {"idle", "unlocking", "trying", "asleep"}]
  /\ call \in [LockHandles -> [mode : L!Modes, region : Regions \union {{}}]]
  /\ attempt \in [LockHandles -> Nat] /\ waits \in [LockHandles -> Nat]
  /\ answer \in [LockHandles -> LockAnswers]

(* No byte is in two locks, of two handles or of one. *)
Disjoint ==
  \A g, h \in LockHandles : \A a \in held[g], b \in held[h] :
    g # h \/ a # b => a \intersect b = {}

(* A call has slept once for every attempt refused, and sleeps or tries only
   while it has an attempt left. *)
Patience ==
  \A h \in LockHandles :
    /\ pc[h] \in {"trying", "asleep"} =>
         /\ call[h].mode # "UNLCK" /\ waits[h] = attempt[h]
         /\ attempt[h] < L!maximum(call[h].mode)
    /\ pc[h] = "unlocking" => call[h].mode = "UNLCK" /\ waits[h] = 0
    /\ waits[h] <= IF Blocking(h) THEN Attempts - 1 ELSE 0

(* What the answer of a call that is over says of the lock. *)
Answered ==
  \A h \in LockHandles : pc[h] = "idle" /\ call[h].region # {} =>
    /\ call[h].mode # "UNLCK" /\ answer[h].r = 0 => call[h].region \in held[h]
    /\ call[h].mode = "UNLCK" => call[h].region \notin held[h]
    /\ answer[h].errno = "EDEADLOCK" =>
         Blocking(h) /\ attempt[h] = Attempts /\ waits[h] = Attempts - 1
    /\ answer[h].errno = "EACCES" => ~Blocking(h) /\ waits[h] = 0

LInv == LockTypes /\ Disjoint /\ Patience /\ Answered

-----------------------------------------------------------------------------
LEMMA AnswersFact ==
  /\ L!Success \in LockAnswers
  /\ \A error \in {"EACCES", "EDEADLOCK", "EIO"} : L!Failure(error) \in LockAnswers
BY DEF L!Success, L!Failure, LockAnswers

LEMMA LockBegins == L!Init => LInv
BY AnswersFact DEF L!Init, L!Modes, LInv, LockTypes, Disjoint, Patience, Answered,
       Blocking

(* A step of h leaves what the others have, and where they are, alone. *)
LEMMA LockingInv ==
  ASSUME L!RecordLocksAssumption, LInv, NEW h \in LockHandles,
         NEW mode \in L!Modes, NEW region \in Regions, L!_locking(h, mode, region)
  PROVE  LInv'
<1>1. LockTypes'
  BY DEF LInv, LockTypes, L!_locking
<1>2. Disjoint'
  BY DEF LInv, Disjoint, L!_locking
<1>3. Patience'
  BY DEF LInv, LockTypes, Patience, Blocking, L!_locking, L!Modes, L!maximum,
         L!RecordLocksAssumption
<1>4. Answered'
  BY DEF LInv, LockTypes, Answered, Blocking, L!_locking
<1> QED BY <1>1, <1>2, <1>3, <1>4 DEF LInv

LEMMA UnlockInv ==
  ASSUME L!RecordLocksAssumption, LInv, NEW h \in LockHandles, L!Unlock(h)
  PROVE  LInv'
<1>1. LockTypes'
  BY AnswersFact DEF LInv, LockTypes, L!Unlock, L!Answer
<1>2. Disjoint'
  BY DEF LInv, LockTypes, Disjoint, L!Unlock
<1>3. Patience'
  BY DEF LInv, LockTypes, Patience, Blocking, L!Unlock, L!Answer
<1>4. Answered'
  BY DEF LInv, LockTypes, Patience, Answered, Blocking, L!Unlock, L!Answer,
         L!Success, L!Failure
<1> QED BY <1>1, <1>2, <1>3, <1>4 DEF LInv

LEMMA LockInv ==
  ASSUME L!RecordLocksAssumption, LInv, NEW h \in LockHandles, L!Lock(h)
  PROVE  LInv'
<1>1. LockTypes'
  BY AnswersFact DEF LInv, LockTypes, L!Lock, L!Answer
<1>2. Disjoint'
  BY DEF LInv, LockTypes, Disjoint, L!Lock, L!Clashes
<1>3. Patience'
  BY DEF LInv, LockTypes, Patience, Blocking, L!Lock, L!Answer
<1>4. Answered'
  BY DEF LInv, LockTypes, Patience, Answered, Blocking, L!Lock, L!Answer,
         L!Success
<1> QED BY <1>1, <1>2, <1>3, <1>4 DEF LInv

(* Refused, a call gives up with EACCES at once or with EDEADLOCK after its
   last attempt, or goes to sleep. *)
LEMMA RefusedInv ==
  ASSUME L!RecordLocksAssumption, LInv, NEW h \in LockHandles, L!Refused(h)
  PROVE  LInv'
<1>0. /\ pc[h] = "trying" /\ held' = held /\ call' = call
      /\ attempt' = [attempt EXCEPT ![h] = @ + 1]
      /\ waits[h] = attempt[h] /\ attempt[h] < L!maximum(call[h].mode)
      /\ call[h].mode # "UNLCK"
  BY DEF LInv, Patience, L!Refused
<1>1. CASE /\ L!maximum(call[h].mode) = 1
           /\ L!Answer(h, L!Failure("EACCES")) /\ waits' = waits
  <2>1. ~Blocking(h) /\ attempt[h] = 0
    BY <1>0, <1>1 DEF LInv, LockTypes, Blocking, L!maximum, L!RecordLocksAssumption
  <2>2. LockTypes'
    BY <1>0, <1>1, AnswersFact DEF LInv, LockTypes, L!Answer
  <2>3. Patience'
    BY <1>0, <1>1 DEF LInv, LockTypes, Patience, Blocking, L!Answer
  <2>4. Answered'
    BY <1>0, <1>1, <2>1 DEF LInv, LockTypes, Answered, Blocking, L!Answer, L!Failure
  <2> QED BY <1>0, <2>2, <2>3, <2>4 DEF LInv, Disjoint
<1>2. CASE /\ L!maximum(call[h].mode) # 1
           /\ attempt[h] + 1 = L!maximum(call[h].mode)
           /\ L!Answer(h, L!Failure("EDEADLOCK")) /\ waits' = waits
  <2>1. Blocking(h) /\ attempt[h] + 1 = Attempts
    BY <1>2 DEF Blocking, L!maximum
  <2>2. LockTypes'
    BY <1>0, <1>2, AnswersFact DEF LInv, LockTypes, L!Answer
  <2>3. Patience'
    BY <1>0, <1>2 DEF LInv, LockTypes, Patience, Blocking, L!Answer
  <2>4. Answered'
    BY <1>0, <1>2, <2>1
    DEF LInv, LockTypes, Answered, Blocking, L!Answer, L!Failure, L!RecordLocksAssumption
  <2> QED BY <1>0, <2>2, <2>3, <2>4 DEF LInv, Disjoint
<1>3. CASE /\ L!maximum(call[h].mode) # 1
           /\ attempt[h] + 1 # L!maximum(call[h].mode)
           /\ pc' = [pc EXCEPT ![h] = "asleep"]
           /\ waits' = [waits EXCEPT ![h] = @ + 1] /\ answer' = answer
  <2>1. /\ Blocking(h) /\ L!maximum(call[h].mode) = Attempts
        /\ attempt[h] + 1 < Attempts
    <3>1. attempt[h] \in Nat /\ Attempts \in Nat
      BY DEF LInv, LockTypes, L!RecordLocksAssumption
    <3>2. Blocking(h) /\ L!maximum(call[h].mode) = Attempts
      BY <1>3 DEF Blocking, L!maximum
    <3> QED BY <1>0, <1>3, <3>1, <3>2
  <2>2. LockTypes'
    BY <1>0, <1>3 DEF LInv, LockTypes
  <2>3. Patience'
    BY <1>0, <1>3, <2>1 DEF LInv, LockTypes, Patience, Blocking, L!RecordLocksAssumption
  <2>4. Answered'
    BY <1>0, <1>3 DEF LInv, LockTypes, Answered, Blocking
  <2> QED BY <1>0, <2>2, <2>3, <2>4 DEF LInv, Disjoint
<1> QED BY <1>1, <1>2, <1>3 DEF L!Refused

LEMMA BrokenInv ==
  ASSUME LInv, NEW h \in LockHandles, L!Broken(h)
  PROVE  LInv'
<1>1. LockTypes'
  BY AnswersFact DEF LInv, LockTypes, L!Broken, L!Answer
<1>2. Disjoint'
  BY DEF LInv, Disjoint, L!Broken
<1>3. Patience'
  BY DEF LInv, LockTypes, Patience, Blocking, L!Broken, L!Answer
<1>4. Answered'
  BY DEF LInv, LockTypes, Patience, Answered, Blocking, L!Broken, L!Answer,
         L!Failure
<1> QED BY <1>1, <1>2, <1>3, <1>4 DEF LInv

LEMMA WakeInv ==
  ASSUME LInv, NEW h \in LockHandles, L!Wake(h)
  PROVE  LInv'
<1>1. LockTypes'
  BY DEF LInv, LockTypes, L!Wake
<1>2. Disjoint' /\ Patience' /\ Answered'
  BY DEF LInv, LockTypes, Disjoint, Patience, Answered, Blocking, L!Wake
<1> QED BY <1>1, <1>2 DEF LInv

(* A lock is had exactly when _locking says so, no byte is in two locks, and
   a call gives up after all its attempts and a wait between each two
   (src/ms_locking.c:60-74).  For any handles, regions and number of
   attempts; with one attempt a blocking mode would be refused with EACCES,
   the answer of the others. *)
THEOREM LocksAlwaysAnswered == FileSpec => []LockAnswered
<1> DEFINE Inv == about = "lock" => LInv
<1>0. L!RecordLocksAssumption
  BY FilesAssumption
<1>1. FileInit => Inv
  BY LockBegins DEF FileInit
<1>2. Inv /\ [FileNext]_<<about, fvars>> => Inv'
  <2>1. ASSUME LInv, L!Next PROVE LInv'
    BY <1>0, <2>1, LockingInv, UnlockInv, LockInv, RefusedInv, BrokenInv, WakeInv
    DEF L!Next
  <2>2. ASSUME LInv, UNCHANGED L!vars PROVE LInv'
    BY <2>2 DEF L!vars, LInv, LockTypes, Disjoint, Patience, Answered, Blocking
  <2>3. ASSUME FileNext, about = "lock" PROVE L!Next
    BY <2>3 DEF FileNext
  <2> HIDE DEF LInv
  <2> QED BY <2>1, <2>2, <2>3 DEF FileNext, fvars, lvars, L!vars
<1>3. LInv => L!LockAnswered
  <2> SUFFICES ASSUME LInv PROVE L!LockAnswered
    OBVIOUS
  <2>1. \A g, h \in LockHandles : \A a \in held[g], b \in held[h] :
          (g # h \/ a # b) => a \cap b = {}
    BY DEF LInv, Disjoint
  <2> QED BY <2>1 DEF LInv, LockTypes, Patience, Answered, Blocking, L!LockAnswered
<1>4. Inv => LockAnswered
  BY <1>3 DEF LockAnswered
<1> QED BY <1>1, <1>2, <1>4, PTL DEF FileSpec

-----------------------------------------------------------------------------
(* Command streams, of a program that runs one popen or pclose at a time: the
   inductive invariant. *)

CommandPlaces ==
  {"idle", "pipe", "seal", "start", "adopt", "record", "close", "wait", "clear"}

CommandTypes ==
  /\ entries \in [Slots -> [stream : Streams \union {NULL},
                            command : Commands \union {NULL}]]
  /\ stream \in [Streams -> Commands \union {NULL}] /\ given \subseteq Streams
  /\ thread \in [Threads -> [at : CommandPlaces, command : Commands \union {NULL},
                             slot : Slots \union {NULL},
                             stream : Streams \union {NULL}]]
  /\ inherited \in [Commands -> {NULL} \union {{<<"child", c>>} : c \in Commands}]
  /\ answers \in [Threads -> [asked : Commands \union {NULL},
                              got : Commands \union {NULL},
                              failed : BOOLEAN]]

(* A command is given its own end of its pipe and nothing else. *)
OwnEnd == \A c \in Commands : inherited[c] \in {NULL, {<<"child", c>>}}

Told ==
  \A t \in Threads :
    answers[t].got = IF answers[t].failed THEN NULL ELSE answers[t].asked

Open == {s \in Streams : stream[s] # NULL}

(* Two streams lead to two commands. *)
Paired == \A s, u \in Open : stream[s] = stream[u] => s = u

(* What the process holds for the streams that are open. *)
Kept == {<<"parent", stream[s]>> : s \in Open}
          \union {<<"process", stream[s]>> : s \in Open}

(* The slots of places record the streams given, each once. *)
Matched(places) ==
  /\ \A s \in given : \E i \in places :
       entries[i] = [stream |-> s, command |-> stream[s]]
  /\ \A i \in places : entries[i] = C!Free \/ entries[i].stream \in given
  /\ \A i, j \in places :
       entries[i] # C!Free /\ entries[i].stream = entries[j].stream => i = j

Rested ==
  given = Open /\ Matched(Slots) /\ handles = Kept /\ inheritable = {}

(* In popen before the command has a stream. *)
Beginning(t) ==
  /\ thread[t].command \in Commands
  /\ \A s \in Open : stream[s] # thread[t].command
  /\ thread[t].slot \in Slots /\ entries[thread[t].slot] = C!Free
  /\ given = Open /\ Matched(Slots)

(* In popen after that. *)
Recording(t) ==
  /\ thread[t].stream \in Open
  /\ stream[thread[t].stream] = thread[t].command
  /\ thread[t].slot \in Slots /\ entries[thread[t].slot] = C!Free
  /\ given = Open \ {thread[t].stream} /\ Matched(Slots)

(* In pclose before the stream is closed... *)
Closing(t) ==
  /\ thread[t].stream \in Open
  /\ stream[thread[t].stream] = thread[t].command
  /\ thread[t].slot \in Slots
  /\ entries[thread[t].slot]
       = [stream |-> thread[t].stream, command |-> thread[t].command]
  /\ given = Open \ {thread[t].stream} /\ Matched(Slots \ {thread[t].slot})

(* ...and after that. *)
Ending(t) ==
  /\ thread[t].command \in Commands
  /\ \A s \in Open : stream[s] # thread[t].command
  /\ thread[t].slot \in Slots
  /\ entries[thread[t].slot].command = thread[t].command
  /\ given = Open /\ Matched(Slots \ {thread[t].slot})

(* Where t stands, and what of its command the process holds. *)
Doing(t) ==
  LET c == thread[t].command IN
  \/ /\ C!At(t, "pipe") /\ Beginning(t)
     /\ handles = Kept /\ inheritable = {}
  \/ /\ C!At(t, "seal") /\ Beginning(t)
     /\ handles = Kept \union C!Ends(c) /\ inheritable = C!Ends(c)
  \/ /\ C!At(t, "start") /\ Beginning(t)
     /\ handles = Kept \union C!Ends(c) /\ inheritable = {<<"child", c>>}
  \/ /\ C!At(t, "adopt") /\ Beginning(t)
     /\ handles = Kept \union C!Ends(c) \union {<<"process", c>>, <<"thread", c>>}
     /\ inheritable = {<<"child", c>>}
  \/ C!At(t, "record") /\ Recording(t) /\ handles = Kept /\ inheritable = {}
  \/ C!At(t, "close") /\ Closing(t) /\ handles = Kept /\ inheritable = {}
  \/ /\ C!At(t, "wait") /\ Ending(t)
     /\ handles = Kept \union {<<"process", c>>} /\ inheritable = {}
  \/ C!At(t, "clear") /\ Ending(t) /\ handles = Kept /\ inheritable = {}

(* Nobody is in a call, or one thread is. *)
Situation ==
  \/ Rested /\ \A t \in Threads : thread[t] = C!Idle
  \/ \E t \in Threads : Doing(t) /\ \A u \in Threads \ {t} : thread[u] = C!Idle

CInv == CommandTypes /\ OwnEnd /\ Told /\ Paired /\ Situation

-----------------------------------------------------------------------------
LEMMA IdleFact == C!Idle.at = "idle"
BY DEF C!Idle

(* A thread in a call is alone... *)
LEMMA Busy ==
  ASSUME CInv, NEW t \in Threads, ~C!At(t, "idle")
  PROVE  Doing(t) /\ \A u \in Threads \ {t} : thread[u] = C!Idle
<1>1. thread[t] # C!Idle
  BY IdleFact DEF C!At
<1>2. PICK u \in Threads : Doing(u) /\ \A v \in Threads \ {u} : thread[v] = C!Idle
  BY <1>1 DEF CInv, Situation
<1>3. u = t
  BY <1>1, <1>2
<1> QED BY <1>2, <1>3

(* ...and so is one that begins a call. *)
LEMMA Resting ==
  ASSUME CInv, Alone, NEW t \in Threads, C!MayCall(t)
  PROVE  Rested /\ \A u \in Threads : thread[u] = C!Idle
<1>1. \A u \in Threads : C!At(u, "idle")
  BY DEF C!MayCall
<1>2. \A u \in Threads : ~Doing(u)
  BY <1>1 DEF Doing, C!At
<1> QED BY <1>2 DEF CInv, Situation

(* The thread moves, and keeps the rest of its record; or its call is over. *)
LEMMA CGotoFacts ==
  ASSUME CommandTypes, NEW t \in Threads, NEW place \in CommandPlaces,
         C!Goto(t, place)
  PROVE  /\ thread' \in [Threads -> [at : CommandPlaces,
                                     command : Commands \union {NULL},
                                     slot : Slots \union {NULL},
                                     stream : Streams \union {NULL}]]
         /\ thread'[t].at = place /\ thread'[t].command = thread[t].command
         /\ thread'[t].slot = thread[t].slot
         /\ thread'[t].stream = thread[t].stream
         /\ \A u \in Threads \ {t} : thread'[u] = thread[u]
BY DEF CommandTypes, C!Goto

LEMMA FailsFacts ==
  ASSUME CommandTypes, NEW t \in Threads, C!Fails(t)
  PROVE  /\ thread' \in [Threads -> [at : CommandPlaces,
                                     command : Commands \union {NULL},
                                     slot : Slots \union {NULL},
                                     stream : Streams \union {NULL}]]
         /\ thread'[t] = C!Idle
         /\ \A u \in Threads \ {t} : thread'[u] = thread[u]
<1>1. C!Idle \in [at : CommandPlaces, command : Commands \union {NULL},
                  slot : Slots \union {NULL}, stream : Streams \union {NULL}]
  BY DEF C!Idle, CommandPlaces
<1> QED BY <1>1 DEF CommandTypes, C!Fails

(* The scan for a slot finds one if there is one. *)
LEMMA SlotFound ==
  ASSUME C!CommandStreamsAssumption, NEW T \in SUBSET Slots, T # {}
  PROVE  C!Min(T) \in T
<1> DEFINE R == OpToRel(<, Nat)
<1>1. T \subseteq Nat
  BY DEF C!CommandStreamsAssumption
<1>2. \A x, y \in Nat : y < x => <<y, x>> \in R
  BY DEF OpToRel
<1>3. IsWellFoundedOn(R, Nat)
  BY NatLessThanWellFounded
<1> HIDE DEF R
<1>4. \E x \in T : \A y \in T : ~ (<<y, x>> \in R)
  BY <1>1, <1>3, WFMin
<1>5. PICK x \in T : \A y \in T : ~ (<<y, x>> \in R)
  BY <1>4
<1>6. ASSUME NEW y \in T PROVE x <= y
  <2>1. x \in Nat /\ y \in Nat /\ ~ (y < x)
    BY <1>1, <1>2, <1>5
  <2> QED BY <2>1
<1> QED BY <1>6 DEF C!Min

LEMMA CommandsBegin == C!CommandStreamsAssumption /\ C!Init => CInv
<1> SUFFICES ASSUME C!CommandStreamsAssumption, C!Init PROVE CInv
  OBVIOUS
<1>1. Open = {} /\ given = {}
  BY DEF C!Init, Open
<1>2. CommandTypes
  BY DEF C!Init, CommandTypes, C!Idle, C!Free, CommandPlaces
<1>3. OwnEnd /\ Told
  BY DEF C!Init, OwnEnd, Told
<1>4. Kept = {}
  BY <1>1 DEF Kept
<1>5. Matched(Slots)
  BY <1>1 DEF C!Init, Matched
<1>6. Rested /\ \A t \in Threads : thread[t] = C!Idle
  BY <1>1, <1>4, <1>5 DEF Rested, C!Init
<1> QED BY <1>1, <1>2, <1>3, <1>6 DEF CInv, Paired, Situation

(* Steps that leave the streams and the table alone. *)
LEMMA StreamsKept ==
  ASSUME CInv, UNCHANGED stream
  PROVE  Open' = Open /\ Kept' = Kept /\ Paired'
BY DEF CInv, Open, Kept, Paired

LEMMA BeginningKept ==
  ASSUME CInv, NEW t \in Threads, Beginning(t),
         UNCHANGED <<entries, stream, given>>,
         thread'[t].command = thread[t].command, thread'[t].slot = thread[t].slot
  PROVE  Beginning(t)'
<1>1. Open' = Open /\ Kept' = Kept
  BY StreamsKept
<1>2. \A places : Matched(places)' = Matched(places)
  BY DEF Matched
<1> QED BY <1>1, <1>2 DEF Beginning

(* No stream leads to the command yet, or any more. *)
LEMMA NotKept ==
  ASSUME NEW c, \A s \in Open : stream[s] # c
  PROVE  \A k : <<k, c>> \notin Kept
BY DEF Kept

LEMMA ChooseInv ==
  ASSUME C!CommandStreamsAssumption, Alone, CInv, NEW t \in Threads, C!Choose(t)
  PROVE  CInv'
<1>1. Rested /\ \A u \in Threads : thread[u] = C!Idle
  BY Resting DEF C!Choose
<1> DEFINE free == {slot \in Slots : entries[slot].stream = NULL}
           i == C!Min(free)
<1>2. PICK c \in Commands :
        /\ C!Unused(c) /\ free # {}
        /\ thread' = [thread EXCEPT ![t] = [at |-> "pipe", command |-> c, slot |-> i,
                                            stream |-> NULL]]
  BY DEF C!Choose
<1>3. UNCHANGED <<entries, handles, inheritable, inherited, stream, given, answers>>
  BY DEF C!Choose
<1>4. i \in free
  BY <1>2, SlotFound
<1> HIDE DEF i
<1>5. i \in Slots /\ entries[i] = C!Free
  BY <1>1, <1>4 DEF Rested, Matched, CInv, CommandTypes, C!CommandStreamsAssumption
<1>6. \A s \in Open : stream[s] # c
  <2>1. <<"parent", c>> \notin Kept
    BY <1>1, <1>2 DEF C!Unused, Rested
  <2> QED BY <2>1 DEF Kept
<1>7. /\ thread'[t] = [at |-> "pipe", command |-> c, slot |-> i, stream |-> NULL]
      /\ \A u \in Threads \ {t} : thread'[u] = C!Idle
      /\ thread' \in [Threads -> [at : CommandPlaces,
                                  command : Commands \union {NULL},
                                  slot : Slots \union {NULL},
                                  stream : Streams \union {NULL}]]
  <2>1. [at |-> "pipe", command |-> c, slot |-> i, stream |-> NULL]
          \in [at : CommandPlaces, command : Commands \union {NULL},
               slot : Slots \union {NULL}, stream : Streams \union {NULL}]
    BY <1>5 DEF CommandPlaces
  <2> QED BY <1>1, <1>2, <2>1 DEF CInv, CommandTypes
<1>8. CommandTypes' /\ OwnEnd' /\ Told' /\ Paired' /\ Open' = Open /\ Kept' = Kept
  BY <1>3, <1>7, StreamsKept DEF CInv, CommandTypes, OwnEnd, Told
<1>9. Doing(t)'
  <2>1. Matched(Slots)'
    BY <1>1, <1>3 DEF Rested, Matched
  <2>2. Beginning(t)'
    BY <1>1, <1>3, <1>5, <1>6, <1>7, <1>8, <2>1 DEF Beginning, Rested
  <2>3. C!At(t, "pipe")' /\ handles' = Kept' /\ inheritable' = {}
    BY <1>1, <1>3, <1>7, <1>8 DEF C!At, Rested
  <2> QED BY <2>2, <2>3 DEF Doing
<1> QED BY <1>7, <1>8, <1>9 DEF CInv, Situation

LEMMA CreatePipeInv ==
  ASSUME CInv, NEW t \in Threads, C!CreatePipe(t)
  PROVE  CInv'
<1>1. /\ Doing(t) /\ \A u \in Threads \ {t} : thread[u] = C!Idle
      /\ C!At(t, "pipe") /\ UNCHANGED <<entries, inherited, stream, given, answers>>
  BY Busy DEF C!CreatePipe, C!At
<1>2. Beginning(t) /\ handles = Kept /\ inheritable = {}
  BY <1>1 DEF Doing, C!At
<1>3. Open' = Open /\ Kept' = Kept /\ Paired'
  BY <1>1, StreamsKept
<1>4. OwnEnd' /\ Told'
  BY <1>1 DEF CInv, OwnEnd, Told
<1>5. CASE /\ C!Goto(t, "seal")
           /\ handles' = handles \cup C!Ends(thread[t].command)
           /\ inheritable' = inheritable \cup C!Ends(thread[t].command)
  <2>1. "seal" \in CommandPlaces
    BY DEF CommandPlaces
  <2>2. /\ thread'[t].at = "seal" /\ thread'[t].command = thread[t].command
        /\ thread'[t].slot = thread[t].slot
        /\ \A u \in Threads \ {t} : thread'[u] = C!Idle
        /\ CommandTypes'
    BY <1>1, <1>5, <2>1, CGotoFacts DEF CInv, CommandTypes
  <2>3. Beginning(t)'
    BY <1>1, <1>2, <2>2, BeginningKept
  <2>4. Doing(t)'
    BY <1>2, <1>3, <1>5, <2>2, <2>3 DEF Doing, C!At, C!Ends
  <2> QED BY <1>3, <1>4, <2>2, <2>4 DEF CInv, Situation
<1>6. CASE C!Fails(t) /\ UNCHANGED <<handles, inheritable>>
  <2>1. (\A u \in Threads : thread'[u] = C!Idle) /\ CommandTypes'
    BY <1>1, <1>6, FailsFacts DEF CInv, CommandTypes
  <2>2. Rested'
    BY <1>1, <1>2, <1>3, <1>6 DEF Beginning, Rested, Matched
  <2> QED BY <1>3, <1>4, <2>1, <2>2 DEF CInv, Situation
<1> QED BY <1>5, <1>6 DEF C!CreatePipe

LEMMA SealInv ==
  ASSUME CInv, NEW t \in Threads, C!SetHandleInformation(t)
  PROVE  CInv'
<1> DEFINE c == thread[t].command
<1>1. /\ Doing(t) /\ \A u \in Threads \ {t} : thread[u] = C!Idle
      /\ C!At(t, "seal") /\ UNCHANGED <<entries, inherited, stream, given, answers>>
  BY Busy DEF C!SetHandleInformation, C!At
<1>2. /\ Beginning(t) /\ handles = Kept \union C!Ends(c)
      /\ inheritable = C!Ends(c)
  BY <1>1 DEF Doing, C!At
<1>3. Open' = Open /\ Kept' = Kept /\ Paired'
  BY <1>1, StreamsKept
<1>4. OwnEnd' /\ Told'
  BY <1>1 DEF CInv, OwnEnd, Told
<1>5. CASE /\ inheritable' = inheritable \ {<<"parent", c>>}
           /\ handles' = handles /\ C!Goto(t, "start")
  <2>1. "start" \in CommandPlaces
    BY DEF CommandPlaces
  <2>2. /\ thread'[t].at = "start" /\ thread'[t].command = thread[t].command
        /\ thread'[t].slot = thread[t].slot
        /\ \A u \in Threads \ {t} : thread'[u] = C!Idle
        /\ CommandTypes'
    BY <1>1, <1>5, <2>1, CGotoFacts DEF CInv, CommandTypes
  <2>3. Beginning(t)'
    BY <1>1, <1>2, <2>2, BeginningKept
  <2>4. inheritable' = {<<"child", c>>}
    BY <1>2, <1>5 DEF C!Ends
  <2>5. Doing(t)'
    BY <1>2, <1>3, <1>5, <2>2, <2>3, <2>4 DEF Doing, C!At, C!Ends
  <2> QED BY <1>3, <1>4, <2>2, <2>5 DEF CInv, Situation
<1>6. CASE C!CloseHandles(C!Ends(c)) /\ C!Fails(t)
  <2>1. (\A u \in Threads : thread'[u] = C!Idle) /\ CommandTypes'
    BY <1>1, <1>6, FailsFacts DEF CInv, CommandTypes
  <2>2. handles' = Kept /\ inheritable' = {}
    <3>1. \A k : <<k, c>> \notin Kept
      BY <1>2, NotKept DEF Beginning
    <3> QED BY <1>2, <1>6, <3>1 DEF C!CloseHandles, C!Ends
  <2>3. Rested'
    BY <1>1, <1>2, <1>3, <2>2 DEF Beginning, Rested, Matched
  <2> QED BY <1>3, <1>4, <2>1, <2>3 DEF CInv, Situation
<1> QED BY <1>5, <1>6 DEF C!SetHandleInformation

(* A process is given what is inheritable when it begins: the child's end. *)
LEMMA CreateProcessInv ==
  ASSUME CInv, NEW t \in Threads, C!CreateProcess(t)
  PROVE  CInv'
<1> DEFINE c == thread[t].command
<1>1. /\ Doing(t) /\ \A u \in Threads \ {t} : thread[u] = C!Idle
      /\ C!At(t, "start") /\ UNCHANGED <<entries, stream, given, answers>>
  BY Busy DEF C!CreateProcess, C!At
<1>2. /\ Beginning(t) /\ handles = Kept \union C!Ends(c)
      /\ inheritable = {<<"child", c>>} /\ c \in Commands
  BY <1>1 DEF Doing, C!At, Beginning
<1>3. Open' = Open /\ Kept' = Kept /\ Paired' /\ Told'
  BY <1>1, StreamsKept DEF CInv, Told
<1>4. CASE /\ inherited' = [inherited EXCEPT ![c] = inheritable]
           /\ handles' = handles \cup {<<"process", c>>, <<"thread", c>>}
           /\ C!Goto(t, "adopt") /\ UNCHANGED inheritable
  <2>1. "adopt" \in CommandPlaces
    BY DEF CommandPlaces
  <2>2. OwnEnd' /\ inherited' \in [Commands ->
                      {NULL} \union {{<<"child", d>>} : d \in Commands}]
    BY <1>2, <1>4 DEF CInv, CommandTypes, OwnEnd
  <2>3. /\ thread'[t].at = "adopt" /\ thread'[t].command = thread[t].command
        /\ thread'[t].slot = thread[t].slot
        /\ \A u \in Threads \ {t} : thread'[u] = C!Idle
        /\ CommandTypes'
    BY <1>1, <1>4, <2>1, <2>2, CGotoFacts DEF CInv, CommandTypes
  <2>4. Beginning(t)'
    BY <1>1, <1>2, <2>3, BeginningKept
  <2>5. Doing(t)'
    BY <1>2, <1>3, <1>4, <2>3, <2>4 DEF Doing, C!At, C!Ends
  <2> QED BY <1>3, <2>2, <2>3, <2>5 DEF CInv, Situation
<1>5. CASE /\ C!CloseHandles(C!Ends(c)) /\ C!Fails(t) /\ UNCHANGED inherited
  <2>1. (\A u \in Threads : thread'[u] = C!Idle) /\ CommandTypes' /\ OwnEnd'
    BY <1>1, <1>5, FailsFacts DEF CInv, CommandTypes, OwnEnd
  <2>2. handles' = Kept /\ inheritable' = {}
    <3>1. \A k : <<k, c>> \notin Kept
      BY <1>2, NotKept DEF Beginning
    <3> QED BY <1>2, <1>5, <3>1 DEF C!CloseHandles, C!Ends
  <2>3. Rested'
    BY <1>1, <1>2, <1>3, <2>2 DEF Beginning, Rested, Matched
  <2> QED BY <1>3, <2>1, <2>3 DEF CInv, Situation
<1> QED BY <1>4, <1>5 DEF C!CreateProcess

LEMMA AdoptInv ==
  ASSUME C!CommandStreamsAssumption, CInv, NEW t \in Threads, C!Adopt(t)
  PROVE  CInv'
<1> DEFINE c == thread[t].command
           started == {<<"thread", c>>, <<"child", c>>}
<1>1. /\ Doing(t) /\ \A u \in Threads \ {t} : thread[u] = C!Idle
      /\ C!At(t, "adopt") /\ UNCHANGED <<entries, inherited, given, answers>>
  BY Busy DEF C!Adopt, C!At
<1>2. /\ Beginning(t) /\ c \in Commands
      /\ handles = Kept \union C!Ends(c) \union {<<"process", c>>, <<"thread", c>>}
      /\ inheritable = {<<"child", c>>}
  BY <1>1 DEF Doing, C!At, Beginning
<1>3. OwnEnd' /\ Told' /\ \A k : <<k, c>> \notin Kept
  BY <1>1, <1>2, NotKept DEF CInv, OwnEnd, Told, Beginning
<1>4. ASSUME NEW s \in Streams, stream[s] = NULL,
             stream' = [stream EXCEPT ![s] = c], C!CloseHandles(started),
             thread' = [thread EXCEPT ![t].at = "record", ![t].stream = s]
      PROVE  CInv'
  <2>1. /\ thread'[t].at = "record" /\ thread'[t].command = c
        /\ thread'[t].slot = thread[t].slot /\ thread'[t].stream = s
        /\ \A u \in Threads \ {t} : thread'[u] = C!Idle
        /\ thread' \in [Threads -> [at : CommandPlaces,
                                    command : Commands \union {NULL},
                                    slot : Slots \union {NULL},
                                    stream : Streams \union {NULL}]]
    <3> DEFINE moved == [thread EXCEPT ![t].at = "record"]
               type == [Threads -> [at : CommandPlaces,
                                    command : Commands \union {NULL},
                                    slot : Slots \union {NULL},
                                    stream : Streams \union {NULL}]]
    <3>1. /\ moved \in type /\ moved[t].at = "record" /\ moved[t].command = c
          /\ moved[t].slot = thread[t].slot
          /\ \A u \in Threads \ {t} : moved[u] = C!Idle
      BY <1>1 DEF CInv, CommandTypes, CommandPlaces
    <3>2. thread' = [moved EXCEPT ![t].stream = s]
      BY <1>4
    <3> HIDE DEF moved
    <3> QED BY <3>1, <3>2
  <2>2. /\ stream' \in [Streams -> Commands \union {NULL}] /\ stream'[s] = c
        /\ \A u \in Streams \ {s} : stream'[u] = stream[u]
        /\ c # NULL /\ s \notin Open
    BY <1>2, <1>4 DEF CInv, CommandTypes, C!CommandStreamsAssumption, Open
  <2>3. CommandTypes'
    BY <1>1, <2>1, <2>2 DEF CInv, CommandTypes
  <2>4. Open' = Open \union {s}
    BY <2>2 DEF Open
  <2>5. \A u \in Open : u # s /\ stream'[u] = stream[u] /\ stream[u] # c
    BY <1>2, <2>2 DEF Beginning, Open
  <2>6. Kept' = Kept \union {<<"parent", c>>, <<"process", c>>} /\ Paired'
    <3> HIDE DEF c
    <3>1. /\ {<<"parent", stream'[u]>> : u \in Open'}
               = {<<"parent", stream[u]>> : u \in Open} \union {<<"parent", c>>}
          /\ {<<"process", stream'[u]>> : u \in Open'}
               = {<<"process", stream[u]>> : u \in Open} \union {<<"process", c>>}
      BY <2>2, <2>4, <2>5
    <3>2. Kept' = Kept \union {<<"parent", c>>, <<"process", c>>}
      BY <3>1 DEF Kept
    <3>3. Paired'
      BY <2>2, <2>4, <2>5 DEF CInv, Paired
    <3> QED BY <3>2, <3>3
  <2>7. handles' = Kept' /\ inheritable' = {}
    BY <1>2, <1>3, <1>4, <2>6 DEF C!CloseHandles, C!Ends
  <2>8. Matched(Slots)'
    <3>1. \A u \in given : stream'[u] = stream[u]
      BY <1>2, <2>5 DEF Beginning
    <3> QED BY <1>1, <1>2, <3>1 DEF Beginning, Matched
  <2>9. Recording(t)'
    BY <1>1, <1>2, <2>1, <2>2, <2>4, <2>8 DEF Beginning, Recording
  <2>10. Doing(t)'
    BY <2>1, <2>7, <2>9 DEF Doing, C!At
  <2> QED BY <1>3, <2>1, <2>3, <2>6, <2>10 DEF CInv, Situation
<1>5. CASE /\ C!CloseHandles(started \cup {<<"parent", c>>, <<"process", c>>})
           /\ C!Fails(t) /\ UNCHANGED stream
  <2>1. (\A u \in Threads : thread'[u] = C!Idle) /\ CommandTypes'
    BY <1>1, <1>5, FailsFacts DEF CInv, CommandTypes
  <2>2. Open' = Open /\ Kept' = Kept /\ Paired'
    BY <1>5, StreamsKept
  <2>3. handles' = Kept /\ inheritable' = {}
    BY <1>2, <1>3, <1>5 DEF C!CloseHandles, C!Ends
  <2>4. Rested'
    BY <1>1, <1>2, <1>5, <2>2, <2>3 DEF Beginning, Rested, Matched
  <2> QED BY <1>3, <2>1, <2>2, <2>4 DEF CInv, Situation
<1> QED BY <1>4, <1>5 DEF C!Adopt

LEMMA RecordInv ==
  ASSUME C!CommandStreamsAssumption, CInv, NEW t \in Threads, C!Record(t)
  PROVE  CInv'
<1> DEFINE s == thread[t].stream
           c == thread[t].command
           i == thread[t].slot
<1>1. /\ Doing(t) /\ \A u \in Threads \ {t} : thread[u] = C!Idle
      /\ C!At(t, "record") /\ C!Fails(t)
      /\ UNCHANGED <<handles, inheritable, inherited, stream, answers>>
      /\ entries' = [entries EXCEPT ![i] = [stream |-> s, command |-> c]]
      /\ given' = given \cup {s}
  BY Busy DEF C!Record, C!At
<1>2. Recording(t) /\ handles = Kept /\ inheritable = {}
  BY <1>1 DEF Doing, C!At
<1>3. Open' = Open /\ Kept' = Kept /\ Paired' /\ Told' /\ OwnEnd'
  BY <1>1, StreamsKept DEF CInv, Told, OwnEnd
<1>4. \A u \in Threads : thread'[u] = C!Idle
  BY <1>1, FailsFacts DEF CInv
<1>5. /\ s \in Streams /\ i \in Slots /\ c \in Commands /\ s \notin given
      /\ entries'[i] = [stream |-> s, command |-> stream[s]]
      /\ \A j \in Slots \ {i} : entries'[j] = entries[j]
      /\ entries' \in [Slots -> [stream : Streams \union {NULL},
                                 command : Commands \union {NULL}]]
  <2>1. [stream |-> s, command |-> c]
          \in [stream : Streams \union {NULL}, command : Commands \union {NULL}]
    BY DEF CInv, CommandTypes
  <2> QED BY <1>1, <1>2, <2>1 DEF Recording, Open, CInv, CommandTypes
<1>6. CommandTypes'
  BY <1>1, <1>5, FailsFacts DEF CInv, CommandTypes
<1>7. given' = Open
  BY <1>1, <1>2 DEF Recording
<1>8. Matched(Slots)'
  <2>1. \A u \in given' : \E j \in Slots :
          entries'[j] = [stream |-> u, command |-> stream[u]]
    <3>1. ASSUME NEW u \in given
          PROVE  \E j \in Slots \ {i} : entries[j] = [stream |-> u, command |-> stream[u]]
      <4>1. PICK j \in Slots : entries[j] = [stream |-> u, command |-> stream[u]]
        BY <1>2, <3>1 DEF Recording, Matched
      <4>2. u # NULL
        BY <3>1 DEF CInv, CommandTypes, C!CommandStreamsAssumption
      <4>3. j # i
        BY <1>2, <4>1, <4>2 DEF Recording, C!Free
      <4> QED BY <4>1, <4>3
    <3> QED BY <1>1, <1>5, <3>1
  <2>2. \A j \in Slots : entries'[j] = C!Free \/ entries'[j].stream \in given'
    BY <1>1, <1>2, <1>5 DEF Recording, Matched
  <2>3. \A j, k \in Slots :
          entries'[j] # C!Free /\ entries'[j].stream = entries'[k].stream => j = k
    <3>1. \A j \in Slots \ {i} : entries[j].stream # s
      <4>1. s # NULL
        BY <1>5 DEF C!CommandStreamsAssumption
      <4> QED BY <1>2, <1>5, <4>1 DEF Recording, Matched, C!Free
    <3> QED BY <1>2, <1>5, <3>1 DEF Recording, Matched
  <2> QED BY <1>1, <2>1, <2>2, <2>3 DEF Matched
<1>9. Rested'
  BY <1>1, <1>2, <1>3, <1>7, <1>8 DEF Rested
<1> QED BY <1>3, <1>4, <1>6, <1>9 DEF CInv, Situation

(* pclose finds the entry of a stream the program has, and no other. *)
LEMMA FindInv ==
  ASSUME C!CommandStreamsAssumption, Alone, CInv, NEW t \in Threads, C!Find(t)
  PROVE  CInv'
<1>1. /\ Rested /\ \A u \in Threads : thread[u] = C!Idle
      /\ UNCHANGED <<entries, handles, inheritable, inherited, stream>>
  BY Resting DEF C!Find
<1>2. PICK s \in given :
        LET places == {slot \in Slots : entries[slot].stream = s}
        IN /\ given' = given \ {s}
           /\ IF places = {}
              THEN /\ answers' = [answers EXCEPT ![t] = [asked |-> stream[s], got |-> NULL,
                                                         failed |-> FALSE]]
                   /\ UNCHANGED thread
              ELSE /\ thread' = [thread EXCEPT ![t] = [at |-> "close", command |-> stream[s],
                                                       slot |-> C!Min(places), stream |-> s]]
                   /\ UNCHANGED answers
  BY DEF C!Find
<1> DEFINE places == {slot \in Slots : entries[slot].stream = s}
           i == C!Min(places)
           new == [at |-> "close", command |-> stream[s], slot |-> i, stream |-> s]
<1>3. PICK j \in Slots : entries[j] = [stream |-> s, command |-> stream[s]]
  BY <1>1, <1>2 DEF Rested, Matched
<1>4. s \in Streams /\ s \in Open /\ s # NULL /\ stream[s] \in Commands
  BY <1>1, <1>2 DEF Rested, Open, CInv, CommandTypes, C!CommandStreamsAssumption
<1>5. places # {} /\ i \in places
  BY <1>3, SlotFound
<1>6. given' = given \ {s} /\ thread' = [thread EXCEPT ![t] = new] /\ answers' = answers
  BY <1>2, <1>5
<1>7. i = j /\ i \in Slots
  BY <1>1, <1>3, <1>4, <1>5 DEF Rested, Matched, C!Free
<1> HIDE DEF i
<1>8. /\ thread'[t] = new /\ \A u \in Threads \ {t} : thread'[u] = C!Idle
      /\ CommandTypes'
  <2>1. new \in [at : CommandPlaces, command : Commands \union {NULL},
                 slot : Slots \union {NULL}, stream : Streams \union {NULL}]
    BY <1>4, <1>7 DEF CommandPlaces
  <2> HIDE DEF new
  <2> QED BY <1>1, <1>6, <2>1 DEF CInv, CommandTypes
<1>9. Open' = Open /\ Kept' = Kept /\ Paired' /\ OwnEnd' /\ Told'
  BY <1>1, <1>6, StreamsKept DEF CInv, OwnEnd, Told
<1>8a. /\ thread'[t].at = "close" /\ thread'[t].command = stream[s]
       /\ thread'[t].slot = i /\ thread'[t].stream = s
  BY <1>8
<1>10. Matched(Slots \ {thread[t].slot})'
  <2>1. \A u \in given \ {s} : \E k \in Slots \ {i} :
          entries[k] = [stream |-> u, command |-> stream[u]]
    <3>1. ASSUME NEW u \in given \ {s}
          PROVE  \E k \in Slots \ {i} : entries[k] = [stream |-> u, command |-> stream[u]]
      <4>1. PICK k \in Slots : entries[k] = [stream |-> u, command |-> stream[u]]
        BY <1>1 DEF Rested, Matched
      <4>2. k # i
        BY <1>3, <1>7, <4>1
      <4> QED BY <4>1, <4>2
    <3> QED BY <3>1
  <2>2. \A k \in Slots \ {i} : entries[k].stream # s
    BY <1>1, <1>3, <1>4, <1>7 DEF Rested, Matched, C!Free
  <2>3. \A k \in Slots \ {i} : entries[k] = C!Free \/ entries[k].stream \in given \ {s}
    BY <1>1, <2>2 DEF Rested, Matched
  <2>4. \A k, l \in Slots \ {i} :
          entries[k] # C!Free /\ entries[k].stream = entries[l].stream => k = l
    BY <1>1 DEF Rested, Matched
  <2> QED BY <1>1, <1>6, <1>8a, <2>1, <2>3, <2>4 DEF Matched
<1>11. Doing(t)'
  <2>1. Closing(t)'
    BY <1>1, <1>3, <1>4, <1>6, <1>7, <1>8a, <1>9, <1>10 DEF Rested, Closing
  <2> QED BY <1>1, <1>8a, <1>9, <2>1 DEF Rested, Doing, C!At
<1> QED BY <1>8, <1>9, <1>11 DEF CInv, Situation

LEMMA FcloseInv ==
  ASSUME C!CommandStreamsAssumption, CInv, NEW t \in Threads, C!Fclose(t)
  PROVE  CInv'
<1> DEFINE s == thread[t].stream
           c == thread[t].command
           i == thread[t].slot
<1>1. /\ Doing(t) /\ \A u \in Threads \ {t} : thread[u] = C!Idle
      /\ C!At(t, "close") /\ C!Goto(t, "wait")
      /\ UNCHANGED <<entries, inherited, given, answers>>
      /\ C!CloseHandles({<<"parent", stream[s]>>})
      /\ stream' = [stream EXCEPT ![s] = NULL]
  BY Busy DEF C!Fclose, C!At
<1>2. Closing(t) /\ handles = Kept /\ inheritable = {}
  BY <1>1 DEF Doing, C!At
<1>3. /\ s \in Open /\ s \in Streams /\ stream[s] = c /\ c \in Commands
      /\ i \in Slots /\ entries[i] = [stream |-> s, command |-> c]
      /\ given = Open \ {s} /\ Matched(Slots \ {i})
  BY <1>2 DEF Closing, Open, CInv, CommandTypes
<1>4. /\ thread'[t].at = "wait" /\ thread'[t].command = c
      /\ thread'[t].slot = i
      /\ \A u \in Threads \ {t} : thread'[u] = C!Idle
      /\ CommandTypes'
  <2>1. "wait" \in CommandPlaces
    BY DEF CommandPlaces
  <2>2. stream' \in [Streams -> Commands \union {NULL}]
    BY <1>1 DEF CInv, CommandTypes
  <2> QED BY <1>1, <2>1, <2>2, CGotoFacts DEF CInv, CommandTypes
<1> HIDE DEF s, c, i
<1>5. /\ stream'[s] = NULL /\ \A u \in Streams \ {s} : stream'[u] = stream[u]
      /\ Open' = Open \ {s}
  BY <1>1, <1>3 DEF CInv, CommandTypes, Open
<1>6. \A u \in Open \ {s} : stream'[u] = stream[u] /\ stream[u] # c
  <2>1. Open \ {s} \subseteq Streams \ {s}
    BY DEF Open
  <2> QED BY <1>3, <1>5, <2>1 DEF CInv, Paired
<1>7. Paired' /\ OwnEnd' /\ Told'
  BY <1>1, <1>5, <1>6 DEF CInv, Paired, OwnEnd, Told
<1>8. handles' = Kept' \union {<<"process", c>>} /\ inheritable' = {}
  <2>1. /\ {<<"parent", stream'[u]>> : u \in Open'}
             = {<<"parent", stream[u]>> : u \in Open} \ {<<"parent", c>>}
        /\ {<<"process", stream'[u]>> : u \in Open'} \union {<<"process", c>>}
             = {<<"process", stream[u]>> : u \in Open}
    BY <1>3, <1>5, <1>6
  <2>2. <<"parent", c>> \notin {<<"process", stream[u]>> : u \in Open}
    OBVIOUS
  <2> QED BY <1>1, <1>2, <1>3, <2>1, <2>2 DEF C!CloseHandles, Kept
<1>9. Matched(Slots \ {thread[t].slot})'
  <2>1. \A u \in given : stream'[u] = stream[u]
    BY <1>3, <1>6
  <2>2. \A u \in given : \E k \in Slots \ {i} :
          entries[k] = [stream |-> u, command |-> stream'[u]]
    BY <1>3, <2>1 DEF Matched
  <2> QED BY <1>1, <1>3, <1>4, <2>2 DEF Matched
<1>10. Ending(t)'
  <2>1. \A u \in Open' : stream'[u] # c
    BY <1>5, <1>6
  <2>2. entries'[i].command = c
    BY <1>1, <1>3
  <2> QED BY <1>1, <1>3, <1>4, <1>5, <1>9, <2>1, <2>2 DEF Ending
<1>11. Doing(t)'
  BY <1>4, <1>8, <1>10 DEF Doing, C!At
<1> QED BY <1>4, <1>7, <1>11 DEF CInv, Situation

(* The process of the entry is that of the stream asked for, and is there. *)
LEMMA WaitInv ==
  ASSUME CInv, NEW t \in Threads, C!Wait(t)
  PROVE  CInv'
<1> DEFINE c == thread[t].command
           i == thread[t].slot
           d == entries[i].command
<1>1. /\ Doing(t) /\ \A u \in Threads \ {t} : thread[u] = C!Idle
      /\ C!At(t, "wait") /\ C!Goto(t, "clear")
      /\ UNCHANGED <<entries, inherited, stream, given>>
      /\ \E got \in {NULL, IF <<"process", d>> \in handles THEN d ELSE NULL},
              failed \in BOOLEAN :
           /\ failed => got = NULL
           /\ ~failed => got = IF <<"process", d>> \in handles THEN d ELSE NULL
           /\ answers' = [answers EXCEPT ![t] = [asked |-> c, got |-> got,
                                                 failed |-> failed]]
      /\ C!CloseHandles({<<"process", d>>})
  BY Busy DEF C!Wait, C!At
<1>2. /\ Ending(t) /\ handles = Kept \union {<<"process", c>>}
      /\ inheritable = {}
  BY <1>1 DEF Doing, C!At
<1>3. d = c /\ c \in Commands /\ \A s \in Open : stream[s] # c
  BY <1>2 DEF Ending
<1>4. /\ thread'[t].at = "clear" /\ thread'[t].command = c
      /\ thread'[t].slot = i
      /\ \A u \in Threads \ {t} : thread'[u] = C!Idle
      /\ CommandTypes' /\ Told'
  <2>1. "clear" \in CommandPlaces
    BY DEF CommandPlaces
  <2>2. PICK failed \in BOOLEAN :
          answers' = [answers EXCEPT
            ![t] = [asked |-> c, got |-> IF failed THEN NULL ELSE c,
                    failed |-> failed]]
    BY <1>1, <1>2, <1>3
  <2>3. answers' \in [Threads -> [asked : Commands \union {NULL},
                                  got : Commands \union {NULL},
                                  failed : BOOLEAN]] /\ Told'
    BY <1>3, <2>2 DEF CInv, CommandTypes, Told
  <2> QED BY <1>1, <2>1, <2>3, CGotoFacts DEF CInv, CommandTypes
<1>5. Open' = Open /\ Kept' = Kept /\ Paired' /\ OwnEnd'
  BY <1>1, StreamsKept DEF CInv, OwnEnd
<1>6. handles' = Kept /\ inheritable' = {}
  <2>1. \A k : <<k, c>> \notin Kept
    BY <1>3, NotKept
  <2> QED BY <1>1, <1>2, <1>3, <2>1 DEF C!CloseHandles
<1>7. Ending(t)'
  BY <1>1, <1>2, <1>4, <1>5 DEF Ending, Matched
<1>8. Doing(t)'
  BY <1>4, <1>5, <1>6, <1>7 DEF Doing, C!At
<1> QED BY <1>4, <1>5, <1>8 DEF CInv, Situation

LEMMA ClearInv ==
  ASSUME C!CommandStreamsAssumption, CInv, NEW t \in Threads, C!Clear(t)
  PROVE  CInv'
<1> DEFINE i == thread[t].slot
<1>1. /\ Doing(t) /\ \A u \in Threads \ {t} : thread[u] = C!Idle
      /\ C!At(t, "clear") /\ C!Fails(t)
      /\ UNCHANGED <<handles, inheritable, inherited, stream, given, answers>>
      /\ entries' = [entries EXCEPT ![i] = C!Free]
  BY Busy DEF C!Clear, C!At
<1>2. Ending(t) /\ handles = Kept /\ inheritable = {}
  BY <1>1 DEF Doing, C!At
<1>3. Open' = Open /\ Kept' = Kept /\ Paired' /\ Told' /\ OwnEnd'
  BY <1>1, StreamsKept DEF CInv, Told, OwnEnd
<1>4. /\ i \in Slots /\ entries'[i] = C!Free
      /\ \A j \in Slots \ {i} : entries'[j] = entries[j]
      /\ entries' \in [Slots -> [stream : Streams \union {NULL},
                                 command : Commands \union {NULL}]]
  <2>1. C!Free \in [stream : Streams \union {NULL}, command : Commands \union {NULL}]
    BY DEF C!Free
  <2> QED BY <1>1, <1>2, <2>1 DEF Ending, CInv, CommandTypes
<1>5. (\A u \in Threads : thread'[u] = C!Idle) /\ CommandTypes'
  BY <1>1, <1>4, FailsFacts DEF CInv, CommandTypes
<1>6. Matched(Slots)'
  <2>1. given \subseteq Streams /\ Matched(Slots \ {i})
    BY <1>2 DEF Ending, CInv, CommandTypes
  <2>2. \A u \in given : \E j \in Slots :
          entries'[j] = [stream |-> u, command |-> stream[u]]
    BY <1>4, <2>1 DEF Matched
  <2>3. \A j \in Slots : entries'[j] = C!Free \/ entries'[j].stream \in given
    BY <1>4, <2>1 DEF Matched
  <2>4. \A j, k \in Slots :
          entries'[j] # C!Free /\ entries'[j].stream = entries'[k].stream => j = k
    <3> SUFFICES ASSUME NEW j \in Slots, NEW k \in Slots, entries'[j] # C!Free,
                        entries'[j].stream = entries'[k].stream
                 PROVE  j = k
      OBVIOUS
    <3>1. j # i /\ entries'[j].stream # NULL
      BY <1>4, <2>1, <2>3 DEF C!CommandStreamsAssumption
    <3>2. k # i
      BY <1>4, <3>1 DEF C!Free
    <3> QED BY <1>4, <2>1, <3>1, <3>2 DEF Matched
  <2> QED BY <1>1, <2>2, <2>3, <2>4 DEF Matched
<1>7. Rested'
  BY <1>1, <1>2, <1>3, <1>6 DEF Ending, Rested
<1> QED BY <1>3, <1>5, <1>7 DEF CInv, Situation

LEMMA ExitInv ==
  ASSUME CInv, NEW c \in Commands, C!Exit(c)
  PROVE  CInv'
<1>1. /\ UNCHANGED <<entries, handles, inheritable, stream, given, thread, answers>>
      /\ inherited' = [inherited EXCEPT ![c] = NULL]
  BY DEF C!Exit
<1>2. CommandTypes' /\ OwnEnd' /\ Told' /\ Paired'
  BY <1>1 DEF CInv, CommandTypes, OwnEnd, Told, Paired, Open
<1>3. Open' = Open /\ Kept' = Kept /\ \A places : Matched(places)' = Matched(places)
  BY <1>1, StreamsKept DEF Matched
<1>4. Rested' = Rested
  BY <1>1, <1>3 DEF Rested
<1>5. \A t \in Threads : Doing(t) => Doing(t)'
  <2> SUFFICES ASSUME NEW t \in Threads, Doing(t) PROVE Doing(t)'
    OBVIOUS
  <2>1. /\ Beginning(t) => Beginning(t)'
        /\ Recording(t) => Recording(t)'
        /\ Closing(t) => Closing(t)'
        /\ Ending(t) => Ending(t)'
    BY <1>1, <1>3 DEF Beginning, Recording, Closing, Ending
  <2> QED BY <1>1, <1>3, <2>1 DEF Doing, C!At
<1>6. Situation'
  BY <1>1, <1>4, <1>5 DEF CInv, Situation
<1> QED BY <1>2, <1>6 DEF CInv

LEMMA CommandsStep ==
  ASSUME C!CommandStreamsAssumption, Alone, CInv, [C!Next]_(C!vars)
  PROVE  CInv'
<1>1. CASE C!Next
  <2>1. ASSUME NEW t \in Threads, C!Step(t) PROVE CInv'
    BY <2>1, ChooseInv, CreatePipeInv, SealInv, CreateProcessInv, AdoptInv,
       RecordInv, FindInv, FcloseInv, WaitInv, ClearInv DEF C!Step
  <2> QED BY <1>1, <2>1, ExitInv DEF C!Next
<1>2. CASE UNCHANGED C!vars
  <2>1. /\ UNCHANGED <<entries, handles, inheritable, inherited, stream, given>>
        /\ UNCHANGED <<thread, answers>>
    BY <1>2 DEF C!vars
  <2>2. CommandTypes' /\ OwnEnd' /\ Told'
    BY <2>1 DEF CInv, CommandTypes, OwnEnd, Told
  <2>3. Open' = Open /\ Kept' = Kept /\ Paired' /\ \A places : Matched(places)' = Matched(places)
    BY <2>1, StreamsKept DEF Matched
  <2>4. Rested' = Rested
    BY <2>1, <2>3 DEF Rested
  <2>5. \A t \in Threads : Doing(t) => Doing(t)'
    <3> SUFFICES ASSUME NEW t \in Threads, Doing(t) PROVE Doing(t)'
      OBVIOUS
    <3>1. /\ Beginning(t) => Beginning(t)'
          /\ Recording(t) => Recording(t)'
          /\ Closing(t) => Closing(t)'
          /\ Ending(t) => Ending(t)'
      BY <2>1, <2>3 DEF Beginning, Recording, Closing, Ending
    <3> QED BY <2>1, <2>3, <3>1 DEF Doing, C!At
  <2> QED BY <2>1, <2>2, <2>3, <2>4, <2>5 DEF CInv, Situation
<1> QED BY <1>1, <1>2

(* At rest the table has one entry for each stream given. *)
LEMMA OneEntryEach ==
  ASSUME C!CommandStreamsAssumption, CInv, Rested
  PROVE  C!Cardinality({slot \in Slots : entries[slot] # C!Free})
           = C!Cardinality(given)
<1> DEFINE taken == {slot \in Slots : entries[slot] # C!Free}
           f == [i \in taken |-> entries[i].stream]
<1>1. IsFiniteSet(taken)
  <2>1. IsFiniteSet(Slots)
    BY DEF C!CommandStreamsAssumption, IsFiniteSet, C!IsFiniteSet
  <2> QED BY <2>1, FS_Subset
<1>2. f \in [taken -> given]
  BY DEF Rested, Matched
<1>3. \A i, j \in taken : f[i] = f[j] => i = j
  BY DEF Rested, Matched
<1>4. \A s \in given : \E i \in taken : f[i] = s
  <2> SUFFICES ASSUME NEW s \in given PROVE \E i \in taken : f[i] = s
    OBVIOUS
  <2>1. PICK i \in Slots : entries[i] = [stream |-> s, command |-> stream[s]]
    BY DEF Rested, Matched
  <2>2. s # NULL
    BY DEF CInv, CommandTypes, C!CommandStreamsAssumption
  <2>3. i \in taken
    BY <2>1, <2>2 DEF C!Free
  <2> QED BY <2>1, <2>3
<1> HIDE DEF f
<1>5. f \in Bijection(taken, given)
  BY <1>2, <1>3, <1>4 DEF Bijection, Injection, Surjection, IsInjective
<1>6. Cardinality(given) = Cardinality(taken)
  BY <1>1, <1>5, FS_Bijection DEF ExistsBijection
<1> QED BY <1>6 DEF Cardinality, C!Cardinality

(* Each stream popen gave leads to its own command, whose exit code pclose
   returns unless its wait, its query or a closing fails, when it returns -1;
   between calls the table, the streams and the handles agree, whatever has
   failed before, in popen or in pclose; and a command never holds an end of
   another one's pipe (src/platform/windows/popen.c).  For any threads, commands and
   streams, of a program that runs one popen or pclose at a time: otherwise
   a command may be given the ends of another one's pipe, as TLC finds. *)
THEOREM CommandsAlwaysAnswered ==
  ASSUME Alone
  PROVE  FileSpec => []CommandsAnswered
<1> DEFINE Inv == about = "command" => CInv
<1>0. C!CommandStreamsAssumption
  BY FilesAssumption
<1>1. FileInit => Inv
  BY <1>0, CommandsBegin DEF FileInit
<1>2. Inv /\ [FileNext]_<<about, fvars>> => Inv'
  <2>1. CInv /\ [C!Next]_(C!vars) => CInv'
    BY <1>0, CommandsStep
  <2>2. ASSUME FileNext, about = "command" PROVE C!Next
    BY <2>2 DEF FileNext
  <2> QED BY <2>1, <2>2 DEF FileNext, fvars, cvars, C!vars
<1>3. ASSUME CInv PROVE C!CommandsOwned /\ C!CommandsAnswered
  <2>1. C!CommandsAnswered
    BY <1>3 DEF CInv, Told, C!CommandsAnswered
  <2>2. \A c \in C!Running : inherited[c] = {<<"child", c>>}
    BY <1>3 DEF CInv, OwnEnd, C!Running
  <2>3. ASSUME C!Quiet PROVE Rested
    <3>1. \A t \in Threads : ~Doing(t)
      BY <2>3 DEF C!Quiet, Doing, C!At
    <3> QED BY <1>3, <3>1 DEF CInv, Situation
  <2>4. ASSUME Rested
        PROVE  /\ \A s \in given : \E slot \in Slots :
                    entries[slot] = [stream |-> s, command |-> stream[s]]
               /\ given = {s \in Streams : stream[s] # NULL}
               /\ handles = {<<"parent", stream[s]>> : s \in given}
                              \cup {<<"process", stream[s]>> : s \in given}
    BY <2>4 DEF Rested, Matched, Kept, Open
  <2>5. C!CommandsOwned
    BY <1>0, <1>3, <2>2, <2>3, <2>4, OneEntryEach DEF C!CommandsOwned
  <2> QED BY <2>1, <2>5
<1>4. Inv => CommandsAnswered
  BY <1>3 DEF CommandsAnswered
<1> QED BY <1>1, <1>2, <1>4, PTL DEF FileSpec


-----------------------------------------------------------------------------
(* Searches: the inductive invariant. *)

Entries == S!ToSet(Directory)

(* What is left of the directory from its entry k on. *)
Left(k) == SubSeq(Directory, k, Len(Directory))

SearchTypes ==
  /\ wcrt_searches \in Seq(SearchHandles)
  /\ native \in [SearchHandles -> {Left(k) : k \in 1..Len(Directory) + 1} \union {NULL}]
  /\ told \in [SearchHandles -> Seq(Entries \union {NULL})]

Listed == {wcrt_searches[i] : i \in 1..Len(wcrt_searches)}

(* Windows has open what the list holds, each once, and the program's own. *)
ListExact ==
  /\ \A i, j \in 1..Len(wcrt_searches) :
       wcrt_searches[i] = wcrt_searches[j] => i = j
  /\ \A h \in SearchHandles : native[h] # NULL <=> h \in Listed \union {Foreign}
  /\ Foreign \notin Listed /\ native[Foreign] = Directory

(* What a search has told, it has taken from the directory in order. *)
ToldOf(entry, what) ==
  IF what = NULL THEN S!wcrt_find_error(entry, "narrow") # "0"
  ELSE what = entry /\ S!wcrt_find_error(entry, "wide") = "0"

Delivered(h) ==
  /\ Len(told[h]) \in 1..Len(Directory) /\ native[h] = Left(Len(told[h]) + 1)
  /\ \A k \in 1..Len(told[h]) : ToldOf(Directory[k], told[h][k])

RecordExact ==
  IF errno # "0" THEN record \in {S!Zero, S!Before}
  ELSE record # S!Before => \E h \in Listed :
         /\ told[h] # <<>> /\ told[h][Len(told[h])] # NULL
         /\ record = S!wcrt_find_record(told[h][Len(told[h])])

SInv ==
  SearchTypes /\ ListExact /\ (\A h \in Listed : Delivered(h)) /\ RecordExact

-----------------------------------------------------------------------------
LEMMA LeftFacts ==
  ASSUME S!SearchesAssumption, NEW k \in 1..Len(Directory) + 1
  PROVE  /\ Directory \in Seq(Entries) /\ Len(Directory) \in Nat \ {0}
         /\ Left(k) \in Seq(Entries) /\ Len(Left(k)) = Len(Directory) + 1 - k
         /\ Left(k) # NULL
         /\ k <= Len(Directory) =>
              /\ Left(k) # <<>> /\ Head(Left(k)) = Directory[k]
              /\ Tail(Left(k)) = Left(k + 1)
              /\ Directory[k] \in Entries /\ Directory[k] # NULL
<1>1. /\ Directory \in Seq(Entries) /\ Directory # <<>> /\ NULL \notin Entries
      /\ \A j \in 1..Len(Directory) + 1 : Left(j) # NULL
  BY DEF S!SearchesAssumption, Entries, Left
<1> HIDE DEF Entries
<1>2. Len(Directory) \in Nat \ {0}
  BY <1>1, EmptySeq
<1>3. /\ \A j \in 1..Len(Directory) : Directory[j] \in Entries
      /\ \A j \in k..Len(Directory) : Directory[j] \in Entries
  BY <1>1, <1>2, ElementOfSeq
<1>4. Left(k) \in Seq(Entries) /\ Len(Left(k)) = Len(Directory) + 1 - k
  BY <1>2, <1>3, SubSeqProperties DEF Left
<1>5. ASSUME k <= Len(Directory)
      PROVE  /\ Left(k) # <<>> /\ Head(Left(k)) = Directory[k]
             /\ Tail(Left(k)) = Left(k + 1)
  <2>1. k \in 1..Len(Directory) /\ Len(Directory) \in k..Len(Directory)
    BY <1>2, <1>5
  <2>2. Head(Left(k)) = Directory[k] /\ Tail(Left(k)) = Left(k + 1)
    BY <1>1, <2>1, HeadTailOfSubSeq DEF Left
  <2>3. Len(Left(k)) # 0
    BY <1>2, <1>4, <1>5
  <2> QED BY <2>2, <2>3, EmptySeq
<1> QED BY <1>1, <1>2, <1>3, <1>4, <1>5

LEMMA WholeDirectory ==
  ASSUME S!SearchesAssumption
  PROVE  Left(1) = Directory
BY SubSeqFull DEF S!SearchesAssumption, Left

(* An error of a narrow record or none of it: a record that fits 32 bits fits
   64. *)
LEMMA ErrorFacts ==
  ASSUME NEW entry, NEW kind \in S!Pairs
  PROVE  /\ S!wcrt_find_error(entry, kind) = "0"
              => S!wcrt_find_error(entry, "wide") = "0"
         /\ S!wcrt_find_error(entry, kind) # "0"
              => S!wcrt_find_error(entry, "narrow") # "0"
BY DEF S!wcrt_find_error, S!Pairs

(* A handle put before the list, and one taken out of it. *)
LEMMA Prepended ==
  ASSUME NEW H, NEW s \in Seq(H), NEW h \in H,
         \A i \in 1..Len(s) : s[i] # h,
         \A i, j \in 1..Len(s) : s[i] = s[j] => i = j
  PROVE  LET r == <<h>> \o s IN
         /\ r \in Seq(H)
         /\ {r[i] : i \in 1..Len(r)} = {h} \union {s[i] : i \in 1..Len(s)}
         /\ \A i, j \in 1..Len(r) : r[i] = r[j] => i = j
<1> DEFINE r == <<h>> \o s
<1>1. Len(s) \in Nat /\ <<h>> \in Seq(H) /\ Len(<<h>>) = 1 /\ <<h>>[1] = h
  BY LenProperties
<1>2. /\ r \in Seq(H) /\ Len(r) = Len(s) + 1
      /\ \A i \in 1..Len(s) + 1 : r[i] = IF i <= 1 THEN h ELSE s[i - 1]
  BY <1>1, ConcatProperties
<1> HIDE DEF r
<1>3. r[1] = h /\ \A i \in 1..Len(s) : r[i + 1] = s[i] /\ i + 1 \in 1..Len(r)
  BY <1>1, <1>2
<1>4. {r[i] : i \in 1..Len(r)} = {h} \union {s[i] : i \in 1..Len(s)}
  <2>1. ASSUME NEW i \in 1..Len(r)
        PROVE  r[i] \in {h} \union {s[j] : j \in 1..Len(s)}
    <3>1. CASE i = 1
      BY <1>3, <3>1
    <3>2. CASE i # 1
      <4>1. i - 1 \in 1..Len(s) /\ r[i] = s[i - 1]
        BY <1>1, <1>2, <3>2
      <4> QED BY <4>1
    <3> QED BY <3>1, <3>2
  <2>2. h \in {r[i] : i \in 1..Len(r)}
    <3>1. 1 \in 1..Len(r)
      BY <1>1, <1>2
    <3> QED BY <1>3, <3>1
  <2>3. ASSUME NEW i \in 1..Len(s)
        PROVE  s[i] \in {r[j] : j \in 1..Len(r)}
    <3>1. i + 1 \in 1..Len(r) /\ r[i + 1] = s[i]
      BY <1>3
    <3> QED BY <3>1
  <2> QED BY <2>1, <2>2, <2>3
<1>5. \A i, j \in 1..Len(r) : r[i] = r[j] => i = j
  <2> SUFFICES ASSUME NEW i \in 1..Len(r), NEW j \in 1..Len(r), r[i] = r[j]
               PROVE  i = j
    OBVIOUS
  <2>1. /\ i # 1 => i - 1 \in 1..Len(s) /\ r[i] = s[i - 1]
        /\ j # 1 => j - 1 \in 1..Len(s) /\ r[j] = s[j - 1]
    BY <1>1, <1>2
  <2>2. CASE i = 1 \/ j = 1
    BY <1>3, <2>1, <2>2
  <2>3. CASE i # 1 /\ j # 1
    <3>1. i - 1 = j - 1
      BY <2>1, <2>3
    <3> QED BY <3>1, <1>1, <1>2
  <2> QED BY <2>2, <2>3
<1> QED BY <1>2, <1>4, <1>5 DEF r

LEMMA TakenOut ==
  ASSUME NEW H, NEW s \in Seq(H), NEW n \in 1..Len(s),
         \A i, j \in 1..Len(s) : s[i] = s[j] => i = j
  PROVE  LET r == S!RemoveAt(s, n) IN
         /\ r \in Seq(H)
         /\ {r[i] : i \in 1..Len(r)} = {s[i] : i \in 1..Len(s)} \ {s[n]}
         /\ \A i, j \in 1..Len(r) : r[i] = r[j] => i = j
<1> DEFINE r == S!RemoveAt(s, n)
           one == SubSeq(s, 1, n - 1)
           two == SubSeq(s, n + 1, Len(s))
<1>1. Len(s) \in Nat /\ \A i \in 1..Len(s) : s[i] \in H
  BY LenProperties, ElementOfSeq
<1>2. /\ one \in Seq(H) /\ Len(one) = n - 1
      /\ \A i \in 1..n - 1 : one[i] = s[i]
  <2>1. \A i \in 1..n - 1 : s[i] \in H
    BY <1>1
  <2>2. /\ one \in Seq(H) /\ Len(one) = IF 1 <= n - 1 THEN (n - 1) - 1 + 1 ELSE 0
        /\ \A i \in 1..(n - 1) - 1 + 1 : one[i] = s[1 + i - 1]
    BY <2>1, SubSeqProperties
  <2> QED BY <1>1, <2>2
<1>3. /\ two \in Seq(H) /\ Len(two) = Len(s) - n
      /\ \A i \in 1..Len(s) - n : two[i] = s[n + i]
  <2>1. \A i \in n + 1..Len(s) : s[i] \in H
    BY <1>1
  <2>2. /\ two \in Seq(H)
        /\ Len(two) = IF n + 1 <= Len(s) THEN Len(s) - (n + 1) + 1 ELSE 0
        /\ \A i \in 1..Len(s) - (n + 1) + 1 : two[i] = s[(n + 1) + i - 1]
    BY <1>1, <2>1, SubSeqProperties
  <2> QED BY <1>1, <2>2
<1> HIDE DEF one, two
<1>4. r = one \o two
  BY DEF r, one, two, S!RemoveAt
<1>5. /\ r \in Seq(H) /\ Len(r) = Len(s) - 1
      /\ \A i \in 1..Len(s) - 1 : r[i] = IF i < n THEN s[i] ELSE s[i + 1]
  <2>1. /\ r \in Seq(H) /\ Len(r) = Len(one) + Len(two)
        /\ \A i \in 1..Len(one) + Len(two) :
             r[i] = IF i <= Len(one) THEN one[i] ELSE two[i - Len(one)]
    <3>1. one \in Seq(H) /\ two \in Seq(H)
      BY <1>2, <1>3
    <3>2. /\ one \o two \in Seq(H) /\ Len(one \o two) = Len(one) + Len(two)
          /\ \A i \in 1..Len(one) + Len(two) :
               (one \o two)[i] = IF i <= Len(one) THEN one[i] ELSE two[i - Len(one)]
      BY <3>1, ConcatProperties
    <3> HIDE DEF r
    <3> QED BY <1>4, <3>2, Zenon
  <2>2. Len(one) + Len(two) = Len(s) - 1
    BY <1>1, <1>2, <1>3
  <2>3. ASSUME NEW i \in 1..Len(s) - 1
        PROVE  r[i] = IF i < n THEN s[i] ELSE s[i + 1]
    <3> HIDE DEF r
    <3>1. r[i] = IF i <= n - 1 THEN one[i] ELSE two[i - (n - 1)]
      BY <1>2, <2>1, <2>2
    <3>2. CASE i < n
      <4>1. i \in 1..n - 1
        BY <3>2
      <4> QED BY <1>2, <3>1, <3>2, <4>1
    <3>3. CASE ~(i < n)
      <4>1. /\ i - (n - 1) \in 1..Len(s) - n /\ n + (i - (n - 1)) = i + 1
            /\ ~(i <= n - 1)
        BY <1>1, <3>3
      <4> QED BY <1>3, <3>1, <3>3, <4>1
    <3> QED BY <3>2, <3>3
  <2> HIDE DEF r
  <2> QED BY <2>1, <2>2, <2>3
<1> HIDE DEF r
<1>6. \A i \in 1..Len(r) : LET k == IF i < n THEN i ELSE i + 1 IN
        k \in 1..Len(s) /\ k # n /\ r[i] = s[k]
  BY <1>1, <1>5
<1>7. {r[i] : i \in 1..Len(r)} = {s[i] : i \in 1..Len(s)} \ {s[n]}
  <2>1. ASSUME NEW i \in 1..Len(r)
        PROVE  r[i] \in {s[j] : j \in 1..Len(s)} \ {s[n]}
    <3>1. PICK k \in 1..Len(s) : k # n /\ r[i] = s[k]
      BY <1>6
    <3> QED BY <3>1
  <2>2. ASSUME NEW j \in 1..Len(s), s[j] # s[n]
        PROVE  \E i \in 1..Len(r) : r[i] = s[j]
    <3>1. CASE j < n
      <4>1. j \in 1..Len(r) /\ j \in 1..Len(s) - 1
        BY <1>1, <1>5, <3>1
      <4>2. r[j] = s[j]
        BY <1>5, <3>1, <4>1
      <4> QED BY <4>1, <4>2
    <3>2. CASE j > n
      <4>1. /\ j - 1 \in 1..Len(r) /\ j - 1 \in 1..Len(s) - 1
            /\ ~(j - 1 < n) /\ (j - 1) + 1 = j
        BY <1>1, <1>5, <3>2
      <4>2. r[j - 1] = s[j]
        BY <1>5, <4>1
      <4> QED BY <4>1, <4>2
    <3>3. j # n
      BY <2>2
    <3> QED BY <3>1, <3>2, <3>3
  <2>3. ASSUME NEW x \in {s[j] : j \in 1..Len(s)} \ {s[n]}
        PROVE  x \in {r[i] : i \in 1..Len(r)}
    <3>1. PICK j \in 1..Len(s) : x = s[j]
      BY <2>3
    <3>2. PICK i \in 1..Len(r) : r[i] = s[j]
      BY <2>2, <2>3, <3>1
    <3> QED BY <3>1, <3>2
  <2> DEFINE A == {r[i] : i \in 1..Len(r)}
             B == {s[j] : j \in 1..Len(s)} \ {s[n]}
  <2>4. (\A x \in A : x \in B) /\ (\A x \in B : x \in A)
    BY <2>1, <2>3, Zenon
  <2>5. A = B
    <3> HIDE DEF A, B
    <3> QED BY <2>4
  <2> QED BY <2>5
<1>8. \A i, j \in 1..Len(r) : r[i] = r[j] => i = j
  <2> SUFFICES ASSUME NEW i \in 1..Len(r), NEW j \in 1..Len(r), r[i] = r[j]
               PROVE  i = j
    OBVIOUS
  <2> DEFINE k == IF i < n THEN i ELSE i + 1
             l == IF j < n THEN j ELSE j + 1
  <2>1. k \in 1..Len(s) /\ l \in 1..Len(s) /\ s[k] = s[l]
    BY <1>6
  <2>2. k = l
    BY <2>1
  <2> QED BY <1>1, <1>5, <2>2
<1> QED BY <1>5, <1>7, <1>8 DEF r


-----------------------------------------------------------------------------
(* A call that changes no search. *)
LEMMA SearchStill ==
  ASSUME SInv, UNCHANGED <<wcrt_searches, native, told>>,
         \/ record' \in {S!Zero, S!Before} /\ errno' # "0"
         \/ UNCHANGED <<record, errno>>
  PROVE  SInv'
<1>0. SearchTypes /\ ListExact
  BY DEF SInv
<1>1. SearchTypes' /\ ListExact' /\ Listed' = Listed
  <2>1. SearchTypes'
    BY <1>0 DEF SearchTypes, Left, Entries, S!ToSet
  <2>2. Listed' = Listed
    BY DEF Listed
  <2>3. ListExact'
    BY <1>0, <2>2 DEF ListExact
  <2> QED BY <2>1, <2>2, <2>3
<1>2. \A h \in Listed : Delivered(h)'
  BY DEF SInv, Delivered, ToldOf, Left, S!wcrt_find_error
<1>3. RecordExact'
  BY <1>1 DEF SInv, RecordExact
<1> QED BY <1>1, <1>2, <1>3 DEF SInv

LEMMA SearchBegins == S!SearchesAssumption /\ S!Init => SInv
<1> SUFFICES ASSUME S!SearchesAssumption, S!Init PROVE SInv
  OBVIOUS
<1>1. /\ wcrt_searches = <<>> /\ record = S!Before /\ errno = "0"
      /\ native = [h \in SearchHandles |-> IF h = Foreign THEN Directory ELSE NULL]
      /\ told = [h \in SearchHandles |-> <<>>]
  BY DEF S!Init
<1>2. Listed = {} /\ Foreign \in SearchHandles /\ Directory = Left(1)
  BY <1>1, WholeDirectory DEF Listed, S!SearchesAssumption
<1>3. 1 \in 1..Len(Directory) + 1 /\ Left(1) # NULL
  BY LeftFacts, EmptySeq DEF S!SearchesAssumption
<1>4. SearchTypes
  BY <1>1, <1>2, <1>3 DEF SearchTypes
<1>5. ListExact
  BY <1>1, <1>2, <1>3 DEF ListExact
<1> QED BY <1>1, <1>2, <1>4, <1>5 DEF SInv, RecordExact

(* The first entry, in a search of its own. *)
LEMMA StartInv ==
  ASSUME S!SearchesAssumption, SInv, NEW kind \in S!Pairs,
         S!wcrt_start_search(kind)
  PROVE  SInv'
<1> DEFINE entry == Directory[1]
           error == S!wcrt_find_error(entry, kind)
<1>1. /\ Len(Directory) \in Nat \ {0} /\ 1 \in 1..Len(Directory) + 1
      /\ 2 \in 1..Len(Directory) + 1
      /\ Head(Directory) = entry /\ Tail(Directory) = Left(2)
      /\ entry \in Entries /\ entry # NULL
  <2>1. Len(Directory) \in Nat \ {0}
    BY EmptySeq DEF S!SearchesAssumption
  <2>2. 1 \in 1..Len(Directory) + 1 /\ 1 <= Len(Directory)
    BY <2>1
  <2> QED BY <2>1, <2>2, LeftFacts, WholeDirectory
<1>2. CASE S!Keeps /\ errno' # "0" /\ record' = S!Zero
  BY <1>2, SearchStill DEF S!Keeps
<1>3. ASSUME NEW h \in SearchHandles, native[h] = NULL, error = "0",
             S!Returns(S!wcrt_find_record(entry), "0"),
             wcrt_searches' = <<h>> \o wcrt_searches,
             native' = [native EXCEPT ![h] = Left(2)],
             told' = [told EXCEPT ![h] = <<entry>>]
      PROVE  SInv'
  <2>1. h \notin Listed /\ h # Foreign
    BY <1>3 DEF SInv, ListExact
  <2>2. /\ wcrt_searches' \in Seq(SearchHandles) /\ Listed' = {h} \union Listed
        /\ \A i, j \in 1..Len(wcrt_searches') :
             wcrt_searches'[i] = wcrt_searches'[j] => i = j
    <3>1. wcrt_searches \in Seq(SearchHandles)
      BY DEF SInv, SearchTypes
    <3>2. \A i \in 1..Len(wcrt_searches) : wcrt_searches[i] # h
      BY <2>1 DEF Listed
    <3>3. \A i, j \in 1..Len(wcrt_searches) :
            wcrt_searches[i] = wcrt_searches[j] => i = j
      BY DEF SInv, ListExact
    <3> DEFINE r == <<h>> \o wcrt_searches
    <3>4. /\ r \in Seq(SearchHandles) /\ {r[i] : i \in 1..Len(r)} = {h} \union Listed
          /\ \A i, j \in 1..Len(r) : r[i] = r[j] => i = j
      <4> HIDE DEF r
      <4>1. /\ r \in Seq(SearchHandles)
            /\ {r[i] : i \in 1..Len(r)}
                 = {h} \union {wcrt_searches[i] : i \in 1..Len(wcrt_searches)}
            /\ \A i, j \in 1..Len(r) : r[i] = r[j] => i = j
        BY <3>1, <3>2, <3>3, Prepended, Zenon DEF r
      <4> QED BY <4>1 DEF Listed
    <3>5. wcrt_searches' = r
      BY <1>3
    <3> HIDE DEF r
    <3> QED BY <3>4, <3>5 DEF Listed
  <2>3. <<entry>> \in Seq(Entries \union {NULL}) /\ Len(<<entry>>) = 1 /\ <<entry>>[1] = entry
    BY <1>1
  <2>4. Left(2) # NULL
    BY <1>1, LeftFacts
  <2>5. SearchTypes'
    BY <1>1, <1>3, <2>2, <2>3 DEF SInv, SearchTypes, Left, Entries
  <2>6. /\ native'[h] = Left(2) /\ told'[h] = <<entry>>
        /\ \A g \in SearchHandles \ {h} : native'[g] = native[g] /\ told'[g] = told[g]
    BY <1>3 DEF SInv, SearchTypes
  <2>7. ListExact'
    BY <2>1, <2>2, <2>4, <2>6 DEF SInv, ListExact, S!SearchesAssumption
  <2>8. \A g \in Listed' : Delivered(g)'
    <3>1. Listed \subseteq SearchHandles \ {h}
      BY <2>1 DEF SInv, SearchTypes, Listed
    <3>2. \A g \in Listed : Delivered(g)'
      BY <2>6, <3>1 DEF SInv, Delivered, Left
    <3>3. Len(told'[h]) = 1 /\ told'[h][1] = entry
      BY <2>3, <2>6
    <3>4. S!wcrt_find_error(entry, "wide") = "0"
      BY <1>3, ErrorFacts
    <3>5. ToldOf(Directory[1], told'[h][1])
      BY <1>1, <3>3, <3>4 DEF ToldOf
    <3>6. Delivered(h)'
      BY <1>1, <2>6, <3>3, <3>5 DEF Delivered, Left, ToldOf, S!wcrt_find_error
    <3> QED BY <2>2, <3>2, <3>6
  <2>9. RecordExact'
    <3>1. /\ h \in Listed' /\ told'[h] # <<>> /\ told'[h][Len(told'[h])] = entry
      BY <2>2, <2>3, <2>6
    <3> QED BY <1>1, <1>3, <3>1 DEF RecordExact, S!Returns
  <2> QED BY <2>5, <2>7, <2>8, <2>9 DEF SInv
<1>4. \/ S!Keeps /\ errno' # "0" /\ record' = S!Zero
      \/ \E h \in SearchHandles :
           /\ native[h] = NULL /\ error = "0"
           /\ S!Returns(S!wcrt_find_record(entry), "0")
           /\ wcrt_searches' = <<h>> \o wcrt_searches
           /\ native' = [native EXCEPT ![h] = Left(2)]
           /\ told' = [told EXCEPT ![h] = <<entry>>]
  BY <1>1 DEF S!wcrt_start_search, S!Returns
<1> QED BY <1>2, <1>3, <1>4

(* The next entry, or why it was passed over. *)
LEMMA NextSearchInv ==
  ASSUME S!SearchesAssumption, SInv, NEW h \in SearchHandles,
         NEW kind \in S!Pairs, S!wcrt_next_search(h, kind)
  PROVE  SInv'
<1>1. CASE S!Keeps /\ errno' # "0" /\ record' = S!Before
  BY <1>1, SearchStill DEF S!Keeps
<1>2. ASSUME S!wcrt_search_slot(h) # {}, native[h] # <<>>
      PROVE  SInv'
  <2> DEFINE k == Len(told[h]) + 1
             entry == Directory[k]
             error == S!wcrt_find_error(entry, kind)
             what == IF error = "0" THEN entry ELSE NULL
  <2>1. h \in Listed /\ Delivered(h) /\ h # Foreign
    BY <1>2 DEF S!wcrt_search_slot, Listed, SInv, ListExact
  <2>2. /\ Len(Directory) \in Nat \ {0} /\ Len(told[h]) \in 1..Len(Directory)
        /\ k \in 1..Len(Directory) + 1 /\ native[h] = Left(k)
    <3>1. Len(Directory) \in Nat \ {0}
      BY EmptySeq DEF S!SearchesAssumption
    <3> QED BY <2>1, <3>1 DEF Delivered
  <2>3. k <= Len(Directory)
    <3>1. ASSUME ~(k <= Len(Directory)) PROVE Left(k) = <<>>
      <4>1. k \in Int /\ Len(Directory) \in Int /\ Len(Directory) < k
        BY <2>2, <3>1
      <4> HIDE DEF k
      <4> QED BY <4>1, SubSeqEmpty DEF Left
    <3> QED BY <1>2, <2>2, <3>1
  <2>4. /\ Head(native[h]) = entry /\ Tail(native[h]) = Left(k + 1)
        /\ entry \in Entries /\ entry # NULL /\ Left(k + 1) # NULL
        /\ k + 1 \in 1..Len(Directory) + 1
    <3>1. k \in 1..Len(Directory) + 1 /\ k + 1 \in 1..Len(Directory) + 1
      BY <2>2, <2>3
    <3> HIDE DEF k
    <3>2. /\ Head(Left(k)) = Directory[k] /\ Tail(Left(k)) = Left(k + 1)
          /\ Directory[k] \in Entries /\ Directory[k] # NULL
      BY <2>3, <3>1, LeftFacts
    <3>3. Left(k + 1) # NULL
      BY <3>1, LeftFacts
    <3> QED BY <2>2, <3>1, <3>2, <3>3
  <2>5. /\ record' = (IF error = "0" THEN S!wcrt_find_record(entry) ELSE S!Before)
        /\ errno' = error
        /\ native' = [native EXCEPT ![h] = Left(k + 1)]
        /\ told' = [told EXCEPT ![h] = Append(told[h], what)]
        /\ wcrt_searches' = wcrt_searches
    BY <1>2, <2>4 DEF S!wcrt_next_search, S!Returns
  <2>6. /\ Append(told[h], what) \in Seq(Entries \union {NULL})
        /\ Len(Append(told[h], what)) = k
        /\ Append(told[h], what)[k] = what
        /\ \A i \in 1..Len(told[h]) : Append(told[h], what)[i] = told[h][i]
    <3>1. told[h] \in Seq(Entries \union {NULL}) /\ what \in Entries \union {NULL}
      BY <2>4 DEF SInv, SearchTypes
    <3> HIDE DEF what
    <3> QED BY <3>1
  <2> HIDE DEF what, error, entry
  <2>7. /\ native'[h] = Left(k + 1) /\ told'[h] = Append(told[h], what)
        /\ \A g \in SearchHandles \ {h} : native'[g] = native[g] /\ told'[g] = told[g]
        /\ Listed' = Listed
    BY <2>5 DEF SInv, SearchTypes, Listed
  <2>8. SearchTypes'
    <3>1. told' \in [SearchHandles -> Seq(Entries \union {NULL})]
      BY <2>5, <2>6 DEF SInv, SearchTypes
    <3>2. native' \in [SearchHandles -> {Left(j) : j \in 1..Len(Directory) + 1} \union {NULL}]
      BY <2>4, <2>5 DEF SInv, SearchTypes
    <3> QED BY <2>5, <3>1, <3>2 DEF SInv, SearchTypes, Left, Entries
  <2>9. ListExact'
    BY <2>1, <2>4, <2>5, <2>7 DEF SInv, ListExact, S!SearchesAssumption
  <2>10. \A g \in Listed' : Delivered(g)'
    <3>1. ASSUME NEW g \in Listed, g # h PROVE Delivered(g)'
      <4>1. g \in SearchHandles \ {h}
        BY <3>1 DEF SInv, SearchTypes, Listed
      <4> QED BY <2>7, <4>1 DEF SInv, Delivered, Left
    <3>2. ToldOf(entry, what)
      BY <2>4, ErrorFacts DEF what, error, ToldOf
    <3>3. Len(told'[h]) = k /\ k \in 1..Len(Directory)
      BY <2>2, <2>3, <2>6, <2>7
    <3>4. ASSUME NEW j \in 1..k PROVE ToldOf(Directory[j], told'[h][j])
      <4>1. CASE j = k
        BY <2>6, <2>7, <3>2, <4>1 DEF entry
      <4>2. CASE j # k
        <5>1. j \in 1..Len(told[h])
          BY <2>2, <4>2
        <5> QED BY <2>1, <2>6, <2>7, <5>1 DEF Delivered
      <4> QED BY <4>1, <4>2
    <3>5. Delivered(h)'
      BY <2>7, <3>3, <3>4 DEF Delivered, Left, ToldOf, S!wcrt_find_error
    <3> QED BY <2>7, <3>1, <3>5
  <2>11. RecordExact'
    <3>1. CASE error = "0"
      <4>1. told'[h] # <<>> /\ told'[h][Len(told'[h])] = entry
        BY <2>2, <2>6, <2>7, <3>1 DEF what
      <4> QED BY <2>1, <2>4, <2>5, <2>7, <3>1, <4>1 DEF RecordExact
    <3>2. CASE error # "0"
      BY <2>5, <3>2 DEF RecordExact
    <3> QED BY <3>1, <3>2
  <2> QED BY <2>8, <2>9, <2>10, <2>11 DEF SInv
<1>3. \/ S!Keeps /\ errno' # "0" /\ record' = S!Before
      \/ S!wcrt_search_slot(h) # {} /\ native[h] # <<>>
  BY DEF S!wcrt_next_search, S!Returns
<1> QED BY <1>1, <1>2, <1>3

LEMMA CloseInv ==
  ASSUME S!SearchesAssumption, SInv, NEW h \in SearchHandles, S!wcrt_findclose(h)
  PROVE  SInv'
<1>1. CASE S!Returns(S!Before, "EINVAL") /\ S!Keeps
  BY <1>1, SearchStill DEF S!Keeps, S!Returns
<1>2. ASSUME NEW i \in S!wcrt_search_slot(h),
             S!Returns(S!Before, "0"), wcrt_searches' = S!RemoveAt(wcrt_searches, i),
             native' = [native EXCEPT ![h] = NULL],
             told' = [told EXCEPT ![h] = <<>>]
      PROVE  SInv'
  <2>1. i \in 1..Len(wcrt_searches) /\ wcrt_searches[i] = h /\ h \in Listed /\ h # Foreign
    BY DEF S!wcrt_search_slot, Listed, SInv, ListExact
  <2>2. /\ wcrt_searches' \in Seq(SearchHandles) /\ Listed' = Listed \ {h}
        /\ \A j, k \in 1..Len(wcrt_searches') :
             wcrt_searches'[j] = wcrt_searches'[k] => j = k
    <3>1. wcrt_searches \in Seq(SearchHandles)
      BY DEF SInv, SearchTypes
    <3>2. \A j, k \in 1..Len(wcrt_searches) :
            wcrt_searches[j] = wcrt_searches[k] => j = k
      BY DEF SInv, ListExact
    <3> DEFINE r == S!RemoveAt(wcrt_searches, i)
    <3>3. /\ r \in Seq(SearchHandles) /\ {r[j] : j \in 1..Len(r)} = Listed \ {h}
          /\ \A j, k \in 1..Len(r) : r[j] = r[k] => j = k
      BY <2>1, <3>1, <3>2, TakenOut DEF Listed
    <3>4. wcrt_searches' = r
      BY <1>2
    <3> HIDE DEF r
    <3> QED BY <3>3, <3>4 DEF Listed
  <2>3. /\ native'[h] = NULL
        /\ \A g \in SearchHandles \ {h} : native'[g] = native[g] /\ told'[g] = told[g]
    BY <1>2 DEF SInv, SearchTypes
  <2>4. SearchTypes'
    BY <1>2, <2>2 DEF SInv, SearchTypes, Left, Entries
  <2>5. ListExact'
    BY <2>1, <2>2, <2>3 DEF SInv, ListExact, S!SearchesAssumption
  <2>6. \A g \in Listed' : Delivered(g)'
    <3>1. Listed \subseteq SearchHandles
      BY DEF SInv, SearchTypes, Listed
    <3> QED BY <2>2, <2>3, <3>1 DEF SInv, Delivered, Left
  <2>7. RecordExact'
    BY <1>2 DEF RecordExact, S!Returns
  <2> QED BY <2>4, <2>5, <2>6, <2>7 DEF SInv
<1> QED BY <1>1, <1>2 DEF S!wcrt_findclose

(* The searches Windows has open are those of the list and the program's own;
   each delivers the directory entry by entry, passing over those that do not
   fit the record; and a call that fails leaves no half of an entry
   (src/ms_find32.c).  For any handles and any directory. *)
THEOREM SearchesAlwaysOwned ==
  FileSpec => [](about = "search" => S!SearchesOwned)
<1> DEFINE Inv == about = "search" => SInv
<1>0. S!SearchesAssumption
  BY FilesAssumption
<1>1. FileInit => Inv
  BY <1>0, SearchBegins DEF FileInit
<1>2. Inv /\ [FileNext]_<<about, fvars>> => Inv'
  <2>1. ASSUME SInv, S!Next PROVE SInv'
    BY <1>0, <2>1, StartInv, NextSearchInv, CloseInv DEF S!Next
  <2>2. ASSUME SInv, UNCHANGED S!vars PROVE SInv'
    <3>1. UNCHANGED <<wcrt_searches, native, told>> /\ UNCHANGED <<record, errno>>
      BY <2>2 DEF S!vars
    <3> QED BY <2>2, <3>1, SearchStill
  <2>3. ASSUME FileNext, about = "search" PROVE S!Next
    BY <2>3 DEF FileNext
  <2> HIDE DEF SInv
  <2> QED BY <2>1, <2>2, <2>3 DEF FileNext, fvars, svars, S!vars
<1>3. ASSUME SInv PROVE S!SearchesOwned
  <2>1. /\ DOMAIN wcrt_searches = 1..Len(wcrt_searches)
        /\ S!ToSet(wcrt_searches) = Listed /\ Listed \subseteq SearchHandles
    <3>1. wcrt_searches \in Seq(SearchHandles)
      BY <1>3 DEF SInv, SearchTypes
    <3>2. DOMAIN wcrt_searches = 1..Len(wcrt_searches)
      BY <3>1
    <3>3. \A i \in 1..Len(wcrt_searches) : wcrt_searches[i] \in SearchHandles
      BY <3>1
    <3> QED BY <3>2, <3>3 DEF Listed, S!ToSet
  <2>2. /\ {h \in SearchHandles : native[h] # NULL} = Listed \union {Foreign}
        /\ S!IsInjective(wcrt_searches) /\ native[Foreign] = Directory
    BY <1>0, <1>3, <2>1 DEF SInv, ListExact, S!IsInjective, S!SearchesAssumption
  <2>3. ASSUME NEW h \in Listed
        PROVE  Len(told[h]) + Len(native[h]) = Len(Directory)
    <3> DEFINE n == Len(told[h])
    <3>1. n \in 1..Len(Directory) /\ native[h] = Left(n + 1)
      BY <1>3, <2>3 DEF SInv, Delivered
    <3> HIDE DEF n
    <3>2. n + 1 \in 1..Len(Directory) + 1 /\ Len(Directory) \in Nat
      BY <3>1, <1>0, EmptySeq DEF S!SearchesAssumption
    <3>3. Len(Left(n + 1)) = Len(Directory) + 1 - (n + 1)
      BY <1>0, <3>2, LeftFacts
    <3>4. n + Len(native[h]) = Len(Directory)
      BY <3>1, <3>2, <3>3
    <3> QED BY <3>4 DEF n
  <2>4. \A i \in 1..Len(wcrt_searches) : wcrt_searches[i] \in Listed
    BY DEF Listed
  <2>5. ASSUME NEW h \in Listed, NEW k \in 1..Len(told[h])
        PROVE  IF told[h][k] = NULL THEN S!wcrt_find_error(Directory[k], "narrow") # "0"
               ELSE told[h][k] = Directory[k] /\ S!wcrt_find_error(Directory[k], "wide") = "0"
    BY <1>3, <2>5 DEF SInv, Delivered, ToldOf
  <2>6. IF errno # "0" THEN record \in {S!Zero, S!Before}
        ELSE record # S!Before => \E h \in S!ToSet(wcrt_searches) :
               /\ told[h] # <<>> /\ S!Last(told[h]) # NULL
               /\ record = S!wcrt_find_record(S!Last(told[h]))
    BY <1>3, <2>1 DEF SInv, RecordExact, S!Last
  <2> HIDE DEF Listed
  <2> QED BY <2>1, <2>2, <2>3, <2>4, <2>5, <2>6 DEF S!SearchesOwned
<1>4. Inv => (about = "search" => S!SearchesOwned)
  BY <1>3
<1> QED BY <1>1, <1>2, <1>4, PTL DEF FileSpec

-----------------------------------------------------------------------------
(* Files and streams by name: the inductive invariant, a property of a state
   s of NamedFiles.  The serials that files have are distinct and no open
   stream's is left without its file; a stream that deletes its file is the
   first of a temporary file, which it shares with everybody; and streams
   that have the same file open either leave each other the rights they use
   or are duplicates. *)

FileRecords ==
  [serial : Nat \ {0}, kind : {"file", "directory"}, readonly : BOOLEAN,
   size : Nat, access_time : Int, write_time : Int]
StreamRecords ==
  [serial : Nat, access : SUBSET N!Rights, share : SUBSET N!Rights,
   append : BOOLEAN, delete : {"t", NULL}]
FileTables == [Names -> FileRecords \union {NULL}]
SlotTables == [FileSlots -> StreamRecords]
NamedStates ==
  [files : FileTables, slots : SlotTables, mask : SUBSET N!Rights,
   fmode : {"text", "invalid"}, current : Names \union {Root}, calls : Nat]

HasOpen(files, slots, i, n) == files[n] # NULL /\ slots[i].serial = files[n].serial

Numbered(files) ==
  \A n, p \in Names : files[n] # NULL /\ files[p] # NULL /\ files[n].serial = files[p].serial => n = p
Placed(files) ==
  \A n \in Names : files[n] # NULL /\ files[n].kind = "directory" => n = "d"
Rooted(files, slots) ==
  \A i \in FileSlots : slots[i].serial # 0 => \E n \in Names : HasOpen(files, slots, i, n)
OwnTemporary(files, slots) ==
  \A i \in FileSlots : slots[i].serial # 0 /\ slots[i].delete # NULL =>
    HasOpen(files, slots, i, "t") /\ slots[i].share = N!Rights
Compatible(slots) ==
  \A i, j \in FileSlots : slots[i].serial = slots[j].serial /\ slots[i].serial # 0 /\ slots[i] # slots[j] =>
    slots[i].access \subseteq slots[j].share

Fits(files, slots) ==
  /\ Numbered(files) /\ Placed(files) /\ Rooted(files, slots)
  /\ OwnTemporary(files, slots) /\ Compatible(slots)

(* The current directory is there. *)
Standing(files, current) ==
  \/ current = Root
  \/ /\ current = "d" /\ Parent["d"] \in {Root, "d"}
     /\ files["d"] # NULL /\ files["d"].kind = "directory"

Sound(s) == s \in NamedStates /\ Fits(s.files, s.slots) /\ Standing(s.files, s.current)

-----------------------------------------------------------------------------
(* The least of some numbers is one of them. *)
LEMMA MinOfSome ==
  ASSUME NEW X \in SUBSET Nat, X # {}
  PROVE  N!Min(X) \in X
<1> DEFINE R == OpToRel(<, Nat)
<1>1. \A x, y \in Nat : y < x => <<y, x>> \in R
  BY DEF OpToRel
<1>2. IsWellFoundedOn(R, Nat)
  BY NatLessThanWellFounded
<1> HIDE DEF R
<1>3. PICK x \in X : \A y \in X : ~ (<<y, x>> \in R)
  BY <1>2, WFMin
<1>4. ASSUME NEW y \in X PROVE x <= y
  <2>1. ~ (y < x)
    BY <1>1, <1>3
  <2> QED BY <2>1
<1> QED BY <1>4 DEF N!Min

(* There is a number for a new file, and no file has it. *)
LEMMA SerialFree ==
  ASSUME N!NamedFilesAssumption, NEW s \in NamedStates
  PROVE  /\ N!Serial(s) \in Nat \ {0}
         /\ \A n \in Names : s.files[n] # NULL => s.files[n].serial # N!Serial(s)
<1> DEFINE K == Cardinality(Names) + 1
           U == {i \in 1..K : \A n \in Names : s.files[n] # NULL => s.files[n].serial # i}
           f == [i \in 1..K |-> CHOOSE n \in Names : s.files[n] # NULL /\ s.files[n].serial = i]
<1>0. N!Cardinality(Names) = Cardinality(Names)
  BY DEF N!Cardinality, Cardinality
<1>1. IsFiniteSet(Names) /\ Cardinality(Names) \in Nat
  <2>1. IsFiniteSet(Names)
    BY DEF N!NamedFilesAssumption, N!IsFiniteSet, IsFiniteSet
  <2> QED BY <2>1, FS_CardinalityType
<1>2. IsFiniteSet(1..K) /\ Cardinality(1..K) = K
  BY <1>1, FS_Interval
<1>3. U # {}
  <2> SUFFICES ASSUME U = {} PROVE FALSE
    OBVIOUS
  <2>1. \A i \in 1..K : \E n \in Names : s.files[n] # NULL /\ s.files[n].serial = i
    OBVIOUS
  <2>2. \A i \in 1..K : f[i] \in Names /\ s.files[f[i]].serial = i
    BY <2>1
  <2>3. f \in [1..K -> Names]
    BY <2>2
  <2> HIDE DEF f
  <2>4. \E i, j \in 1..K : i # j /\ f[i] = f[j]
    BY <1>1, <1>2, <2>3, FS_PigeonHole
  <2> QED BY <2>2, <2>4
<1>4. U \in SUBSET Nat /\ N!Serial(s) = N!Min(U)
  BY <1>0 DEF N!Serial
<1>5. N!Min(U) \in U
  BY <1>3, <1>4, MinOfSome
<1>6. N!Serial(s) \in U
  BY <1>4, <1>5
<1> QED BY <1>1, <1>6

(* Files keep their names and numbers. *)
LEMMA FilesStay ==
  ASSUME NEW files \in FileTables, NEW slots \in SlotTables, NEW after \in FileTables,
         Fits(files, slots), N!NamedFilesAssumption,
         \A n \in Names : /\ (after[n] = NULL) <=> (files[n] = NULL)
                          /\ files[n] # NULL => /\ after[n].serial = files[n].serial
                                                /\ after[n].kind = files[n].kind
  PROVE  Fits(after, slots) /\ \A current : Standing(files, current) => Standing(after, current)
<1>1. Numbered(after) /\ Placed(after)
  BY DEF Fits, Numbered, Placed
<1>2. Rooted(after, slots)
  BY DEF Fits, Rooted, HasOpen
<1>3. OwnTemporary(after, slots)
  BY DEF Fits, OwnTemporary, HasOpen, N!NamedFilesAssumption
<1> QED BY <1>1, <1>2, <1>3 DEF Fits, Standing, N!NamedFilesAssumption

(* A file is made under a free name, with a number no file has. *)
LEMMA FileBorn ==
  ASSUME NEW files \in FileTables, NEW slots \in SlotTables, NEW path \in Names,
         NEW file \in FileRecords,
         Fits(files, slots), N!NamedFilesAssumption, files[path] = NULL,
         file.kind = "directory" => path = "d",
         \A n \in Names : files[n] # NULL => files[n].serial # file.serial
  PROVE  /\ Fits([files EXCEPT ![path] = file], slots)
         /\ \A i \in FileSlots : ~HasOpen([files EXCEPT ![path] = file], slots, i, path)
         /\ \A current : Standing(files, current) => Standing([files EXCEPT ![path] = file], current)
<1> DEFINE after == [files EXCEPT ![path] = file]
<1>1. /\ after[path] = file /\ file # NULL
      /\ \A n \in Names : n # path => after[n] = files[n]
  BY DEF FileTables, FileRecords, N!NamedFilesAssumption
<1> HIDE DEF after
<1>2. Numbered(after)
  BY <1>1 DEF Fits, Numbered
<1>3. Placed(after)
  BY <1>1 DEF Fits, Placed
<1>4. Rooted(after, slots)
  BY <1>1 DEF Fits, Rooted, HasOpen
<1>5. OwnTemporary(after, slots)
  BY <1>1 DEF Fits, OwnTemporary, HasOpen, N!NamedFilesAssumption
<1>6. \A i \in FileSlots : ~HasOpen(after, slots, i, path)
  <2> SUFFICES ASSUME NEW i \in FileSlots, slots[i].serial = file.serial PROVE FALSE
    BY <1>1 DEF HasOpen
  <2>1. slots[i].serial # 0
    BY DEF FileRecords
  <2> QED BY <2>1 DEF Fits, Rooted, HasOpen
<1>7. \A current : Standing(files, current) => Standing(after, current)
  BY <1>1 DEF Standing, N!NamedFilesAssumption
<1> QED BY <1>2, <1>3, <1>4, <1>5, <1>6, <1>7 DEF Fits, after

(* A file nobody has open goes. *)
LEMMA FileGone ==
  ASSUME NEW files \in FileTables, NEW slots \in SlotTables, NEW path \in Names,
         Fits(files, slots), N!NamedFilesAssumption,
         \A i \in FileSlots : ~HasOpen(files, slots, i, path)
  PROVE  /\ Fits([files EXCEPT ![path] = NULL], slots)
         /\ \A current : Standing(files, current) /\ (path # current \/ files[path].kind # "directory") =>
              Standing([files EXCEPT ![path] = NULL], current)
<1> DEFINE after == [files EXCEPT ![path] = NULL]
<1>1. after[path] = NULL /\ \A n \in Names : n # path => after[n] = files[n]
  BY DEF FileTables
<1> HIDE DEF after
<1>2. Numbered(after) /\ Placed(after)
  BY <1>1 DEF Fits, Numbered, Placed
<1>3. Rooted(after, slots)
  BY <1>1 DEF Fits, Rooted, HasOpen
<1>4. OwnTemporary(after, slots)
  BY <1>1 DEF Fits, OwnTemporary, HasOpen, N!NamedFilesAssumption
<1>5. \A current : Standing(files, current) /\ (path # current \/ files[path].kind # "directory") =>
        Standing(after, current)
  BY <1>1 DEF Standing, N!NamedFilesAssumption
<1> QED BY <1>2, <1>3, <1>4, <1>5 DEF Fits, after

(* A file nobody has open gets another name. *)
LEMMA FileMoved ==
  ASSUME NEW files \in FileTables, NEW slots \in SlotTables, NEW from \in Names, NEW to \in Names,
         Fits(files, slots), N!NamedFilesAssumption,
         files[from] # NULL, files[to] = NULL, files[from].kind = "file",
         \A i \in FileSlots : ~HasOpen(files, slots, i, from)
  PROVE  /\ Fits([files EXCEPT ![to] = files[from], ![from] = NULL], slots)
         /\ \A current : Standing(files, current) =>
              Standing([files EXCEPT ![to] = files[from], ![from] = NULL], current)
<1> DEFINE after == [files EXCEPT ![to] = files[from], ![from] = NULL]
<1>1. /\ after[from] = NULL /\ after[to] = files[from] /\ from # to
      /\ \A n \in Names : n \notin {from, to} => after[n] = files[n]
  BY DEF FileTables
<1> HIDE DEF after
<1>2. Numbered(after) /\ Placed(after)
  BY <1>1 DEF Fits, Numbered, Placed
<1>3. Rooted(after, slots)
  BY <1>1 DEF Fits, Rooted, HasOpen
<1>4. OwnTemporary(after, slots)
  BY <1>1 DEF Fits, OwnTemporary, HasOpen, N!NamedFilesAssumption
<1>5. \A current : Standing(files, current) => Standing(after, current)
  BY <1>1 DEF Standing, N!NamedFilesAssumption
<1> QED BY <1>2, <1>3, <1>4, <1>5 DEF Fits, after

(* A slot gets a closed stream, or one that fits the others on its file. *)
LEMMA SlotSet ==
  ASSUME NEW files \in FileTables, NEW slots \in SlotTables, NEW slot \in FileSlots,
         NEW entry \in StreamRecords, Fits(files, slots), N!NamedFilesAssumption,
         entry.serial # 0 =>
           /\ \E n \in Names : files[n] # NULL /\ entry.serial = files[n].serial
           /\ entry.delete # NULL => /\ files["t"] # NULL /\ entry.serial = files["t"].serial
                                      /\ entry.share = N!Rights
           /\ \A i \in FileSlots : i # slot /\ slots[i].serial = entry.serial /\ slots[i] # entry =>
                /\ slots[i].access \subseteq entry.share
                /\ entry.access \subseteq slots[i].share
  PROVE  Fits(files, [slots EXCEPT ![slot] = entry])
<1> DEFINE after == [slots EXCEPT ![slot] = entry]
<1>1. after[slot] = entry /\ \A i \in FileSlots : i # slot => after[i] = slots[i]
  BY DEF SlotTables
<1> HIDE DEF after
<1>2. Rooted(files, after)
  BY <1>1 DEF Fits, Rooted, HasOpen
<1>3. OwnTemporary(files, after)
  BY <1>1 DEF Fits, OwnTemporary, HasOpen
<1>4. Compatible(after)
  BY <1>1 DEF Fits, Compatible
<1> QED BY <1>2, <1>3, <1>4 DEF Fits, after

(* The same of whole states: their files, or one of their slots, change. *)
LEMMA WithFiles ==
  ASSUME NEW s \in NamedStates, NEW files \in FileTables, Fits(files, s.slots),
         Standing(files, s.current)
  PROVE  /\ Sound([s EXCEPT !.files = files])
         /\ [s EXCEPT !.files = files].slots = s.slots
         /\ [s EXCEPT !.files = files].files = files
BY DEF Sound, NamedStates

LEMMA WithSlot ==
  ASSUME NEW s, Sound(s), NEW slot \in FileSlots, NEW entry \in StreamRecords,
         Fits(s.files, [s.slots EXCEPT ![slot] = entry])
  PROVE  /\ Sound([s EXCEPT !.slots[slot] = entry])
         /\ [s EXCEPT !.slots[slot] = entry].files = s.files
         /\ [s EXCEPT !.slots[slot] = entry].slots = [s.slots EXCEPT ![slot] = entry]
BY DEF Sound, NamedStates, SlotTables

(* CreateFile leaves the streams alone, and a file it opens stands under the
   name and takes the rights asked for. *)
Allows(s, path, access, share) ==
  /\ s.files[path] # NULL
  /\ \A i \in FileSlots : HasOpen(s.files, s.slots, i, path) =>
       access \subseteq s.slots[i].share /\ s.slots[i].access \subseteq share
Created(s, o, path, access, share) ==
  /\ Sound(o.m) /\ o.m.slots = s.slots /\ o.r \in {-1, 0, 1}
  /\ o.r # -1 => Allows(o.m, path, access, share)

LEMMA CreateFileKept ==
  ASSUME N!NamedFilesAssumption, NEW s, Sound(s), NEW path \in Names,
         NEW access \in SUBSET N!Rights, NEW share \in SUBSET N!Rights, NEW creation
  PROVE  Created(s, N!CreateFileA(s, path, access, share, creation), path, access, share)
<1> DEFINE o == N!CreateFileA(s, path, access, share, creation)
           born == N!File(N!Serial(s), "file")
           made == [s EXCEPT !.files = [s.files EXCEPT ![path] = born]]
           same(size) == [s.files EXCEPT ![path].size = size]
<1>0. /\ s \in NamedStates /\ s.files \in FileTables /\ s.slots \in SlotTables
      /\ Fits(s.files, s.slots) /\ Standing(s.files, s.current)
  BY DEF Sound, NamedStates
<1> SUFFICES Created(s, o, path, access, share)
  OBVIOUS
<1> HIDE DEF o
<1>1. CASE o = N!Fails(s, "EIO") \/ o = N!Fails(s, "ENOENT")
           \/ o = N!Fails(s, "EEXIST") \/ o = N!Fails(s, "EACCES")
  <2>1. o.m = s /\ o.r = -1
    BY <1>1 DEF N!Fails
  <2> QED BY <2>1 DEF Created
<1>2. CASE s.files[path] = NULL /\ o = N!Done(made, 1)
  <2>1. born \in FileRecords /\ born.kind = "file" /\ born.serial = N!Serial(s)
    BY <1>0, SerialFree DEF N!File, FileRecords
  <2> DEFINE files == [s.files EXCEPT ![path] = born]
  <2>2. files \in FileTables /\ files[path] = born /\ born # NULL
    BY <1>0, <2>1 DEF FileTables, FileRecords, N!NamedFilesAssumption
  <2>3. /\ Fits(files, s.slots) /\ Standing(files, s.current)
        /\ \A i \in FileSlots : ~HasOpen(files, s.slots, i, path)
    <3> HIDE DEF born
    <3> QED BY <1>0, <1>2, <2>1, SerialFree, FileBorn
  <2>4. o.m = made /\ o.r = 1
    BY <1>2 DEF N!Done
  <2> HIDE DEF files, born
  <2>5. Sound(made) /\ made.slots = s.slots /\ made.files = files
    BY <1>0, <2>2, <2>3, WithFiles DEF files
  <2> HIDE DEF made
  <2> QED BY <2>2, <2>3, <2>4, <2>5 DEF Created, Allows
<1>3. CASE /\ s.files[path] # NULL
           /\ \E size \in {0, s.files[path].size} : o = N!Done([s EXCEPT !.files = same(size)], 0)
           /\ N!Shared(s, path, access, share)
  <2>1. PICK size \in {0, s.files[path].size} : o = N!Done([s EXCEPT !.files = same(size)], 0)
    BY <1>3
  <2> DEFINE files == same(size)
  <2>2. /\ files \in FileTables
        /\ \A n \in Names : /\ (files[n] = NULL) <=> (s.files[n] = NULL)
                            /\ s.files[n] # NULL => /\ files[n].serial = s.files[n].serial
                                                    /\ files[n].kind = s.files[n].kind
    BY <1>0, <1>3 DEF FileTables, FileRecords, N!NamedFilesAssumption
  <2>3. o.m = [s EXCEPT !.files = files] /\ o.r = 0
    BY <2>1 DEF N!Done
  <2> HIDE DEF files
  <2>4. Fits(files, s.slots) /\ Standing(files, s.current)
    BY <1>0, <2>2, FilesStay
  <2>5. Sound(o.m) /\ o.m.slots = s.slots /\ o.m.files = files
    BY <1>0, <2>2, <2>3, <2>4, WithFiles
  <2>6. \A i \in FileSlots : HasOpen(files, s.slots, i, path) =>
          access \subseteq s.slots[i].share /\ s.slots[i].access \subseteq share
    BY <1>3, <2>2 DEF HasOpen, N!Shared, N!OpenOn
  <2> QED BY <1>3, <2>2, <2>3, <2>5, <2>6 DEF Created, Allows
<1> HIDE DEF made
<1>4. \/ o = N!Fails(s, "EIO") \/ o = N!Fails(s, "ENOENT")
      \/ o = N!Fails(s, "EEXIST") \/ o = N!Fails(s, "EACCES")
      \/ s.files[path] = NULL /\ o = N!Done(made, 1)
      \/ /\ s.files[path] # NULL
         /\ \E size \in {0, s.files[path].size} : o = N!Done([s EXCEPT !.files = same(size)], 0)
         /\ N!Shared(s, path, access, share)
  BY DEF N!CreateFileA, made, N!Shared, o
<1> QED BY <1>1, <1>2, <1>3, <1>4

(* A slot takes a file whose other streams allow it. *)
Takes(s, t, slot, path, share) ==
  /\ Sound(t) /\ t.files = s.files
  /\ t.slots[slot].serial = t.files[path].serial /\ t.slots[slot].share = share

LEMMA TakenKept ==
  ASSUME N!NamedFilesAssumption, NEW s, Sound(s), NEW slot \in FileSlots, NEW path \in Names,
         NEW access \in SUBSET N!Rights, NEW share \in SUBSET N!Rights, NEW append \in BOOLEAN,
         Allows(s, path, access, share)
  PROVE  Takes(s, N!Taken(s, slot, path, access, share, append), slot, path, share)
<1> DEFINE entry == [serial |-> s.files[path].serial, access |-> access, share |-> share,
                      append |-> append, delete |-> NULL]
<1>0. /\ s \in NamedStates /\ s.files \in FileTables /\ s.slots \in SlotTables
      /\ Fits(s.files, s.slots) /\ Standing(s.files, s.current)
  BY DEF Sound, NamedStates
<1>1. entry \in StreamRecords /\ entry.serial = s.files[path].serial /\ entry.delete = NULL
      /\ entry.access = access /\ entry.share = share
  BY <1>0 DEF FileTables, FileRecords, StreamRecords, Allows
<1>2. N!Taken(s, slot, path, access, share, append) = [s EXCEPT !.slots[slot] = entry]
  BY DEF N!Taken
<1> HIDE DEF entry
<1>3. Fits(s.files, [s.slots EXCEPT ![slot] = entry])
  BY <1>0, <1>1, SlotSet DEF HasOpen, Allows
<1>4. [s.slots EXCEPT ![slot] = entry][slot] = entry
  BY <1>0 DEF SlotTables
<1> QED BY <1>0, <1>1, <1>2, <1>3, <1>4, WithSlot DEF Takes

(* Removing a file nobody has open. *)
LEMMA DeleteFileKept ==
  ASSUME N!NamedFilesAssumption, NEW s, Sound(s), NEW path \in Names
  PROVE  Sound(N!DeleteFileA(s, path).m) /\ N!DeleteFileA(s, path).m.slots = s.slots
<1> DEFINE files == [s.files EXCEPT ![path] = NULL]
           o == N!DeleteFileA(s, path)
<1>0. /\ s \in NamedStates /\ s.files \in FileTables /\ s.slots \in SlotTables
      /\ Fits(s.files, s.slots) /\ Standing(s.files, s.current)
  BY DEF Sound, NamedStates
<1>1. \/ o.m = s
      \/ /\ N!OpenOn(s, path) = {} /\ s.files[path].kind # "directory"
         /\ o.m = [s EXCEPT !.files = files]
  BY DEF N!DeleteFileA, N!Done, N!Fails
<1>2. ASSUME N!OpenOn(s, path) = {}, s.files[path].kind # "directory"
      PROVE  Fits(files, s.slots) /\ Standing(files, s.current)
  <2>1. \A i \in FileSlots : ~HasOpen(s.files, s.slots, i, path)
    BY <1>2 DEF N!OpenOn, HasOpen
  <2> QED BY <1>0, <1>2, <2>1, FileGone
<1>3. files \in FileTables
  BY <1>0 DEF FileTables
<1> HIDE DEF files, o
<1>4. CASE /\ N!OpenOn(s, path) = {} /\ s.files[path].kind # "directory"
           /\ o.m = [s EXCEPT !.files = files]
  BY <1>0, <1>2, <1>3, <1>4, WithFiles DEF o
<1> QED BY <1>1, <1>4 DEF o

(* A slot of the table that no stream is in, if there is one. *)
LEMMA FreeSlot ==
  ASSUME N!NamedFilesAssumption, NEW s, N!Free(s) # {}
  PROVE  N!Min(N!Free(s)) \in FileSlots /\ N!Min(N!Free(s)) \in N!Free(s)
<1>1. N!Free(s) \in SUBSET Nat /\ N!Free(s) \subseteq FileSlots
  BY DEF N!Free, N!NamedFilesAssumption
<1> QED BY <1>1, MinOfSome

(* Closing frees the slot and leaves the other slots alone. *)
LEMMA CloseKept ==
  ASSUME N!NamedFilesAssumption, NEW s, Sound(s), NEW slot \in FileSlots
  PROVE  LET t == N!__wcrt_file_close(s, slot)
         IN Sound(t) /\ t.slots = [s.slots EXCEPT ![slot] = N!Closed(s.slots[slot].delete)]
<1> DEFINE path == s.slots[slot].delete
           entry == N!Closed(path)
           closed == [s EXCEPT !.slots[slot] = entry]
<1>0. /\ s \in NamedStates /\ s.files \in FileTables /\ s.slots \in SlotTables
      /\ Fits(s.files, s.slots) /\ Standing(s.files, s.current)
  BY DEF Sound, NamedStates
<1>1. path \in {"t", NULL}
  BY <1>0 DEF SlotTables, StreamRecords
<1>2. entry \in StreamRecords /\ entry.serial = 0
  BY <1>1 DEF N!Closed, StreamRecords
<1> HIDE DEF entry
<1>3. Fits(s.files, [s.slots EXCEPT ![slot] = entry])
  BY <1>0, <1>2, SlotSet
<1>4. Sound(closed) /\ closed.slots = [s.slots EXCEPT ![slot] = entry]
  BY <1>0, <1>2, <1>3, WithSlot
<1>5. N!__wcrt_file_close(s, slot) = IF path = NULL THEN closed ELSE N!DeleteFileA(closed, path).m
  BY DEF N!__wcrt_file_close, entry
<1> HIDE DEF closed
<1>6. path # NULL => path \in Names
  BY <1>1 DEF N!NamedFilesAssumption
<1>7. path # NULL => /\ Sound(N!DeleteFileA(closed, path).m)
                     /\ N!DeleteFileA(closed, path).m.slots = closed.slots
  BY <1>4, <1>6, DeleteFileKept
<1> HIDE DEF path
<1> QED BY <1>4, <1>5, <1>7 DEF entry, path

(* Opening in a slot gives a stream that shares what was asked for, or
   leaves everything as it is. *)
Sharings == {"DENYRW", "DENYWR", "DENYRD", "DENYNO"}
LEMMA SharingFact ==
  /\ DOMAIN N!wcrt_file_sharing = Sharings
  /\ \A sharing \in Sharings : N!wcrt_file_sharing[sharing] \in SUBSET N!Rights
  /\ N!wcrt_file_sharing["DENYNO"] = N!Rights
BY DEF N!wcrt_file_sharing, N!Rights, Sharings

Opened(o, slot, path, share) ==
  /\ Sound(o.m)
  /\ o.r # -1 =>
       /\ o.r = slot /\ o.m.files[path] # NULL
       /\ o.m.slots[slot].serial = o.m.files[path].serial /\ o.m.slots[slot].share = share

LEMMA OpenSharedKept ==
  ASSUME N!NamedFilesAssumption, NEW s, Sound(s), NEW slot \in FileSlots, NEW path \in Names,
         NEW letter \in {"r", "w", "a"}, NEW update \in BOOLEAN, NEW translation,
         NEW sharing \in Sharings
  PROVE  Opened(N!__wcrt_file_open_shared(s, slot, path, letter, update, translation, sharing),
                slot, path, N!wcrt_file_sharing[sharing])
<1> DEFINE access == IF update THEN N!Rights ELSE IF letter = "r" THEN {"read"} ELSE {"write"}
           share == N!wcrt_file_sharing[sharing]
           creation == [r |-> "OPEN_EXISTING", w |-> "CREATE_ALWAYS", a |-> "OPEN_ALWAYS"][letter]
           created == N!CreateFileA(s, path, access, share, creation)
           t == N!Taken(created.m, slot, path, access, share, letter = "a")
           o == N!__wcrt_file_open_shared(s, slot, path, letter, update, translation, sharing)
<1>1. access \in SUBSET N!Rights /\ share \in SUBSET N!Rights
  BY SharingFact DEF N!Rights
<1> SUFFICES Opened(o, slot, path, share)
  OBVIOUS
<1> HIDE DEF access, share, creation
<1>2. Created(s, created, path, access, share)
  BY <1>1, CreateFileKept
<1> HIDE DEF created
<1>3. created.r # -1 => Takes(created.m, t, slot, path, share)
  BY <1>1, <1>2, TakenKept DEF Created
<1> HIDE DEF t
<1>4. \/ o \in {N!Fails(s, "EINVAL"), N!Fails(s, created.errno)}
      \/ created.r # -1 /\ o = N!Done(t, slot)
  BY DEF N!__wcrt_file_open_shared, created, t, access, share, creation
<1> HIDE DEF o
<1>5. CASE o \in {N!Fails(s, "EINVAL"), N!Fails(s, created.errno)}
  BY <1>5 DEF N!Fails, Opened
<1>6. CASE created.r # -1 /\ o = N!Done(t, slot)
  <2>1. o.m = t /\ o.r = slot
    BY <1>6 DEF N!Done
  <2> QED BY <1>2, <1>3, <1>6, <2>1 DEF Opened, Created, Allows, Takes
<1> QED BY <1>4, <1>5, <1>6

LEMMA OpenStreamKept ==
  ASSUME N!NamedFilesAssumption, NEW s, Sound(s), NEW path \in Names,
         NEW letter \in {"r", "w", "a"}, NEW update \in BOOLEAN, NEW translation,
         NEW sharing \in Sharings
  PROVE  Sound(N!_fsopen(s, path, letter, update, translation, sharing).m)
<1>1. N!Free(s) # {} => N!Min(N!Free(s)) \in FileSlots
  BY FreeSlot
<1>2. CASE N!Free(s) = {}
  BY <1>2 DEF N!_fsopen, N!Fails
<1>3. CASE N!Free(s) # {}
  BY <1>1, <1>3, OpenSharedKept DEF N!_fsopen, Opened
<1> QED BY <1>2, <1>3

(* _sopen, also when the attribute of the new file could not be set. *)
LEMMA OpenDescriptorKept ==
  ASSUME N!NamedFilesAssumption, NEW s, Sound(s), NEW path \in Names,
         NEW flags, NEW sharing, NEW permissions, NEW attributes \in BOOLEAN
  PROVE  Sound(N!_sopen(s, path, flags, sharing, permissions, attributes).m)
<1> DEFINE access == N!Access(flags)
           share == N!wcrt_file_sharing[sharing]
           created == N!CreateFileA(s, path, access, share, N!Creation(flags))
           readonly == "CREAT" \in flags /\ "write" \notin permissions \ s.mask /\ created.r = 1
           marked == [created.m EXCEPT !.files = [created.m.files EXCEPT ![path].readonly = TRUE]]
           ready == IF readonly THEN marked ELSE created.m
           slot == N!Min(N!Free(s))
           append == "APPEND" \in flags
           t == N!Taken(ready, slot, path, access, share, append)
           o == N!_sopen(s, path, flags, sharing, permissions, attributes)
<1>1. \/ \E error : o = N!Fails(s, error)
      \/ /\ sharing \in Sharings /\ N!Free(s) # {} /\ created.r # -1
         /\ o = N!Fails(created.m, "EACCES") \/ o = N!Done(t, slot)
  BY SharingFact DEF N!_sopen
<1>2. CASE \E error : o = N!Fails(s, error)
  BY <1>2 DEF N!Fails
<1>3. CASE /\ sharing \in Sharings /\ N!Free(s) # {} /\ created.r # -1
           /\ o = N!Fails(created.m, "EACCES") \/ o = N!Done(t, slot)
  <2>1. access \in SUBSET N!Rights /\ share \in SUBSET N!Rights
    BY <1>3, SharingFact DEF N!Access, N!Rights
  <2> HIDE DEF access, share
  <2>2. Created(s, created, path, access, share)
    BY <2>1, CreateFileKept
  <2> HIDE DEF created
  <2> DEFINE files == [created.m.files EXCEPT ![path].readonly = TRUE]
  <2>3. /\ created.m \in NamedStates /\ created.m.files \in FileTables
        /\ created.m.slots \in SlotTables /\ Fits(created.m.files, created.m.slots)
        /\ Standing(created.m.files, created.m.current)
    BY <2>2 DEF Sound, NamedStates, Created
  <2>4. /\ files \in FileTables
        /\ \A n \in Names : /\ (files[n] = NULL) <=> (created.m.files[n] = NULL)
                            /\ created.m.files[n] # NULL =>
                                 /\ files[n].serial = created.m.files[n].serial
                                 /\ files[n].kind = created.m.files[n].kind
    <3>1. created.m.files[path] \in FileRecords
      BY <1>3, <2>2, <2>3 DEF FileTables, Created, Allows
    <3>2. LET r == [created.m.files[path] EXCEPT !.readonly = TRUE]
          IN r \in FileRecords /\ r.serial = created.m.files[path].serial /\ r.kind = created.m.files[path].kind
      BY <3>1 DEF FileRecords
    <3>3. NULL \notin FileRecords
      BY DEF FileRecords, N!NamedFilesAssumption
    <3>4. files = [n \in Names |-> IF n = path THEN [created.m.files[path] EXCEPT !.readonly = TRUE]
                                  ELSE created.m.files[n]]
      BY <2>3 DEF FileTables
    <3> HIDE DEF files
    <3> QED BY <2>3, <3>1, <3>2, <3>3, <3>4 DEF FileTables
  <2>5. marked = [created.m EXCEPT !.files = files]
    OBVIOUS
  <2> HIDE DEF files, marked, readonly
  <2>6. Fits(files, created.m.slots) /\ Standing(files, created.m.current)
    BY <2>3, <2>4, FilesStay
  <2>7. Sound(marked) /\ marked.slots = s.slots /\ marked.files = files
    BY <2>2, <2>3, <2>4, <2>5, <2>6, WithFiles DEF Created
  <2>8. Sound(ready) /\ Allows(ready, path, access, share)
    <3>1. CASE readonly
      BY <3>1, <1>3, <2>2, <2>4, <2>7 DEF Created, Allows, HasOpen
    <3>2. CASE ~readonly
      BY <3>2, <1>3, <2>2 DEF Created
    <3> QED BY <3>1, <3>2
  <2> HIDE DEF ready
  <2>9. slot \in FileSlots
    BY <1>3, FreeSlot
  <2>10. append \in BOOLEAN
    OBVIOUS
  <2> HIDE DEF slot, append
  <2>11. Sound(t)
    BY <2>1, <2>8, <2>9, <2>10, TakenKept DEF Takes
  <2> HIDE DEF t, o
  <2> QED BY <1>3, <2>2, <2>11 DEF N!Fails, N!Done, Created, o
<1> QED BY <1>1, <1>2, <1>3

LEMMA OpenDirectoryKept ==
  ASSUME N!NamedFilesAssumption, NEW s, Sound(s), NEW path \in Names
  PROVE  Sound(N!__wcrt_open_directory_descriptor(s, path).m)
<1> DEFINE slot == N!Min(N!Free(s))
           t == N!Taken(s, slot, path, {}, N!Rights, FALSE)
           o == N!__wcrt_open_directory_descriptor(s, path)
<1>1. \/ o = N!Fails(s, "EMFILE") \/ o = N!Fails(s, "ENOENT")
      \/ N!Free(s) # {} /\ s.files[path] # NULL /\ o = N!Done(t, slot)
  BY DEF N!__wcrt_open_directory_descriptor
<1>2. s.files[path] # NULL => Allows(s, path, {}, N!Rights)
  BY DEF Sound, NamedStates, SlotTables, StreamRecords, Allows
<1> SUFFICES Sound(o.m)
  OBVIOUS
<1> HIDE DEF o
<1>3. CASE N!Free(s) # {} /\ s.files[path] # NULL /\ o = N!Done(t, slot)
  <2>1. slot \in FileSlots
    BY <1>3, FreeSlot
  <2> HIDE DEF slot
  <2>2. Sound(t)
    BY <1>2, <1>3, <2>1, TakenKept DEF Takes
  <2> HIDE DEF t
  <2> QED BY <1>3, <2>2 DEF N!Done
<1> HIDE DEF t, slot
<1> QED BY <1>1, <1>3 DEF N!Fails

(* A temporary stream shares its file with everybody, and remembers it. *)
LEMMA TemporaryKept ==
  ASSUME N!NamedFilesAssumption, NEW s, Sound(s)
  PROVE  Sound(N!tmpfile(s, "t").m)
<1> DEFINE named0 == N!CreateFileA(s, "t", N!Rights, N!Rights, "CREATE_NEW")
           o == N!fopen(named0.m, "t", "w", TRUE, "b")
           entry(slot) == [o.m.slots[slot] EXCEPT !.delete = "t"]
           result == N!tmpfile(s, "t")
<1> "t" \in Names
  BY DEF N!NamedFilesAssumption
<1>1. Sound(named0.m)
  BY CreateFileKept DEF Created
<1>2. Sound(N!remove(named0.m, "t").m)
  <2> HIDE DEF named0
  <2> QED BY <1>1, DeleteFileKept DEF N!remove
<1>3. \/ o = N!Fails(named0.m, "EMFILE")
      \/ \E slot \in FileSlots : Opened(o, slot, "t", N!Rights)
  <2> HIDE DEF named0
  <2>1. CASE N!Free(named0.m) = {}
    BY <2>1 DEF N!fopen
  <2>2. CASE N!Free(named0.m) # {}
    <3>1. N!Min(N!Free(named0.m)) \in FileSlots
      BY <2>2, FreeSlot
    <3>2. Opened(N!__wcrt_file_open_shared(named0.m, N!Min(N!Free(named0.m)), "t", "w", TRUE, "b", "DENYNO"),
                 N!Min(N!Free(named0.m)), "t", N!Rights)
      BY <1>1, <3>1, OpenSharedKept, SharingFact DEF Sharings
    <3> QED BY <2>2, <3>1, <3>2 DEF N!fopen
  <2> QED BY <2>1, <2>2
<1>4. \/ result = N!Fails(s, "0")
      \/ result = N!Fails(N!remove(named0.m, "t").m, o.errno)
      \/ o.r # -1 /\ result = N!Done([o.m EXCEPT !.slots[o.r] = entry(o.r)], o.r)
  BY DEF N!tmpfile
<1> SUFFICES Sound(result.m)
  OBVIOUS
<1> HIDE DEF named0, o, result
<1>5. CASE o.r # -1 /\ result = N!Done([o.m EXCEPT !.slots[o.r] = entry(o.r)], o.r)
  <2>1. PICK slot \in FileSlots : Opened(o, slot, "t", N!Rights)
    BY <1>3, <1>5 DEF N!Fails
  <2> DEFINE taken == o.m.slots[slot]
             owning == entry(slot)
  <2>2. /\ Sound(o.m) /\ o.r = slot /\ o.m.files["t"] # NULL
        /\ taken.serial = o.m.files["t"].serial /\ taken.share = N!Rights
    BY <1>5, <2>1 DEF Opened
  <2>3. /\ o.m \in NamedStates /\ o.m.files \in FileTables
        /\ o.m.slots \in SlotTables /\ Fits(o.m.files, o.m.slots)
    BY <2>2 DEF Sound, NamedStates
  <2>4. taken \in StreamRecords
    BY <2>3 DEF SlotTables
  <2>5. /\ owning \in StreamRecords /\ owning.serial = taken.serial /\ owning.share = N!Rights
        /\ owning.access = taken.access
    BY <2>2, <2>4 DEF StreamRecords
  <2>6. taken.serial # 0
    BY <2>2, <2>3 DEF FileTables, FileRecords
  <2>7. ASSUME NEW i \in FileSlots, i # slot, o.m.slots[i].serial = owning.serial
        PROVE  o.m.slots[i].access \subseteq owning.share /\ owning.access \subseteq o.m.slots[i].share
    <3>1. o.m.slots[i] \in StreamRecords
      BY <2>3 DEF SlotTables
    <3>2. CASE o.m.slots[i] = taken
      BY <2>2, <2>4, <2>5, <3>1, <3>2 DEF StreamRecords
    <3>3. CASE o.m.slots[i] # taken
      <4>1. taken.access \subseteq o.m.slots[i].share
        BY <2>3, <2>5, <2>6, <2>7, <3>3 DEF Fits, Compatible
      <4> QED BY <2>5, <3>1, <4>1 DEF StreamRecords
    <3> QED BY <3>2, <3>3
  <2>8. Fits(o.m.files, [o.m.slots EXCEPT ![slot] = owning])
    <3> HIDE DEF owning, taken
    <3> QED BY <2>2, <2>3, <2>5, <2>7, SlotSet
  <2> HIDE DEF owning
  <2>9. Sound([o.m EXCEPT !.slots[slot] = owning])
    BY <2>1, <2>2, <2>3, <2>5, <2>8, WithSlot
  <2>10. result.m = [o.m EXCEPT !.slots[slot] = owning]
    BY <1>5, <2>2 DEF N!Done, owning
  <2> QED BY <2>9, <2>10
<1> QED BY <1>2, <1>4, <1>5 DEF N!Fails

LEMMA ReopenKept ==
  ASSUME N!NamedFilesAssumption, NEW s, Sound(s), NEW slot \in FileSlots, NEW path \in Names,
         NEW letter \in {"r", "w", "a"}, NEW update \in BOOLEAN
  PROVE  Sound(N!freopen(s, slot, path, letter, update).m)
<1>1. Sound(N!__wcrt_file_close(s, slot))
  BY CloseKept
<1>2. Opened(N!__wcrt_file_open_shared(N!__wcrt_file_close(s, slot), slot, path, letter, update,
                                       "default", "DENYNO"),
             slot, path, N!wcrt_file_sharing["DENYNO"])
  BY <1>1, OpenSharedKept DEF Sharings
<1> QED BY <1>2 DEF N!freopen, Opened

(* A duplicate has the rights of its original and its file, but not the
   duty to delete it. *)
LEMMA DuplicateKept ==
  ASSUME N!NamedFilesAssumption, NEW s, Sound(s), NEW from \in FileSlots, NEW to \in FileSlots
  PROVE  Sound(N!_dup2(s, from, to).m)
<1> DEFINE t == N!__wcrt_file_close(s, to)
           copy == [s.slots[from] EXCEPT !.delete = NULL]
           o == N!_dup2(s, from, to)
<1>1. \/ o.m = s
      \/ s.slots[from].serial # 0 /\ from # to /\ o.m = [t EXCEPT !.slots[to] = copy]
  BY DEF N!_dup2, N!Fails, N!Done, N!Open
<1> SUFFICES Sound(o.m)
  OBVIOUS
<1> HIDE DEF o, t, copy
<1>2. CASE s.slots[from].serial # 0 /\ from # to /\ o.m = [t EXCEPT !.slots[to] = copy]
  <2>1. Sound(t) /\ t.slots = [s.slots EXCEPT ![to] = N!Closed(s.slots[to].delete)]
    BY CloseKept DEF t
  <2>2. s.slots \in SlotTables
    BY DEF Sound, NamedStates
  <2>3. t \in NamedStates /\ t.files \in FileTables /\ t.slots \in SlotTables /\ Fits(t.files, t.slots)
    BY <2>1 DEF Sound, NamedStates
  <2> DEFINE original == t.slots[from]
  <2>4. original = s.slots[from] /\ original \in StreamRecords /\ original.serial # 0
    BY <1>2, <2>1, <2>2 DEF SlotTables
  <2>5. /\ copy \in StreamRecords /\ copy.delete = NULL /\ copy.serial = original.serial
        /\ copy.access = original.access /\ copy.share = original.share
        /\ copy.append = original.append
    BY <2>4 DEF StreamRecords, copy
  <2>6. \E n \in Names : t.files[n] # NULL /\ copy.serial = t.files[n].serial
    BY <2>3, <2>4, <2>5 DEF Fits, Rooted, HasOpen
  <2>7. ASSUME NEW i \in FileSlots, t.slots[i].serial = copy.serial, t.slots[i] # copy
        PROVE  t.slots[i].access \subseteq copy.share /\ copy.access \subseteq t.slots[i].share
    <3>1. t.slots[i] \in StreamRecords
      BY <2>3 DEF SlotTables
    <3>2. CASE t.slots[i] # original
      BY <2>3, <2>4, <2>5, <2>7, <3>2 DEF Fits, Compatible
    <3>3. CASE t.slots[i] = original
      <4>1. original.delete # NULL
        BY <2>4, <2>5, <2>7, <3>3 DEF StreamRecords
      <4>2. original.share = N!Rights
        BY <2>3, <2>4, <4>1 DEF Fits, OwnTemporary
      <4> QED BY <2>4, <2>5, <3>3, <4>2 DEF StreamRecords
    <3> QED BY <3>2, <3>3
  <2>8. Fits(t.files, [t.slots EXCEPT ![to] = copy])
    BY <2>3, <2>5, <2>6, <2>7, SlotSet
  <2>9. Sound([t EXCEPT !.slots[to] = copy])
    BY <2>1, <2>2, <2>3, <2>5, <2>8, WithSlot
  <2> QED BY <1>2, <2>9
<1> QED BY <1>1, <1>2

(* Renaming, attributes and directories. *)
LEMMA RenameKept ==
  ASSUME N!NamedFilesAssumption, NEW s, Sound(s),
         NEW from \in {"f", "t", "x"}, NEW to \in {"f", "t", "x"}
  PROVE  Sound(N!rename(s, from, to).m)
<1> DEFINE files == [s.files EXCEPT ![to] = s.files[from], ![from] = NULL]
           o == N!rename(s, from, to)
<1>0. /\ s \in NamedStates /\ s.files \in FileTables /\ s.slots \in SlotTables /\ Fits(s.files, s.slots)
      /\ Standing(s.files, s.current)
      /\ from \in Names /\ to \in Names /\ from # "d"
  BY DEF Sound, NamedStates, N!NamedFilesAssumption
<1>1. \/ o.m = s
      \/ /\ s.files[from] # NULL /\ s.files[to] = NULL /\ N!OpenOn(s, from) = {}
         /\ o.m = [s EXCEPT !.files = files]
  BY DEF N!rename, N!Fails, N!Done
<1>2. files \in FileTables
  BY <1>0 DEF FileTables
<1>3. ASSUME s.files[from] # NULL, s.files[to] = NULL, N!OpenOn(s, from) = {}
      PROVE  Fits(files, s.slots) /\ Standing(files, s.current)
  <2>1. \A i \in FileSlots : ~HasOpen(s.files, s.slots, i, from)
    BY <1>3 DEF N!OpenOn, HasOpen
  <2>2. s.files[from].kind = "file"
    BY <1>0, <1>3 DEF Fits, Placed, FileTables, FileRecords
  <2> QED BY <1>0, <1>3, <2>1, <2>2, FileMoved
<1> SUFFICES Sound(o.m)
  OBVIOUS
<1> HIDE DEF files, o
<1> QED BY <1>0, <1>1, <1>2, <1>3, WithFiles

LEMMA MarkKept ==
  ASSUME N!NamedFilesAssumption, NEW s, Sound(s), NEW path \in Names, NEW mode
  PROVE  Sound(N!_chmod(s, path, mode).m)
<1> DEFINE readonly == "write" \notin mode
           files == [s.files EXCEPT ![path].readonly = readonly]
           o == N!_chmod(s, path, mode)
<1>0. /\ s \in NamedStates /\ s.files \in FileTables /\ s.slots \in SlotTables
      /\ Fits(s.files, s.slots) /\ Standing(s.files, s.current)
  BY DEF Sound, NamedStates
<1>1. o.m = s \/ (s.files[path] # NULL /\ o.m = [s EXCEPT !.files = files])
  BY DEF N!_chmod, N!Fails, N!Done
<1>2. readonly \in BOOLEAN
  OBVIOUS
<1> HIDE DEF readonly
<1>3. ASSUME s.files[path] # NULL
      PROVE  /\ files \in FileTables
             /\ \A n \in Names : /\ (files[n] = NULL) <=> (s.files[n] = NULL)
                                 /\ s.files[n] # NULL => /\ files[n].serial = s.files[n].serial
                                                         /\ files[n].kind = s.files[n].kind
  BY <1>0, <1>2, <1>3 DEF FileTables, FileRecords, N!NamedFilesAssumption
<1> SUFFICES Sound(o.m)
  OBVIOUS
<1> HIDE DEF files, o
<1>4. s.files[path] # NULL => Fits(files, s.slots) /\ Standing(files, s.current)
  BY <1>0, <1>3, FilesStay
<1> QED BY <1>0, <1>1, <1>3, <1>4, WithFiles

LEMMA MakeDirectoryKept ==
  ASSUME N!NamedFilesAssumption, NEW s, Sound(s)
  PROVE  Sound(N!_mkdir(s, "d").m)
<1> DEFINE born == N!File(N!Serial(s), "directory")
           files == [s.files EXCEPT !["d"] = born]
           o == N!_mkdir(s, "d")
<1>0. /\ s \in NamedStates /\ s.files \in FileTables /\ s.slots \in SlotTables /\ Fits(s.files, s.slots)
      /\ Standing(s.files, s.current)
      /\ "d" \in Names
  BY DEF Sound, NamedStates, N!NamedFilesAssumption
<1>1. o.m = s \/ (s.files["d"] = NULL /\ o.m = [s EXCEPT !.files = files])
  BY DEF N!_mkdir, N!Fails, N!Done
<1>2. born \in FileRecords /\ born.serial = N!Serial(s)
  BY <1>0, SerialFree DEF N!File, FileRecords
<1> HIDE DEF born
<1>3. files \in FileTables
  BY <1>0, <1>2 DEF FileTables
<1>4. s.files["d"] = NULL => Fits(files, s.slots) /\ Standing(files, s.current)
  BY <1>0, <1>2, SerialFree, FileBorn
<1> SUFFICES Sound(o.m)
  OBVIOUS
<1> HIDE DEF files, o
<1> QED BY <1>0, <1>1, <1>3, <1>4, WithFiles

LEMMA RemoveDirectoryKept ==
  ASSUME N!NamedFilesAssumption, NEW s, Sound(s), NEW path \in Names
  PROVE  Sound(N!_rmdir(s, path).m)
<1> DEFINE files == [s.files EXCEPT ![path] = NULL]
           o == N!_rmdir(s, path)
<1>0. /\ s \in NamedStates /\ s.files \in FileTables /\ s.slots \in SlotTables
      /\ Fits(s.files, s.slots) /\ Standing(s.files, s.current)
  BY DEF Sound, NamedStates
<1>1. o.m = s \/ (N!OpenOn(s, path) = {} /\ path # s.current /\ o.m = [s EXCEPT !.files = files])
  BY DEF N!_rmdir, N!wcrt_directory_protected, N!Done, N!Fails
<1>2. ASSUME N!OpenOn(s, path) = {}, path # s.current
      PROVE  Fits(files, s.slots) /\ Standing(files, s.current)
  <2>1. \A i \in FileSlots : ~HasOpen(s.files, s.slots, i, path)
    BY <1>2 DEF N!OpenOn, HasOpen
  <2> QED BY <1>0, <1>2, <2>1, FileGone
<1>3. files \in FileTables
  BY <1>0 DEF FileTables
<1> SUFFICES Sound(o.m)
  OBVIOUS
<1> HIDE DEF files, o
<1> QED BY <1>0, <1>1, <1>2, <1>3, WithFiles

LEMMA SettingsKept ==
  ASSUME N!NamedFilesAssumption, NEW s, Sound(s), NEW permissions, NEW path \in {"d", Root}
  PROVE  Sound(N!_umask(s, permissions).m) /\ Sound(N!_chdir(s, path).m)
<1>1. Sound(N!_umask(s, permissions).m)
  BY DEF N!_umask, N!Done, Sound, NamedStates
<1>2. Sound(N!_chdir(s, path).m)
  <2>1. \/ N!_chdir(s, path).m = s
        \/ N!_chdir(s, path).m = [s EXCEPT !.current = path] /\ Standing(s.files, path)
    <3>1. s \in NamedStates /\ Placed(s.files) /\ "d" \in Names
      BY DEF Sound, Fits, N!NamedFilesAssumption
    <3>2. CASE path = Root
      BY <3>2 DEF N!_chdir, N!Done, Standing
    <3>3. CASE path = "d" /\ path # Root
      <4>1. \/ N!_chdir(s, "d").m = s
            \/ /\ N!_chdir(s, "d").m = [s EXCEPT !.current = "d"]
               /\ N!Reachable(s, "d") /\ s.files["d"] # NULL /\ s.files["d"].kind # "file"
        BY <3>3 DEF N!_chdir, N!Done, N!Fails
      <4>2. s.files["d"] # NULL /\ s.files["d"].kind # "file" => s.files["d"].kind = "directory"
        BY <3>1 DEF NamedStates, FileTables, FileRecords
      <4>3. N!Reachable(s, "d") => Parent["d"] \in {Root, "d"}
        BY <3>1 DEF N!Reachable, Placed, N!NamedFilesAssumption
      <4> QED BY <3>3, <4>1, <4>2, <4>3 DEF Standing
    <3> QED BY <3>2, <3>3
  <2>2. [s EXCEPT !.current = path] \in NamedStates
    BY DEF Sound, NamedStates, N!NamedFilesAssumption
  <2> QED BY <2>1, <2>2 DEF Sound, NamedStates
<1> QED BY <1>1, <1>2

(* What closing does to the files: it deletes the one the slot remembers,
   unless it is read-only or open elsewhere. *)
AfterClose(s, slot) ==
  [n \in Names |-> IF /\ n = s.slots[slot].delete /\ s.files[n] # NULL
                      /\ ~s.files[n].readonly /\ N!OpenOn(s, n) \subseteq {slot}
                   THEN NULL ELSE s.files[n]]

LEMMA CloseDeletes ==
  ASSUME N!NamedFilesAssumption, NEW s, Sound(s), NEW slot \in FileSlots
  PROVE  N!__wcrt_file_close(s, slot).files = AfterClose(s, slot)
<1> DEFINE path == s.slots[slot].delete
           entry == N!Closed(path)
           closed == [s EXCEPT !.slots[slot] = entry]
           t == N!__wcrt_file_close(s, slot)
           deleted == [n \in Names |-> IF /\ n = path /\ s.files[n] # NULL
                                          /\ ~s.files[n].readonly /\ N!OpenOn(s, n) \subseteq {slot}
                                       THEN NULL ELSE s.files[n]]
<1> SUFFICES t.files = deleted
  BY DEF AfterClose
<1>0. /\ s \in NamedStates /\ s.files \in FileTables /\ s.slots \in SlotTables
      /\ Fits(s.files, s.slots) /\ Standing(s.files, s.current)
  BY DEF Sound, NamedStates
<1>1. path \in {"t", NULL}
  BY <1>0 DEF SlotTables, StreamRecords
<1>2. t = IF path = NULL THEN closed ELSE N!DeleteFileA(closed, path).m
  BY DEF N!__wcrt_file_close
<1>3. entry.serial = 0
  BY DEF N!Closed
<1> HIDE DEF entry
<1>4. closed.files = s.files /\ closed.slots = [s.slots EXCEPT ![slot] = entry]
  BY <1>0 DEF NamedStates
<1> HIDE DEF closed, path, t
<1>5. CASE path = NULL
  <2>1. deleted = s.files
    BY <1>0, <1>5 DEF FileTables, N!NamedFilesAssumption
  <2> QED BY <1>2, <1>4, <1>5, <2>1 
<1>6. CASE path = "t"
  <2> USE <1>6
  <2>1. "t" \in Names /\ "t" # NULL /\ Parent["t"] = Root
    BY DEF N!NamedFilesAssumption
  <2>2. s.files["t"] # NULL => s.files["t"].kind # "directory" /\ s.files["t"].serial # 0
    BY <1>0, <2>1 DEF Fits, Placed, FileTables, FileRecords
  <2>3. s.files["t"] # NULL => (N!OpenOn(closed, "t") = {} <=> N!OpenOn(s, "t") \subseteq {slot})
    <3>1. closed.slots[slot].serial = 0 /\ \A i \in FileSlots : i # slot => closed.slots[i] = s.slots[i]
      BY <1>0, <1>3, <1>4 DEF SlotTables
    <3> QED BY <1>4, <2>2, <3>1 DEF N!OpenOn
  <2>4. t = IF \/ s.files["t"] = NULL \/ s.files["t"].readonly \/ N!OpenOn(closed, "t") # {}
            THEN closed ELSE [closed EXCEPT !.files["t"] = NULL]
    BY <1>2, <1>4, <2>1, <2>2 DEF N!DeleteFileA, N!Reachable, N!Done, N!Fails
  <2>5. closed \in [files : FileTables, slots : SlotTables, mask : SUBSET N!Rights,
                    fmode : {"text", "invalid"}, current : Names \union {Root}, calls : Nat]
    <3>1. entry \in StreamRecords
      BY <1>1 DEF entry, N!Closed, StreamRecords
    <3> QED BY <1>0, <3>1 DEF closed, NamedStates, SlotTables
  <2>6. [closed EXCEPT !.files["t"] = NULL].files = [s.files EXCEPT !["t"] = NULL]
    BY <1>4, <2>5
  <2>7. CASE s.files["t"] = NULL \/ s.files["t"].readonly \/ N!OpenOn(closed, "t") # {}
    <3>1. deleted = s.files
      BY <1>0, <2>3, <2>7 DEF FileTables
    <3> QED BY <1>4, <2>4, <2>7, <3>1 
  <2>8. CASE ~ (s.files["t"] = NULL \/ s.files["t"].readonly \/ N!OpenOn(closed, "t") # {})
    <3>1. deleted = [s.files EXCEPT !["t"] = NULL]
      BY <1>0, <2>1, <2>3, <2>8 DEF FileTables
    <3> QED BY <2>4, <2>6, <2>8, <3>1 
  <2> QED BY <2>7, <2>8
<1> QED BY <1>1, <1>5, <1>6

LEMMA StreamsFit ==
  ASSUME N!NamedFilesAssumption, Sound(named)
  PROVE  N!StreamsKeepTheirFiles
<1>0. /\ named \in NamedStates /\ named.files \in FileTables /\ named.slots \in SlotTables
      /\ Fits(named.files, named.slots)
  BY DEF Sound, NamedStates
<1>1. \A i \in FileSlots, n \in Names : i \in N!OpenOn(named, n) <=> HasOpen(named.files, named.slots, i, n)
  BY DEF N!OpenOn, HasOpen
<1>2. \A n \in Names : N!OpenOn(named, n) \subseteq FileSlots
  BY DEF N!OpenOn
<1>3. \A n \in Names : \A i, j \in N!OpenOn(named, n) :
        i # j /\ named.slots[i] # named.slots[j] => named.slots[i].access \subseteq named.slots[j].share
  <2> SUFFICES ASSUME NEW n \in Names, NEW i \in N!OpenOn(named, n), NEW j \in N!OpenOn(named, n),
                      named.slots[i] # named.slots[j]
               PROVE  named.slots[i].access \subseteq named.slots[j].share
    OBVIOUS
  <2>1. /\ i \in FileSlots /\ j \in FileSlots /\ named.slots[i].serial = named.slots[j].serial
        /\ named.slots[i].serial # 0
    BY <1>0, <1>1, <1>2 DEF HasOpen, FileTables, FileRecords
  <2> QED BY <1>0, <2>1 DEF Fits, Compatible
<1>4. ASSUME NEW i \in N!Used
      PROVE  /\ \E n \in Names : i \in N!OpenOn(named, n)
             /\ LET path == named.slots[i].delete
                    after == N!fclose(named, i).m.files
                    own == {n \in Names : n = path /\ i \in N!OpenOn(named, n)}
                IN /\ path # NULL => own = {path}
                   /\ \A n \in Names :
                        after[n] = IF n \in own /\ N!OpenOn(named, n) = {i} /\ ~named.files[n].readonly
                                   THEN NULL ELSE named.files[n]
                   /\ \A j \in FileSlots \ {i} : N!Open(named.slots[j]) \/ named.slots[j].delete = NULL =>
                        \A n \in Names : N!_dup2(named, i, j).m.files[n] # named.files[n] =>
                                         j \in N!OpenOn(named, n)
  <2> DEFINE path == named.slots[i].delete
             after == N!fclose(named, i).m.files
             own == {n \in Names : n = path /\ i \in N!OpenOn(named, n)}
  <2>1. i \in FileSlots /\ named.slots[i].serial # 0
    BY DEF N!Used, N!Open
  <2>2. \E n \in Names : i \in N!OpenOn(named, n)
    BY <1>0, <1>1, <2>1 DEF Fits, Rooted
  <2>3. path # NULL => path = "t" /\ "t" \in Names /\ i \in N!OpenOn(named, "t")
    BY <1>0, <1>1, <2>1 DEF Fits, OwnTemporary, SlotTables, StreamRecords, N!NamedFilesAssumption
  <2>4. path # NULL => own = {path}
    BY <2>3
  <2>5. \A n \in Names : after[n] = IF /\ n = path /\ named.files[n] # NULL /\ ~named.files[n].readonly
                                       /\ N!OpenOn(named, n) \subseteq {i}
                                    THEN NULL ELSE named.files[n]
    <3>1. after = AfterClose(named, i)
      BY <2>1, CloseDeletes DEF N!fclose, N!Done
    <3> HIDE DEF after
    <3> QED BY <3>1 DEF AfterClose
  <2>6. ASSUME NEW n \in Names
        PROVE  after[n] = IF n \in own /\ N!OpenOn(named, n) = {i} /\ ~named.files[n].readonly
                          THEN NULL ELSE named.files[n]
    <3>1. n = path => i \in N!OpenOn(named, n) /\ named.files[n] # NULL
      BY <1>1, <2>1, <2>3 DEF HasOpen, N!NamedFilesAssumption
    <3> HIDE DEF after, path
    <3> QED BY <2>5, <3>1 DEF own
  <2>7. ASSUME NEW j \in FileSlots \ {i}, N!Open(named.slots[j]) \/ named.slots[j].delete = NULL,
               NEW n \in Names, N!_dup2(named, i, j).m.files[n] # named.files[n]
        PROVE  j \in N!OpenOn(named, n)
    <3> DEFINE t == N!__wcrt_file_close(named, j)
               copy == [named.slots[i] EXCEPT !.delete = NULL]
    <3>1. N!_dup2(named, i, j).m = [t EXCEPT !.slots[j] = copy]
      BY <2>1 DEF N!_dup2, N!Open, N!Done
    <3>2. t \in NamedStates
      BY CloseKept DEF Sound
    <3>3. t.files[n] = IF /\ n = named.slots[j].delete /\ named.files[n] # NULL
                          /\ ~named.files[n].readonly /\ N!OpenOn(named, n) \subseteq {j}
                       THEN NULL ELSE named.files[n]
      <4>1. t.files = AfterClose(named, j)
        BY CloseDeletes
      <4> HIDE DEF t
      <4> QED BY <4>1 DEF AfterClose
    <3> HIDE DEF t, copy
    <3>4. [t EXCEPT !.slots[j] = copy].files = t.files
      BY <3>2 DEF NamedStates
    <3>5. n = named.slots[j].delete
      BY <2>7, <3>1, <3>3, <3>4
    <3>6. named.slots[j].delete # NULL /\ named.slots[j].serial # 0 /\ n = "t"
      BY <1>0, <2>7, <3>5 DEF N!Open, N!NamedFilesAssumption, SlotTables, StreamRecords
    <3> QED BY <1>0, <1>1, <3>6 DEF Fits, OwnTemporary
  <2> QED BY <2>2, <2>4, <2>6, <2>7
<1> QED BY <1>3, <1>4 DEF N!StreamsKeepTheirFiles

LEMMA NamesBegin ==
  ASSUME N!NamedFilesAssumption, N!Init
  PROVE  Sound(named)
<1>1. PICK case \in {"plain", "readonly", "large", "untranslated"}, number \in {1, 2} :
        LET f == [serial |-> 1, kind |-> "file", readonly |-> case = "readonly",
                  size |-> number, access_time |-> 1, write_time |-> number]
        IN named = [files |-> [n \in Names |-> IF n = "f" THEN f ELSE NULL],
                    slots |-> [i \in FileSlots |-> N!Closed(NULL)], mask |-> {},
                    fmode |-> IF case = "untranslated" THEN "invalid" ELSE "text",
                    current |-> Root, calls |-> 0]
  BY DEF N!Init
<1> DEFINE readonly == case = "readonly"
           f == [serial |-> 1, kind |-> "file", readonly |-> readonly,
                 size |-> number, access_time |-> 1, write_time |-> number]
           files == [n \in Names |-> IF n = "f" THEN f ELSE NULL]
           slots == [i \in FileSlots |-> N!Closed(NULL)]
           fmode == IF case = "untranslated" THEN "invalid" ELSE "text"
<1>2. readonly \in BOOLEAN /\ fmode \in {"text", "invalid"}
  OBVIOUS
<1>3. f \in FileRecords /\ f.kind = "file"
  <2> HIDE DEF readonly
  <2> QED BY <1>2 DEF FileRecords
<1>4. N!Closed(NULL) \in StreamRecords /\ N!Closed(NULL).serial = 0
  BY DEF N!Closed, StreamRecords
<1> HIDE DEF f, fmode
<1>5. files \in FileTables /\ slots \in SlotTables
  BY <1>3, <1>4 DEF FileTables, SlotTables
<1>6. Fits(files, slots)
  BY <1>3, <1>4 DEF Fits, Numbered, Placed, Rooted, OwnTemporary, Compatible
<1>7. named = [files |-> files, slots |-> slots, mask |-> {}, fmode |-> fmode, current |-> Root, calls |-> 0]
  BY <1>1 DEF f, fmode
<1> HIDE DEF files, slots
<1> QED BY <1>2, <1>5, <1>6, <1>7 DEF Sound, NamedStates, Standing

LEMMA BecomesKept ==
  ASSUME NEW o, Sound(o.m), N!Becomes(o)
  PROVE  Sound(named')
<1>1. named' = [o.m EXCEPT !.calls = @ + 1]
  BY DEF N!Becomes
<1> DEFINE s == o.m
<1>2. s \in NamedStates /\ Fits(s.files, s.slots) /\ Standing(s.files, s.current) /\ named' = [s EXCEPT !.calls = @ + 1]
  BY <1>1 DEF Sound
<1> HIDE DEF s
<1>3. /\ [s EXCEPT !.calls = @ + 1] \in NamedStates
      /\ [s EXCEPT !.calls = @ + 1].files = s.files /\ [s EXCEPT !.calls = @ + 1].slots = s.slots
      /\ [s EXCEPT !.calls = @ + 1].current = s.current
  BY <1>2 DEF NamedStates
<1> QED BY <1>2, <1>3 DEF Sound

(* Every call keeps what is kept. *)
LEMMA NamesStep ==
  ASSUME N!NamedFilesAssumption, Sound(named), N!Next
  PROVE  Sound(named')
<1>0. /\ {"f", "t", "d", "x"} \subseteq Names
      /\ \A i \in N!Used : i \in FileSlots
      /\ {"DENYNO", "DENYWR"} \subseteq Sharings
  BY DEF N!NamedFilesAssumption, N!Used, Sharings
<1>1. ASSUME N!OpenStream PROVE Sound(named')
  <2>1. PICK path \in {"f", "x"}, letter \in {"r", "w"}, sharing \in {"DENYNO", "DENYWR"} :
          N!Becomes(N!_fsopen(named, path, letter, FALSE, "b", sharing))
    BY <1>1 DEF N!OpenStream
  <2>2. Sound(N!_fsopen(named, path, letter, FALSE, "b", sharing).m)
    BY <1>0, OpenStreamKept
  <2> QED BY <2>1, <2>2, BecomesKept
<1>2. ASSUME N!OpenDescriptor PROVE Sound(named')
  <2>1. PICK path \in {"f", "x"}, permissions \in {{}, N!Rights}, attributes \in BOOLEAN :
          N!Becomes(N!_creat(named, path, permissions, attributes))
    BY <1>2 DEF N!OpenDescriptor
  <2>2. Sound(N!_creat(named, path, permissions, attributes).m)
    BY <1>0, OpenDescriptorKept DEF N!_creat
  <2> QED BY <2>1, <2>2, BecomesKept
<1>3. ASSUME N!OpenDirectory PROVE Sound(named')
  <2>1. Sound(N!__wcrt_open_directory_descriptor(named, "d").m)
    BY <1>0, OpenDirectoryKept
  <2> QED BY <1>3, <2>1, BecomesKept DEF N!OpenDirectory
<1>4. ASSUME N!Temporary PROVE Sound(named')
  <2>1. Sound(N!tmpfile(named, "t").m)
    BY TemporaryKept
  <2> QED BY <1>4, <2>1, BecomesKept DEF N!Temporary
<1>5. ASSUME N!Close PROVE Sound(named')
  <2>1. PICK i \in N!Used : N!Becomes(N!fclose(named, i))
    BY <1>5 DEF N!Close
  <2>2. Sound(N!fclose(named, i).m)
    BY <1>0, CloseKept DEF N!fclose, N!Done
  <2> QED BY <2>1, <2>2, BecomesKept
<1>6. ASSUME N!Reopen PROVE Sound(named')
  <2>1. PICK i \in N!Used, letter \in {"r", "w"} : N!Becomes(N!freopen(named, i, "f", letter, TRUE))
    BY <1>6 DEF N!Reopen
  <2>2. Sound(N!freopen(named, i, "f", letter, TRUE).m)
    BY <1>0, ReopenKept
  <2> QED BY <2>1, <2>2, BecomesKept
<1>7. ASSUME N!Duplicate PROVE Sound(named')
  <2>1. PICK i \in N!Used : \/ N!Becomes(N!_dup(named, i))
                            \/ \E j \in FileSlots : N!Becomes(N!_dup2(named, i, j))
    BY <1>7 DEF N!Duplicate
  <2>2. CASE N!Becomes(N!_dup(named, i))
    <3> DEFINE free == N!Min(N!Free(named))
               o == N!_dup(named, i)
    <3>1. N!Free(named) # {} => free \in FileSlots
      BY FreeSlot
    <3>2. o.m \in {named, N!_dup2(named, i, free).m} /\ (N!Free(named) = {} => o.m = named)
      <4>1. [N!_dup2(named, i, free) EXCEPT !.r = free].m = N!_dup2(named, i, free).m
        BY DEF N!_dup2, N!Done, N!Fails
      <4> HIDE DEF free
      <4> QED BY <4>1 DEF N!_dup, N!Fails, free
    <3> HIDE DEF free, o
    <3>3. Sound(o.m)
      BY <1>0, <3>1, <3>2, DuplicateKept
    <3> QED BY <2>2, <3>3, BecomesKept DEF o
  <2>3. ASSUME NEW j \in FileSlots, N!Becomes(N!_dup2(named, i, j)) PROVE Sound(named')
    <3>1. Sound(N!_dup2(named, i, j).m)
      BY <1>0, DuplicateKept
    <3> QED BY <2>3, <3>1, BecomesKept
  <2> QED BY <2>1, <2>2, <2>3
<1>8. ASSUME N!Remove PROVE Sound(named')
  <2>1. PICK path \in Names : N!Becomes(N!remove(named, path))
    BY <1>8 DEF N!Remove
  <2>2. Sound(N!remove(named, path).m)
    BY DeleteFileKept DEF N!remove
  <2> QED BY <2>1, <2>2, BecomesKept
<1>9. ASSUME N!Rename PROVE Sound(named')
  <2>1. PICK from \in {"f", "t", "x"}, to \in {"f", "t", "x"} : N!Becomes(N!rename(named, from, to))
    BY <1>9 DEF N!Rename
  <2>2. Sound(N!rename(named, from, to).m)
    BY RenameKept
  <2> QED BY <2>1, <2>2, BecomesKept
<1>10. ASSUME N!Mark PROVE Sound(named')
  <2>1. PICK mode \in {{}, N!Rights} : N!Becomes(N!_chmod(named, "f", mode))
    BY <1>10 DEF N!Mark
  <2>2. Sound(N!_chmod(named, "f", mode).m)
    BY <1>0, MarkKept
  <2> QED BY <2>1, <2>2, BecomesKept
<1>11. ASSUME N!Mask PROVE Sound(named')
  <2>1. PICK permissions \in {{}, {"write"}} : N!Becomes(N!_umask(named, permissions))
    BY <1>11 DEF N!Mask
  <2>2. Sound(N!_umask(named, permissions).m)
    BY SettingsKept
  <2> QED BY <2>1, <2>2, BecomesKept
<1>12. ASSUME N!MakeDirectory PROVE Sound(named')
  <2>1. Sound(N!_mkdir(named, "d").m)
    BY MakeDirectoryKept
  <2> QED BY <1>12, <2>1, BecomesKept DEF N!MakeDirectory
<1>13. ASSUME N!ChangeDirectory PROVE Sound(named')
  <2>1. PICK path \in {"d", Root} : N!Becomes(N!_chdir(named, path))
    BY <1>13 DEF N!ChangeDirectory
  <2>2. Sound(N!_chdir(named, path).m)
    BY <1>0, SettingsKept
  <2> QED BY <2>1, <2>2, BecomesKept
<1>14. ASSUME N!RemoveDirectory PROVE Sound(named')
  <2>1. Sound(N!_rmdir(named, "d").m)
    BY <1>0, RemoveDirectoryKept
  <2> QED BY <1>14, <2>1, BecomesKept DEF N!RemoveDirectory
<1> QED
  BY <1>1, <1>2, <1>3, <1>4, <1>5, <1>6, <1>7, <1>8, <1>9, <1>10, <1>11, <1>12, <1>13, <1>14
  DEF N!Next

-----------------------------------------------------------------------------
(* What CreateFile does to the file, when it opens one. *)
Does(s, o, path, access, creation) ==
  \/ o.r = -1 /\ o.errno # "0"
  \/ /\ o.r = 1 /\ s.files[path] = NULL /\ creation \in N!Creates
     /\ o.m = [s EXCEPT !.files = [s.files EXCEPT ![path] = N!File(N!Serial(s), "file")]]
  \/ /\ o.r = 0 /\ s.files[path] # NULL /\ creation # "CREATE_NEW"
     /\ s.files[path].readonly => "write" \notin access
     /\ o.m = [s EXCEPT !.files = [s.files EXCEPT ![path].size = IF creation \in N!Empties THEN 0 ELSE @]]

LEMMA CreateFileDoes ==
  ASSUME NEW s, NEW path, NEW access, NEW share, NEW creation
  PROVE  Does(s, N!CreateFileA(s, path, access, share, creation), path, access, creation)
<1> DEFINE o == N!CreateFileA(s, path, access, share, creation)
           needed == IF creation \in N!Empties THEN access \union {"write"} ELSE access
<1>1. "write" \notin needed => "write" \notin access
  OBVIOUS
<1>2. \/ \E error \in {"EIO", "ENOENT", "EEXIST", "EACCES"} : o = N!Fails(s, error)
      \/ /\ s.files[path] = NULL /\ creation \in N!Creates
         /\ o = N!Done([s EXCEPT !.files[path] = N!File(N!Serial(s), "file")], 1)
      \/ /\ s.files[path] # NULL /\ creation # "CREATE_NEW"
         /\ ~ (s.files[path].readonly /\ "write" \in needed)
         /\ o = N!Done([s EXCEPT !.files[path].size = IF creation \in N!Empties THEN 0 ELSE @], 0)
  BY DEF N!CreateFileA
<1> SUFFICES Does(s, o, path, access, creation)
  OBVIOUS
<1> HIDE DEF o, needed
<1>3. CASE \E error \in {"EIO", "ENOENT", "EEXIST", "EACCES"} : o = N!Fails(s, error)
  BY <1>3 DEF N!Fails, Does
<1>4. CASE /\ s.files[path] = NULL /\ creation \in N!Creates
           /\ o = N!Done([s EXCEPT !.files[path] = N!File(N!Serial(s), "file")], 1)
  BY <1>4 DEF N!Done, Does
<1>5. CASE /\ s.files[path] # NULL /\ creation # "CREATE_NEW"
           /\ ~ (s.files[path].readonly /\ "write" \in needed)
           /\ o = N!Done([s EXCEPT !.files[path].size = IF creation \in N!Empties THEN 0 ELSE @], 0)
  BY <1>1, <1>5 DEF N!Done, Does
<1> QED BY <1>2, <1>3, <1>4, <1>5

(* Opening does what its flags say or leaves everything alone, but for a new
   file whose attribute could not be set. *)
LEMMA OpeningTold ==
  ASSUME N!NamedFilesAssumption, Sound(named)
  PROVE  N!OpenedOrUntouched
<1> SUFFICES ASSUME NEW path \in {"f", "x"}, NEW flags \in N!Flags, NEW sharing \in {"DENYWR", "bad"},
                    NEW permissions \in {{}, {"write"}}, NEW attributes \in BOOLEAN
             PROVE  LET o == N!_sopen(named, path, flags, sharing, permissions, attributes)
                        before == named.files[path]
                        after == o.m.files[path]
                    IN IF o.r = -1
                       THEN /\ o.errno # "0"
                            /\ o.m # named => /\ before = NULL /\ o.errno = "EACCES" /\ ~attributes
                                              /\ o.m = [named EXCEPT !.files[path] = after]
                       ELSE /\ after # NULL /\ o.r \notin N!Used
                            /\ o.m.slots = [named.slots EXCEPT ![o.r] = o.m.slots[o.r]]
                            /\ o.r \in N!OpenOn(o.m, path) /\ o.m.slots[o.r].delete = NULL
                            /\ {"CREAT", "EXCL"} \subseteq flags => before = NULL
                            /\ "CREAT" \notin flags => before # NULL
                            /\ after.size = IF before = NULL \/ "TRUNC" \in flags THEN 0 ELSE before.size
                            /\ after.readonly = IF before = NULL
                                                THEN "write" \notin permissions \/ "write" \in named.mask
                                                ELSE before.readonly
                            /\ "write" \in o.m.slots[o.r].access => before = NULL \/ ~before.readonly
                            /\ \A n \in Names \ {path} : o.m.files[n] = named.files[n]
  BY DEF N!OpenedOrUntouched
<1> DEFINE access == N!Access(flags)
           share == N!wcrt_file_sharing[sharing]
           creation == N!Creation(flags)
           created == N!CreateFileA(named, path, access, share, creation)
           readonly == "CREAT" \in flags /\ "write" \notin permissions \ named.mask /\ created.r = 1
           marked == IF readonly THEN [created.m EXCEPT !.files[path].readonly = TRUE] ELSE created.m
           slot == N!Min(N!Free(named))
           append == "APPEND" \in flags
           o == N!_sopen(named, path, flags, sharing, permissions, attributes)
           before == named.files[path]
           after == o.m.files[path]
<1>0. /\ named \in NamedStates /\ named.files \in FileTables /\ named.slots \in SlotTables
      /\ path \in Names
  BY DEF Sound, NamedStates, N!NamedFilesAssumption
<1>1. \/ \E error : error # "0" /\ o = N!Fails(named, error)
      \/ /\ N!Free(named) # {} /\ created.r # -1
         /\ \/ readonly /\ ~attributes /\ o = N!Fails(created.m, "EACCES")
            \/ o = N!Done(N!Taken(marked, slot, path, access, share, append), slot)
  <2>1. Does(named, created, path, access, creation)
    BY CreateFileDoes
  <2>2. created.r = -1 => created.errno # "0"
    <3> HIDE DEF created
    <3> QED BY <2>1 DEF Does
  <2>3. \/ \E error \in {"EMFILE", "EINVAL"} : o = N!Fails(named, error)
        \/ created.r = -1 /\ o = N!Fails(named, created.errno)
        \/ /\ N!Free(named) # {} /\ created.r # -1
           /\ \/ readonly /\ ~attributes /\ o = N!Fails(created.m, "EACCES")
              \/ o = N!Done(N!Taken(marked, slot, path, access, share, append), slot)
    BY DEF N!_sopen
  <2> HIDE DEF o, created, readonly, marked, slot
  <2> QED BY <2>2, <2>3
<1>2. Does(named, created, path, access, creation)
  BY CreateFileDoes
<1>3. creation \in {"CREATE_NEW", "CREATE_ALWAYS", "OPEN_ALWAYS", "TRUNCATE_EXISTING", "OPEN_EXISTING"}
  BY DEF N!Creation
<1>4. /\ {"CREAT", "EXCL"} \subseteq flags => creation = "CREATE_NEW"
      /\ "CREAT" \notin flags => creation \notin N!Creates
      /\ creation # "CREATE_NEW" => (creation \in N!Empties <=> "TRUNC" \in flags)
  BY DEF N!Creation, N!Creates, N!Empties
<1>5. N!Free(named) # {} => slot \in FileSlots /\ slot \notin N!Used /\ slot # -1
  <2>1. N!Free(named) # {} => slot \in FileSlots /\ slot \in N!Free(named)
    BY FreeSlot
  <2> HIDE DEF slot
  <2> QED BY <2>1 DEF N!Free, N!Used, N!NamedFilesAssumption
<1> HIDE DEF o, created, slot, access, creation, share, append
<1>6. CASE \E error : error # "0" /\ o = N!Fails(named, error)
  <2>1. o.r = -1 /\ o.errno # "0" /\ o.m = named
    BY <1>6 DEF N!Fails
  <2> QED BY <2>1 DEF o
<1>7. ASSUME created.r = 1
      PROVE  /\ before = NULL /\ creation \in N!Creates
             /\ created.m = [named EXCEPT !.files = [named.files EXCEPT ![path] = created.m.files[path]]]
             /\ created.m.files[path] \in FileRecords /\ created.m.files[path].size = 0
             /\ ~created.m.files[path].readonly
  <2> DEFINE born == N!File(N!Serial(named), "file")
             files == [named.files EXCEPT ![path] = born]
  <2>1. born \in FileRecords /\ born.size = 0 /\ ~born.readonly
    BY <1>0, SerialFree DEF N!File, FileRecords
  <2> HIDE DEF born
  <2>2. before = NULL /\ creation \in N!Creates /\ created.m = [named EXCEPT !.files = files]
    BY <1>2, <1>7 DEF Does, born
  <2>3. files[path] = born
    BY <1>0 DEF FileTables
  <2> HIDE DEF files
  <2>4. created.m.files = files
    BY <1>0, <2>2 DEF NamedStates
  <2> QED BY <2>1, <2>2, <2>3, <2>4 DEF files
<1>8. CASE readonly /\ ~attributes /\ o = N!Fails(created.m, "EACCES")
  <2>1. o.r = -1 /\ o.errno = "EACCES" /\ o.m = created.m /\ created.r = 1
    BY <1>8 DEF N!Fails
  <2> HIDE DEF readonly
  <2>2. o.m = [named EXCEPT !.files = [named.files EXCEPT ![path] = o.m.files[path]]] /\ before = NULL
    BY <1>7, <2>1
  <2> QED BY <1>8, <2>1, <2>2 DEF o
<1>9. CASE /\ N!Free(named) # {} /\ created.r # -1
           /\ o = N!Done(N!Taken(marked, slot, path, access, share, append), slot)
  <2> DEFINE file == marked.files[path]
  <2>1. /\ marked \in NamedStates /\ marked.slots = named.slots /\ file \in FileRecords
        /\ \A n \in Names \ {path} : marked.files[n] = named.files[n]
        /\ IF created.r = 1
           THEN before = NULL /\ creation \in N!Creates /\ file.size = 0 /\ file.readonly = readonly
           ELSE /\ before # NULL /\ creation # "CREATE_NEW"
                /\ before.readonly => "write" \notin access
                /\ file.readonly = before.readonly
                /\ file.size = IF creation \in N!Empties THEN 0 ELSE before.size
    <3>1. CASE created.r = 1
      <4> DEFINE born == created.m.files[path]
                 table == [named.files EXCEPT ![path] = born]
      <4>1. /\ before = NULL /\ creation \in N!Creates /\ born \in FileRecords
            /\ born.size = 0 /\ ~born.readonly
        BY <1>7, <3>1
      <4>2. created.m = [named EXCEPT !.files = table]
        BY <1>7, <3>1
      <4> HIDE DEF born
      <4>3. table \in FileTables /\ table[path] = born /\ \A n \in Names \ {path} : table[n] = named.files[n]
        BY <1>0, <4>1 DEF FileTables
      <4> HIDE DEF table
      <4>4. created.m \in NamedStates /\ created.m.files = table /\ created.m.slots = named.slots
        BY <1>0, <4>2, <4>3 DEF NamedStates
      <4>5. CASE readonly
        <5> DEFINE only == [born EXCEPT !.readonly = TRUE]
                   after_table == [table EXCEPT ![path].readonly = TRUE]
        <5>1. only \in FileRecords /\ only.size = 0 /\ only.readonly = TRUE
          BY <4>1 DEF FileRecords
        <5>2. /\ after_table \in FileTables /\ after_table[path] = only
              /\ \A n \in Names \ {path} : after_table[n] = named.files[n]
          <6>1. after_table = [table EXCEPT ![path] = only]
            BY <4>3
          <6> HIDE DEF only, after_table
          <6> QED BY <1>0, <4>3, <5>1, <6>1 DEF FileTables
        <5>3. marked = [created.m EXCEPT !.files = after_table]
          BY <4>4, <4>5
        <5> HIDE DEF only, after_table
        <5>4. marked \in NamedStates /\ marked.files = after_table /\ marked.slots = named.slots
          BY <4>4, <5>2, <5>3 DEF NamedStates
        <5> HIDE DEF marked
        <5> QED BY <3>1, <4>1, <4>5, <5>1, <5>2, <5>4
      <4>6. CASE ~readonly
        <5>1. marked = created.m
          BY <4>6
        <5>2. readonly = FALSE /\ born.readonly = FALSE
          BY <4>1, <4>6 DEF FileRecords
        <5> HIDE DEF marked, readonly
        <5> QED BY <3>1, <4>1, <4>3, <4>4, <5>1, <5>2
      <4> QED BY <4>5, <4>6
    <3>2. CASE created.r # 1
      <4> DEFINE size == IF creation \in N!Empties THEN 0 ELSE before.size
                 emptied == [before EXCEPT !.size = size]
                 table == [named.files EXCEPT ![path] = emptied]
      <4>1. /\ before # NULL /\ creation # "CREATE_NEW" /\ (before.readonly => "write" \notin access)
            /\ created.m = [named EXCEPT !.files = table]
        BY <1>2, <1>9, <3>2 DEF Does
      <4>2. before \in FileRecords
        BY <1>0, <4>1 DEF FileTables
      <4>3. emptied \in FileRecords /\ emptied.size = size /\ emptied.readonly = before.readonly
        BY <4>2 DEF FileRecords
      <4> HIDE DEF size, emptied
      <4>4. table \in FileTables /\ table[path] = emptied /\ \A n \in Names \ {path} : table[n] = named.files[n]
        BY <1>0, <4>3 DEF FileTables
      <4> HIDE DEF table
      <4>5. created.m \in NamedStates /\ created.m.files = table /\ created.m.slots = named.slots
        BY <1>0, <4>1, <4>4 DEF NamedStates
      <4>6. marked = created.m
        BY <3>2
      <4> HIDE DEF marked
      <4> QED BY <3>2, <4>1, <4>3, <4>4, <4>5, <4>6 DEF size
    <3> QED BY <3>1, <3>2
  <2> DEFINE entry == [serial |-> file.serial, access |-> access, share |-> share,
                       append |-> append, delete |-> NULL]
             taken == [marked EXCEPT !.slots[slot] = entry]
  <2>2. o.m = taken /\ o.r = slot
    BY <1>9 DEF N!Done, N!Taken
  <2>3. entry.serial = file.serial /\ entry.access = access /\ entry.delete = NULL
    OBVIOUS
  <2> HIDE DEF marked, entry, readonly
  <2>4. taken.files = marked.files /\ taken.slots = [named.slots EXCEPT ![slot] = entry]
    BY <2>1 DEF NamedStates
  <2>5. slot \in FileSlots /\ slot \notin N!Used /\ slot # -1
    BY <1>5, <1>9
  <2>6. taken.slots[slot] = entry
    BY <1>0, <2>4, <2>5 DEF SlotTables
  <2> HIDE DEF taken
  <2>7. after = file /\ file # NULL /\ o.m.slots[o.r] = entry
    BY <2>1, <2>2, <2>4, <2>6 DEF FileRecords, N!NamedFilesAssumption
  <2>8. o.r \in N!OpenOn(o.m, path)
    BY <2>2, <2>3, <2>5, <2>7 DEF N!OpenOn
  <2>9. {"CREAT", "EXCL"} \subseteq flags => before = NULL
    BY <1>4, <2>1
  <2>10. "CREAT" \notin flags => before # NULL
    BY <1>4, <1>9, <2>1
  <2>11. after.size = IF before = NULL \/ "TRUNC" \in flags THEN 0 ELSE before.size
    BY <1>4, <2>1, <2>7
  <2>12. created.r = 1 => (readonly <=> "write" \notin permissions \/ "write" \in named.mask)
    BY <1>4, <2>1 DEF readonly
  <2>13. after.readonly = IF before = NULL THEN "write" \notin permissions \/ "write" \in named.mask
                          ELSE before.readonly
    <3>1. readonly \in BOOLEAN /\ ("write" \notin permissions \/ "write" \in named.mask) \in BOOLEAN
      BY DEF readonly
    <3> QED BY <2>1, <2>7, <2>12, <3>1
  <2>14. "write" \in o.m.slots[o.r].access => before = NULL \/ ~before.readonly
    BY <2>1, <2>3, <2>7
  <2>15. o.m.slots = [named.slots EXCEPT ![o.r] = o.m.slots[o.r]]
    BY <2>2, <2>4, <2>7
  <2>16. o.r # -1 /\ o.r \notin N!Used /\ after # NULL /\ o.m.slots[o.r].delete = NULL
    BY <2>2, <2>3, <2>5, <2>7
  <2>17. \A n \in Names \ {path} : o.m.files[n] = named.files[n]
    BY <2>1, <2>2, <2>4
  <2> HIDE DEF before, after
  <2> QED BY <2>8, <2>9, <2>10, <2>11, <2>13, <2>14, <2>15, <2>16, <2>17 DEF o, before, after
<1> QED BY <1>1, <1>6, <1>8, <1>9

(* The status calls: by name, *)
LEMMA StatusFact ==
  ASSUME N!NamedFilesAssumption, NEW s \in NamedStates, NEW path \in Names
  PROVE  LET o == N!_stat64(s, path)
         IN IF s.files[path] = NULL \/ ~N!Reachable(s, path)
            THEN o.r = -1 /\ o.m = N!Zero /\ o.errno = "ENOENT"
            ELSE /\ o.r = 0
                 /\ o.m = [kind |-> s.files[path].kind, writable |-> ~s.files[path].readonly,
                           size |-> s.files[path].size, access_time |-> s.files[path].access_time,
                           write_time |-> s.files[path].write_time]
<1> DEFINE writable == ~s.files[path].readonly
           status == [kind |-> s.files[path].kind, writable |-> writable,
                      size |-> s.files[path].size, access_time |-> s.files[path].access_time,
                      write_time |-> s.files[path].write_time]
           exists == s.files[path] # NULL /\ N!Reachable(s, path)
<1>1. s.files \in FileTables
  BY DEF NamedStates
<1>2. exists => status # NULL
  <2>1. writable \in BOOLEAN
    OBVIOUS
  <2> HIDE DEF writable
  <2> QED BY <1>1, <2>1 DEF FileTables, FileRecords, N!NamedFilesAssumption
<1>3. N!__wcrt_status_path(s, path) = IF exists THEN status ELSE NULL
  BY DEF N!__wcrt_status_path
<1> HIDE DEF status, exists
<1>4. N!_stat64(s, path) = IF exists THEN N!Done(status, 0) ELSE N!Fails(N!Zero, "ENOENT")
  BY <1>2, <1>3 DEF N!_stat64
<1>5. /\ N!Done(status, 0).m = status /\ N!Done(status, 0).r = 0
      /\ N!Fails(N!Zero, "ENOENT").m = N!Zero /\ N!Fails(N!Zero, "ENOENT").r = -1
      /\ N!Fails(N!Zero, "ENOENT").errno = "ENOENT"
  BY DEF N!Done, N!Fails
<1> QED BY <1>4, <1>5 DEF exists, status

(* times set are times told, *)
Retimed(status, after, access, write) ==
  after = [status EXCEPT !.access_time = access, !.write_time = write]

LEMMA StatusRetimed ==
  ASSUME NEW kind \in {"file", "directory"}, NEW writable \in BOOLEAN, NEW size \in Nat,
         NEW a \in Int, NEW b \in Int, NEW c \in Int, NEW d \in Int, NEW status, NEW after,
         after = [kind |-> kind, writable |-> writable, size |-> size,
                  access_time |-> c, write_time |-> d],
         status = [kind |-> kind, writable |-> writable, size |-> size,
                   access_time |-> a, write_time |-> b]
  PROVE  Retimed(status, after, c, d)
<1> DEFINE Statuses == [kind : {"file", "directory"}, writable : BOOLEAN, size : Nat,
                        access_time : Int, write_time : Int]
           retimed == [status EXCEPT !.access_time = c, !.write_time = d]
<1>1. status \in Statuses
  OBVIOUS
<1>2. /\ retimed \in Statuses /\ retimed.kind = status.kind /\ retimed.writable = status.writable
      /\ retimed.size = status.size /\ retimed.access_time = c /\ retimed.write_time = d
  BY <1>1
<1>3. status.kind = kind /\ status.writable = writable /\ status.size = size
  OBVIOUS
<1> SUFFICES retimed = after
  BY DEF Retimed
<1> HIDE DEF retimed
<1> QED BY <1>2, <1>3

TimesAgree(s, path, access, write, maximum) ==
  LET o == N!wcrt_set_times(s, path, [access |-> access, write |-> write], 1, maximum)
  IN IF o.r = 0
     THEN /\ N!_stat64(o.m, path).m
               = [N!_stat64(s, path).m EXCEPT !.access_time = access, !.write_time = write]
          /\ {access, write} \subseteq 0..maximum
     ELSE o.m = s

LEMMA TimesTold ==
  ASSUME N!NamedFilesAssumption, NEW s \in NamedStates, NEW path \in Names,
         NEW access \in Int, NEW write \in Int, NEW maximum
  PROVE  TimesAgree(s, path, access, write, maximum)
<1> DEFINE times == [access |-> access, write |-> write]
           values == N!wcrt_time_values(times, 1, maximum)
           file == s.files[path]
           timed == [file EXCEPT !.access_time = access, !.write_time = write]
           files == [s.files EXCEPT ![path] = timed]
           o == N!wcrt_set_times(s, path, times, 1, maximum)
<1>0. s.files \in FileTables
  BY DEF NamedStates
<1>1. times # NULL /\ times.access = access /\ times.write = write
  BY DEF N!NamedFilesAssumption
<1>2. values = IF {access, write} \subseteq 0..maximum THEN times ELSE NULL
  <2> HIDE DEF times
  <2> QED BY <1>1 DEF N!wcrt_time_values
<1>3. \/ \E error : o = N!Fails(s, error)
      \/ /\ file # NULL /\ N!Reachable(s, path) /\ values # NULL
         /\ o = N!Done([s EXCEPT !.files[path].access_time = values.access,
                                 !.files[path].write_time = values.write], 0)
  <2> HIDE DEF values
  <2> QED BY DEF N!wcrt_set_times, values
<1> HIDE DEF times, values, o
<1>4. CASE \E error : o = N!Fails(s, error)
  BY <1>4 DEF N!Fails, o, times, TimesAgree
<1>5. CASE /\ file # NULL /\ N!Reachable(s, path) /\ values # NULL
           /\ o = N!Done([s EXCEPT !.files[path].access_time = values.access,
                                   !.files[path].write_time = values.write], 0)
  <2>1. /\ {access, write} \subseteq 0..maximum /\ values.access = access /\ values.write = write
    BY <1>1, <1>2, <1>5
  <2>2. file \in FileRecords
    BY <1>0, <1>5 DEF FileTables
  <2>3. /\ timed \in FileRecords /\ timed.access_time = access /\ timed.write_time = write
        /\ timed.kind = file.kind /\ timed.readonly = file.readonly /\ timed.size = file.size
    BY <2>2 DEF FileRecords
  <2>4. o = N!Done([s EXCEPT !.files = files], 0)
    <3>1. [s EXCEPT !.files[path].access_time = access, !.files[path].write_time = write]
            = [s EXCEPT !.files = files]
      BY <1>0 DEF NamedStates, FileTables
    <3> QED BY <1>5, <2>1, <3>1
  <2> HIDE DEF timed
  <2>5. files \in FileTables /\ files[path] = timed
    BY <1>0, <2>3 DEF FileTables
  <2> HIDE DEF files
  <2>6. [s EXCEPT !.files = files] \in NamedStates /\ [s EXCEPT !.files = files].files = files
    BY <2>5 DEF NamedStates
  <2> DEFINE t == [s EXCEPT !.files = files]
  <2>7. o.m = t /\ o.r = 0
    BY <2>4 DEF N!Done
  <2> HIDE DEF t
  <2>8. t \in NamedStates /\ t.files[path] = timed /\ timed # NULL
    BY <2>3, <2>5, <2>6 DEF t, FileRecords, N!NamedFilesAssumption
  <2>9. N!Reachable(t, path)
    <3>1. \A n \in Names : n # path => t.files[n] = s.files[n]
      BY <1>0, <2>6 DEF t, files, FileTables
    <3> QED BY <1>5, <2>3, <2>8, <3>1 DEF N!Reachable, N!NamedFilesAssumption
  <2>10. N!_stat64(t, path).m =
           [kind |-> file.kind, writable |-> ~file.readonly, size |-> file.size,
            access_time |-> access, write_time |-> write]
    <3> HIDE DEF file
    <3> QED BY <2>3, <2>8, <2>9, StatusFact
  <2>11. N!_stat64(s, path).m =
           [kind |-> file.kind, writable |-> ~file.readonly, size |-> file.size,
            access_time |-> file.access_time, write_time |-> file.write_time]
    BY <1>5, StatusFact
  <2>12. N!_stat64(t, path).m = [N!_stat64(s, path).m EXCEPT !.access_time = access, !.write_time = write]
    <3> DEFINE writable == ~file.readonly
               wide == N!_stat64(s, path).m
    <3>1. wide = [kind |-> file.kind, writable |-> writable, size |-> file.size,
                  access_time |-> file.access_time, write_time |-> file.write_time]
      BY <2>11
    <3>2. N!_stat64(t, path).m =
            [kind |-> file.kind, writable |-> writable, size |-> file.size,
             access_time |-> access, write_time |-> write]
      BY <2>10
    <3>3. writable \in BOOLEAN
      OBVIOUS
    <3> HIDE DEF writable, file, wide
    <3>4. /\ file.kind \in {"file", "directory"} /\ file.size \in Nat
          /\ file.access_time \in Int /\ file.write_time \in Int
      BY <2>2 DEF FileRecords
    <3>5. Retimed(wide, N!_stat64(t, path).m, access, write)
      BY <3>1, <3>2, <3>3, <3>4, StatusRetimed
    <3> QED BY <3>5 DEF wide, Retimed
  <2> QED BY <2>1, <2>7, <2>12 DEF o, times, TimesAgree
<1> QED BY <1>3, <1>4, <1>5

(* the same through a descriptor, *)
LEMMA DescriptorTimesTold ==
  ASSUME N!NamedFilesAssumption, NEW s, Sound(s), NEW path \in Names,
         NEW i \in N!OpenOn(s, path), NEW t \in Int
  PROVE  LET times == [access |-> t, write |-> t]
             o == N!wcrt_set_descriptor_times(s, i, times, 1, N!MAX64)
             by_name == N!wcrt_set_times(s, path, times, 1, N!MAX64)
         IN /\ by_name.r = 0 /\ "write" \in s.slots[i].access => o = by_name
            /\ o.r = 0 => t \in 0..N!MAX64 /\ "write" \in s.slots[i].access
<1> DEFINE times == [access |-> t, write |-> t]
           values == N!wcrt_time_values(times, 1, N!MAX64)
           o == N!wcrt_set_descriptor_times(s, i, times, 1, N!MAX64)
           by_name == N!wcrt_set_times(s, path, times, 1, N!MAX64)
           set == N!Done([s EXCEPT !.files[path].access_time = values.access,
                                   !.files[path].write_time = values.write], 0)
<1>0. /\ s.files \in FileTables /\ s.slots \in SlotTables /\ Numbered(s.files)
      /\ i \in FileSlots /\ s.files[path] # NULL /\ s.slots[i].serial = s.files[path].serial
  BY DEF Sound, NamedStates, Fits, N!OpenOn
<1>1. (CHOOSE n \in Names : i \in N!OpenOn(s, n)) = path
  BY <1>0 DEF N!OpenOn, Numbered
<1>2. N!Open(s.slots[i])
  BY <1>0 DEF N!Open, FileTables, FileRecords
<1>3. values # NULL => t \in 0..N!MAX64
  <2>1. times # NULL /\ times.access = t /\ times.write = t
    BY DEF N!NamedFilesAssumption
  <2> HIDE DEF times
  <2> QED BY <2>1 DEF N!wcrt_time_values
<1> HIDE DEF times, values, set, o
<1>4. o = IF s.files[path].kind = "directory" \/ values = NULL THEN N!Fails(s, "EINVAL")
          ELSE IF "write" \notin s.slots[i].access THEN N!Fails(s, "EACCES") ELSE set
  <2> DEFINE chosen == CHOOSE n \in Names : i \in N!OpenOn(s, n)
  <2>1. o = IF s.files[chosen].kind = "directory" \/ values = NULL THEN N!Fails(s, "EINVAL")
            ELSE IF "write" \notin s.slots[i].access THEN N!Fails(s, "EACCES")
            ELSE N!Done([s EXCEPT !.files[chosen].access_time = values.access,
                                  !.files[chosen].write_time = values.write], 0)
    BY <1>2 DEF N!wcrt_set_descriptor_times, values, o
  <2>2. chosen = path
    BY <1>1
  <2> HIDE DEF chosen
  <2> QED BY <2>1, <2>2 DEF set
<1>5. by_name = IF ~N!Reachable(s, path) THEN N!Fails(s, "ENOENT")
                ELSE IF s.files[path].kind = "directory" \/ s.files[path].readonly THEN N!Fails(s, "EACCES")
                ELSE IF values = NULL THEN N!Fails(s, "EINVAL") ELSE set
  BY <1>0 DEF N!wcrt_set_times, values, set
<1>6. N!Fails(s, "EINVAL").r # 0 /\ N!Fails(s, "EACCES").r # 0 /\ N!Fails(s, "ENOENT").r # 0
  BY DEF N!Fails
<1> HIDE DEF by_name
<1>7. by_name.r = 0 /\ "write" \in s.slots[i].access => o = by_name
  BY <1>4, <1>5, <1>6
<1>8. o.r = 0 => t \in 0..N!MAX64 /\ "write" \in s.slots[i].access
  BY <1>3, <1>4, <1>6
<1> QED BY <1>7, <1>8 DEF o, by_name, times

(* the narrow record is the wide one or nothing, and a file nobody has open
   can be opened for writing if it is said to be writable, *)
LEMMA WidthsTold ==
  ASSUME N!NamedFilesAssumption, NEW s, Sound(s), NEW path \in Names
  PROVE  LET wide == N!_stat64(s, path)
             narrow == N!wcrt_stat32(s, path)
         IN /\ narrow.m \in {wide.m, N!Zero} /\ (narrow.r = -1 => narrow.m = N!Zero)
            /\ narrow.errno = "ERANGE" => wide.r = 0
            /\ (N!_access(s, path, {}).r = 0) = (wide.r = 0)
            /\ wide.m.kind = "file" /\ N!OpenOn(s, path) = {} /\ N!Free(s) # {} =>
                 (N!_access(s, path, {"write"}).r = 0)
                   = (N!_sopen(s, path, {"RDWR", "BINARY"}, "DENYRW", {}, TRUE).r # -1)
<1> DEFINE wide == N!_stat64(s, path)
           narrow == N!wcrt_stat32(s, path)
           status == N!__wcrt_status_path(s, path)
           file == s.files[path]
           exists == file # NULL /\ N!Reachable(s, path)
<1>0. s \in NamedStates /\ s.files \in FileTables
  BY DEF Sound, NamedStates
<1>1. wide = IF status = NULL THEN N!Fails(N!Zero, "ENOENT") ELSE N!Done(status, 0)
  BY DEF N!_stat64
<1>2. \/ status = NULL /\ narrow = N!Fails(N!Zero, "ENOENT")
      \/ status # NULL /\ (narrow = N!Fails(N!Zero, "ERANGE") \/ narrow = N!Done(status, 0))
  BY DEF N!wcrt_stat32, N!wcrt_stat32_copy
<1>3. /\ narrow.m \in {wide.m, N!Zero} /\ (narrow.r = -1 => narrow.m = N!Zero)
      /\ narrow.errno = "ERANGE" => wide.r = 0
  <2> HIDE DEF wide, narrow, status
  <2> QED BY <1>1, <1>2 DEF N!Done, N!Fails
<1>4. wide.r \in {0, -1}
  <2> HIDE DEF wide, status
  <2> QED BY <1>1 DEF N!Done, N!Fails
<1>5. N!_access(s, path, {}) = IF wide.r = -1 THEN N!Fails(s, wide.errno) ELSE N!Done(s, 0)
  BY DEF N!_access
<1>6. (N!_access(s, path, {}).r = 0) = (wide.r = 0)
  <2> HIDE DEF wide
  <2> QED BY <1>4, <1>5 DEF N!Done, N!Fails
<1>7. ASSUME wide.m.kind = "file", N!OpenOn(s, path) = {}, N!Free(s) # {}
      PROVE  /\ N!_access(s, path, {"write"}).r = 0 <=> ~file.readonly
             /\ N!_sopen(s, path, {"RDWR", "BINARY"}, "DENYRW", {}, TRUE).r # -1 <=> ~file.readonly
  <2>1. exists /\ file.kind = "file" /\ wide.r = 0 /\ (wide.m.writable <=> ~file.readonly)
    <3>1. exists
      <4>1. CASE file = NULL \/ ~N!Reachable(s, path)
        <5>1. wide.m = N!Zero
          BY <1>0, <4>1, StatusFact
        <5> HIDE DEF wide
        <5> QED BY <1>7, <5>1 DEF N!Zero
      <4> QED BY <4>1
    <3> DEFINE writable == ~file.readonly
    <3>2. /\ wide.r = 0
          /\ wide.m = [kind |-> file.kind, writable |-> writable, size |-> file.size,
                       access_time |-> file.access_time, write_time |-> file.write_time]
      BY <1>0, <3>1, StatusFact
    <3> HIDE DEF writable, wide
    <3>3. wide.m.kind = file.kind /\ wide.m.writable = writable
      BY <3>2
    <3> QED BY <1>7, <3>1, <3>2, <3>3 DEF writable
  <2>2. N!_access(s, path, {"write"}).r = 0 <=> ~file.readonly
    <3>1. N!_access(s, path, {"write"}) = IF wide.r = -1 THEN N!Fails(s, wide.errno)
                                          ELSE IF ~wide.m.writable THEN N!Fails(s, "EACCES") ELSE N!Done(s, 0)
      BY DEF N!_access, N!Rights
    <3> HIDE DEF wide, file
    <3> QED BY <2>1, <3>1 DEF N!Done, N!Fails
  <2>3. N!_sopen(s, path, {"RDWR", "BINARY"}, "DENYRW", {}, TRUE).r # -1 <=> ~file.readonly
    <3> DEFINE flags == {"RDWR", "BINARY"}
               created == N!CreateFileA(s, path, N!Rights, {}, "OPEN_EXISTING")
               slot == N!Min(N!Free(s))
               o == N!_sopen(s, path, flags, "DENYRW", {}, TRUE)
    <3>1. N!Access(flags) = N!Rights /\ N!Creation(flags) = "OPEN_EXISTING"
          /\ N!wcrt_file_sharing["DENYRW"] = {} /\ "DENYRW" \in DOMAIN N!wcrt_file_sharing
          /\ flags \subseteq N!Supported /\ ~ ({"WRONLY", "RDWR"} \subseteq flags)
          /\ ~ ({"TEXT", "BINARY"} \subseteq flags) /\ "CREAT" \notin flags
          /\ flags \intersect {"TEXT", "BINARY"} # {}
      BY SharingFact DEF N!Access, N!Creation, N!Supported, N!wcrt_file_sharing, Sharings
    <3>2. \/ created.r = -1 /\ o = N!Fails(s, created.errno)
          \/ created.r # -1 /\ \E taken : o = N!Done(taken, slot)
      <4> HIDE DEF flags
      <4> QED BY <1>7, <3>1 DEF N!_sopen
    <3>3. created = IF file.readonly THEN N!Fails(s, "EACCES") ELSE N!Done([s EXCEPT !.files[path].size = @], 0)
      BY <1>7, <2>1 DEF N!CreateFileA, N!Empties, N!Shared, N!Rights
    <3>4. slot # -1
      BY <1>7, FreeSlot DEF N!NamedFilesAssumption
    <3>5. created.r = -1 <=> file.readonly
      <4> HIDE DEF created, file
      <4> QED BY <3>3 DEF N!Done, N!Fails
    <3>6. o.r = -1 <=> created.r = -1
      <4> HIDE DEF created, o, slot
      <4> QED BY <3>2, <3>4 DEF N!Done, N!Fails
    <3> QED BY <3>5, <3>6
  <2> QED BY <2>2, <2>3
<1> HIDE DEF wide, narrow
<1> QED BY <1>3, <1>6, <1>7 DEF wide, narrow

(* and what is removed is an empty directory that is not the current one,
   which is there. *)
LEMMA DirectoriesTold ==
  ASSUME N!NamedFilesAssumption, NEW s, Sound(s)
  PROVE  /\ s.current # Root => N!_stat64(s, s.current).m.kind = "directory"
         /\ \A path \in Names : N!_rmdir(s, path).r = 0 =>
              s.files[path].kind = "directory" /\ N!Children(s, path) = {} /\ path # s.current
<1>0. s \in NamedStates /\ s.files \in FileTables /\ Standing(s.files, s.current) /\ "d" \in Names
  BY DEF Sound, NamedStates, N!NamedFilesAssumption
<1>1. ASSUME s.current # Root PROVE N!_stat64(s, s.current).m.kind = "directory"
  <2>1. s.current = "d" /\ N!Reachable(s, "d") /\ s.files["d"] # NULL /\ s.files["d"].kind = "directory"
    BY <1>0, <1>1 DEF Standing, N!Reachable
  <2>2. N!_stat64(s, "d").m =
          [kind |-> s.files["d"].kind, writable |-> ~s.files["d"].readonly, size |-> s.files["d"].size,
           access_time |-> s.files["d"].access_time, write_time |-> s.files["d"].write_time]
    BY <1>0, <2>1, StatusFact
  <2>3. N!_stat64(s, "d").m.kind = s.files["d"].kind
    BY <2>2
  <2> QED BY <2>1, <2>3
<1>2. ASSUME NEW path \in Names, N!_rmdir(s, path).r = 0
      PROVE  s.files[path].kind = "directory" /\ N!Children(s, path) = {} /\ path # s.current
  <2>1. /\ path # s.current /\ s.files[path] # NULL /\ s.files[path].kind # "file"
        /\ N!Children(s, path) = {}
    BY <1>2 DEF N!_rmdir, N!wcrt_directory_protected, N!Fails, N!Done
  <2>2. s.files[path] \in FileRecords
    BY <1>0, <2>1 DEF FileTables
  <2> QED BY <2>1, <2>2 DEF FileRecords
<1> QED BY <1>1, <1>2

LEMMA StatusCallsTold ==
  ASSUME N!NamedFilesAssumption, Sound(named)
  PROVE  N!StatusTold
<1>0. named \in NamedStates /\ {"f", "x"} \subseteq Names /\ -1..N!MAX64 + 1 \subseteq Int
  BY DEF Sound, N!NamedFilesAssumption, N!MAX64
<1>1. ASSUME NEW path \in {"f", "x"}, NEW access \in -1..N!MAX64 + 1, NEW write \in -1..N!MAX64 + 1,
             NEW maximum \in {N!MAX32, N!MAX64}
      PROVE  LET o == N!wcrt_set_times(named, path, [access |-> access, write |-> write], 1, maximum)
                 told_status == N!_stat64(o.m, path).m
             IN IF o.r = 0
                THEN /\ told_status = [N!_stat64(named, path).m EXCEPT !.access_time = access, !.write_time = write]
                     /\ {access, write} \subseteq 0..maximum
                ELSE o.m = named
  <2>1. path \in Names /\ access \in Int /\ write \in Int
    BY <1>0
  <2>2. TimesAgree(named, path, access, write, maximum)
    BY <1>0, <2>1, TimesTold
  <2> QED BY <2>2 DEF TimesAgree
<1>2. ASSUME NEW path \in Names, NEW i \in N!OpenOn(named, path), NEW t \in -1..N!MAX64 + 1
      PROVE  LET times == [access |-> t, write |-> t]
                 o == N!wcrt_set_descriptor_times(named, i, times, 1, N!MAX64)
                 by_name == N!wcrt_set_times(named, path, times, 1, N!MAX64)
             IN /\ by_name.r = 0 /\ "write" \in named.slots[i].access => o = by_name
                /\ o.r = 0 => t \in 0..N!MAX64 /\ "write" \in named.slots[i].access
  <2>1. t \in Int
    BY <1>0
  <2> QED BY <2>1, DescriptorTimesTold
<1>3. ASSUME NEW path \in Names
      PROVE  LET wide == N!_stat64(named, path)
                 narrow == N!wcrt_stat32(named, path)
             IN /\ narrow.m \in {wide.m, N!Zero} /\ (narrow.r = -1 => narrow.m = N!Zero)
                /\ narrow.errno = "ERANGE" => wide.r = 0
                /\ (N!_access(named, path, {}).r = 0) = (wide.r = 0)
                /\ wide.m.kind = "file" /\ N!OpenOn(named, path) = {} /\ N!Free(named) # {} =>
                     (N!_access(named, path, {"write"}).r = 0)
                       = (N!_sopen(named, path, {"RDWR", "BINARY"}, "DENYRW", {}, TRUE).r # -1)
  BY WidthsTold
<1> QED BY <1>1, <1>2, <1>3, DirectoriesTold DEF N!StatusTold

-----------------------------------------------------------------------------
(* Every state of a program that uses names is sound. *)
LEMMA NamesAlwaysSound == FileSpec => [](about = "names" => Sound(named))
<1> DEFINE Inv == about = "names" => Sound(named)
<1>0. N!NamedFilesAssumption
  BY FilesAssumption
<1>1. FileInit => Inv
  BY <1>0, NamesBegin DEF FileInit
<1>2. Inv /\ [FileNext]_<<about, fvars>> => Inv'
  <2>1. ASSUME Sound(named), N!Next PROVE Sound(named')
    BY <1>0, <2>1, NamesStep
  <2>2. ASSUME FileNext, about = "names" PROVE N!Next
    BY <2>2 DEF FileNext
  <2> QED BY <2>1, <2>2 DEF FileNext, fvars
<1> QED BY <1>1, <1>2, PTL DEF FileSpec

(* What a stream has open stays there under its name until it is closed,
   its rights never conflict with those of the others, and closing it
   removes no file but its own temporary one
   (src/platform/windows/file.c:355-371). *)
THEOREM FilesAlwaysKept == FileSpec => []StreamsKeepTheirFiles
<1>1. (about = "names" => Sound(named)) => StreamsKeepTheirFiles
  BY FilesAssumption, StreamsFit DEF StreamsKeepTheirFiles, FilesAssumption
<1> QED BY <1>1, NamesAlwaysSound, PTL

(* Opening by name does what its flags say or nothing, and what the status
   calls tell is what opening, removing and setting times then find
   (src/platform/windows/file.c:137-305, stat.c, utime.c, directory.c). *)
THEOREM NamesAlwaysTold == FileSpec => []NamesTold
<1>1. (about = "names" => Sound(named)) => NamesTold
  BY FilesAssumption, OpeningTold, StatusCallsTold DEF NamesTold, FilesAssumption
<1> QED BY <1>1, NamesAlwaysSound, PTL

-----------------------------------------------------------------------------
(* Induction and recursion over the natural numbers.                       *)

(* Every nonempty set of natural numbers has a least element.              *)
LEMMA Least ==
  ASSUME NEW T, T \subseteq Nat, T # {}
  PROVE  \E n \in T : \A k \in T : n <= k
<1> DEFINE R == {ss \in Nat \X Nat : ss[1] < ss[2]}
<1>1. IsWellFoundedOn(R, Nat)
  BY NatLessThanWellFounded DEF OpToRel
<1>2. PICK x \in T : \A y \in T : ~ (<<y, x>> \in R)
  <2> HIDE DEF R
  <2> QED BY <1>1, WFMin
<1>3. \A y \in T : ~(y < x)
  BY <1>2
<1> QED BY <1>3

(* A set that has 0 and with every number the next has every number.       *)
LEMMA Induction ==
  ASSUME NEW T, 0 \in T, \A n \in Nat : n \in T => n + 1 \in T
  PROVE  \A n \in Nat : n \in T
<1> SUFFICES ASSUME NEW k \in Nat, k \notin T PROVE FALSE
  OBVIOUS
<1> DEFINE U == {n \in Nat : n \notin T}
<1>1. PICK n \in U : \A i \in U : n <= i
  BY Least
<1>2. n # 0
  OBVIOUS
<1>3. n - 1 \in Nat /\ n - 1 \notin U
  BY <1>1, <1>2
<1>4. (n - 1) + 1 \in T
  BY <1>3
<1> QED BY <1>4

(* f starts with start and goes on by the steps of Turn.                   *)
Recursive(f, Values, start, Turn) ==
  /\ f \in [Nat -> Values] /\ f[0] = start
  /\ \A n \in Nat : f[n + 1] = Turn[n + 1][f[n]]

(* A function defined by recursion exists.                                 *)
LEMMA Recursion ==
  ASSUME NEW Values, NEW start, NEW Turn, start \in Values, Turn \in [Nat -> [Values -> Values]]
  PROVE  \E f : Recursive(f, Values, start, Turn)
<1> DEFINE Part(n, g) == /\ g \in [0..n -> Values] /\ g[0] = start
                         /\ \A k \in Nat : k < n => g[k + 1] = Turn[k + 1][g[k]]
           T == {n \in Nat : \E g : Part(n, g)}
<1>1. 0 \in T
  <2>1. Part(0, [k \in 0..0 |-> start])
    OBVIOUS
  <2> QED BY <2>1
<1>2. ASSUME NEW n \in Nat, n \in T PROVE n + 1 \in T
  <2>1. PICK g : Part(n, g)
    BY <1>2
  <2> DEFINE h == [k \in 0..n + 1 |-> IF k <= n THEN g[k] ELSE Turn[n + 1][g[n]]]
  <2>2. Turn[n + 1][g[n]] \in Values
    BY <2>1
  <2>3. h \in [0..n + 1 -> Values]
    BY <2>1, <2>2
  <2>4. ASSUME NEW k \in Nat, k < n + 1 PROVE h[k + 1] = Turn[k + 1][h[k]]
    <3>1. CASE k < n
      BY <2>1, <3>1
    <3>2. CASE k = n
      BY <2>1, <3>2
    <3> QED BY <2>4, <3>1, <3>2
  <2>5. h[0] = start
    BY <2>1
  <2>6. Part(n + 1, h)
    BY <2>3, <2>4, <2>5
  <2>7. n + 1 \in Nat
    OBVIOUS
  <2> HIDE DEF Part, h
  <2> QED BY <2>6, <2>7
<1>3. \A n \in Nat : \E g : Part(n, g)
  <2>1. \A n \in Nat : n \in T
    <3> HIDE DEF T
    <3> QED BY <1>1, <1>2, Induction
  <2> QED BY <2>1
<1>4. ASSUME NEW i \in Nat, NEW j \in Nat, i <= j, NEW g, NEW h, Part(i, g), Part(j, h)
      PROVE  \A k \in 0..i : g[k] = h[k]
  <2> DEFINE E == {k \in Nat : k <= i => g[k] = h[k]}
  <2>1. 0 \in E
    BY <1>4
  <2>2. ASSUME NEW k \in Nat, k \in E PROVE k + 1 \in E
    <3> SUFFICES ASSUME k + 1 <= i PROVE g[k + 1] = h[k + 1]
      OBVIOUS
    <3>1. g[k] = h[k]
      BY <2>2
    <3>2. g[k + 1] = Turn[k + 1][g[k]] /\ h[k + 1] = Turn[k + 1][h[k]]
      BY <1>4
    <3> QED BY <3>1, <3>2
  <2>3. \A k \in Nat : k \in E
    <3> HIDE DEF E
    <3> QED BY <2>1, <2>2, Induction
  <2> QED BY <2>3
<1> DEFINE G(n) == CHOOSE g : Part(n, g)
           f == [n \in Nat |-> G(n)[n]]
<1>5. \A n \in Nat : Part(n, G(n))
  <2> HIDE DEF Part
  <2> QED BY <1>3
<1> HIDE DEF G
<1>6. f \in [Nat -> Values]
  BY <1>5
<1>7. f[0] = start
  BY <1>5
<1>8. ASSUME NEW n \in Nat PROVE f[n + 1] = Turn[n + 1][f[n]]
  <2>1. G(n + 1)[n + 1] = Turn[n + 1][G(n + 1)[n]]
    BY <1>5
  <2>2. G(n + 1)[n] = G(n)[n]
    <3>1. Part(n, G(n)) /\ Part(n + 1, G(n + 1))
      BY <1>5
    <3> HIDE DEF Part
    <3>2. \A k \in 0..n : G(n)[k] = G(n + 1)[k]
      BY <3>1, <1>4
    <3> QED BY <3>2
  <2> QED BY <2>1, <2>2
<1>9. Recursive(f, Values, start, Turn)
  BY <1>6, <1>7, <1>8 DEF Recursive
<1> HIDE DEF f
<1> QED BY <1>9

-----------------------------------------------------------------------------
(* Directory streams: where a stream stands.                               *)
DirErrors == {"0", "EINVAL", "ENOENT", "EIO", "ENOMEM", "EMFILE", "EBADF"}
DirHeld == [memory : Int, descriptor : Int, search : Int]
DirSearches == [list : Listings, at : Nat]
DirStreams == [search : DirSearches \cup {NULL}, pending : BOOLEAN, position : Nat]
DirStates == [dir : DirStreams \cup {NULL}, held : DirHeld, errno : DirErrors]

(* What can be listed. *)
Listable == {list \in Listings : list # D!Gone}

(* The stream whose search is at entry p of the list. *)
StandsAt(list, p) ==
  IF p = 0 THEN [search |-> [list |-> list, at |-> 1], pending |-> TRUE, position |-> 0]
  ELSE [search |-> [list |-> list, at |-> p], pending |-> FALSE, position |-> p]
Reading(list, p, h, e) == [dir |-> StandsAt(list, p), held |-> h, errno |-> e]

(* A stream whose search could not be begun again. *)
Stale == {d \in DirStreams : d.search = NULL}
AllStands == UNION {{StandsAt(list, p) : p \in 0..Len(list)} : list \in Listable}

(* What is listed has an entry at least. *)
LEMMA ListFacts ==
  ASSUME D!DirectoriesAssumption, NEW list \in Listable
  PROVE  list \in Seq(EntryNames) /\ list # <<>> /\ Len(list) \in Nat \ {0}
<1>1. list \in Seq(EntryNames) /\ list # <<>>
  BY DEF D!DirectoriesAssumption, Listable
<1> QED BY <1>1, EmptySeq, LenProperties

(* A stream that stands at an entry is a stream with a search. *)
LEMMA StandType ==
  ASSUME D!DirectoriesAssumption, NEW list \in Listable, NEW p \in Nat
  PROVE  /\ StandsAt(list, p) \in DirStreams /\ StandsAt(list, p) # NULL
         /\ StandsAt(list, p).search # NULL /\ StandsAt(list, p).search.list = list
         /\ StandsAt(list, p).position = p
<1>1. list \in Listings
  BY DEF Listable
<1>2. [list |-> list, at |-> 1] \in DirSearches /\ [list |-> list, at |-> p] \in DirSearches
  BY <1>1 DEF DirSearches
<1>3. StandsAt(list, p) \in DirStreams
  BY <1>2 DEF StandsAt, DirStreams
<1>4. NULL \notin DirStreams /\ NULL \notin DirSearches
  BY DEF D!DirectoriesAssumption, DirStreams, DirSearches
<1>5. /\ StandsAt(list, p).search \in DirSearches
      /\ StandsAt(list, p).search.list = list /\ StandsAt(list, p).position = p
  BY <1>2 DEF StandsAt
<1> QED BY <1>3, <1>4, <1>5

(* Reading on delivers the next entry, or says that there is none. *)
LEMMA ReadOn ==
  ASSUME D!DirectoriesAssumption, NEW list \in Listable, NEW p \in 0..Len(list), NEW h, NEW e, NEW fault
  PROVE  D!readdir(Reading(list, p, h, e), fault) =
           IF p # 0 /\ fault = D!Fault("next") THEN [s |-> Reading(list, p, h, "EIO"), r |-> NULL]
           ELSE IF p = Len(list) THEN [s |-> Reading(list, p, h, e), r |-> NULL]
           ELSE [s |-> Reading(list, p + 1, h, e), r |-> list[p + 1]]
<1> DEFINE s == Reading(list, p, h, e)
           at == IF p = 0 THEN 1 ELSE p + 1
           after == [search |-> [list |-> list, at |-> at], pending |-> FALSE, position |-> p + 1]
<1>1. Len(list) \in Nat \ {0} /\ p \in Nat
  BY ListFacts
<1>2. s.dir # NULL /\ D!Begun(s) /\ s.dir.search.list = list /\ s.dir.position = p
  BY <1>1, StandType DEF D!Begun, Reading
<1>3. s.dir.pending = (p = 0) /\ (IF s.dir.pending THEN s.dir.search.at ELSE s.dir.search.at + 1) = at
  BY DEF Reading, StandsAt
<1>4. at = p + 1 /\ (at > Len(list) <=> p = Len(list))
  BY <1>1
<1>5. /\ [s EXCEPT !.errno = "EIO"] = Reading(list, p, h, "EIO")
      /\ \A d : [s EXCEPT !.dir = d] = [dir |-> d, held |-> h, errno |-> e]
  BY DEF Reading
<1>6. after = StandsAt(list, p + 1)
  <2>1. p + 1 # 0
    BY <1>1
  <2> QED BY <1>4, <2>1 DEF StandsAt
<1>7. [s EXCEPT !.dir = after] = Reading(list, p + 1, h, e)
  BY <1>5, <1>6 DEF Reading
<1>8. D!readdir(s, fault) =
        IF p # 0 /\ fault = D!Fault("next") THEN [s |-> [s EXCEPT !.errno = "EIO"], r |-> NULL]
        ELSE IF at > Len(list) THEN [s |-> s, r |-> NULL]
        ELSE [s |-> [s EXCEPT !.dir = after], r |-> list[at]]
  <2>1. after = [search |-> [list |-> s.dir.search.list, at |-> at], pending |-> FALSE,
                 position |-> s.dir.position + 1]
    BY <1>2
  <2> HIDE DEF s, at, after
  <2> QED BY <1>2, <1>3, <2>1 DEF D!readdir
<1> QED BY <1>4, <1>5, <1>7, <1>8

(* A state is its fields. *)
LEMMA DirFields ==
  ASSUME NEW s \in DirStates
  PROVE  /\ s.dir \in DirStreams \cup {NULL} /\ s.held \in DirHeld /\ s.errno \in DirErrors
         /\ s = [dir |-> s.dir, held |-> s.held, errno |-> s.errno]
BY DEF DirStates

(* A state that reads a directory is a state. *)
LEMMA ReadingType ==
  ASSUME D!DirectoriesAssumption, NEW list \in Listable, NEW p \in Nat, NEW h \in DirHeld, NEW e \in DirErrors
  PROVE  Reading(list, p, h, e) \in DirStates
BY StandType DEF Reading, DirStates

(* A stream that has no search: it says why. *)
Refused(t, h) == t \in DirStates /\ t.dir \in Stale /\ t.held = h /\ t.errno # "0"

(* A search that is begun stands before the first entry. *)
LEMMA BeginIs ==
  ASSUME D!DirectoriesAssumption, directory \in Listings, NEW s \in DirStates, s.dir \in DirStreams, NEW fault
  PROVE  LET t == D!wcrt_dirent_begin(s, fault)
         IN IF directory = D!Gone \/ fault = D!Fault("search") THEN Refused(t, s.held)
            ELSE directory \in Listable /\ t = Reading(directory, 0, D!Plus(s.held, 0, 0, 1), s.errno)
<1> DEFINE d == [s.dir EXCEPT !.search = NULL, !.pending = FALSE]
           started == [search |-> [list |-> directory, at |-> 1], pending |-> TRUE, position |-> 0]
           t == D!wcrt_dirent_begin(s, fault)
<1>1. d \in Stale
  BY DEF Stale, DirStreams
<1>2. t = IF directory = D!Gone THEN [dir |-> d, held |-> s.held, errno |-> "ENOENT"]
          ELSE IF fault = D!Fault("search") THEN [dir |-> d, held |-> s.held, errno |-> "EIO"]
          ELSE [dir |-> started, held |-> D!Plus(s.held, 0, 0, 1), errno |-> s.errno]
  BY DEF D!wcrt_dirent_begin
<1>3. started = StandsAt(directory, 0)
  BY DEF StandsAt
<1>4. s.held \in DirHeld
  BY DEF DirStates
<1> HIDE DEF d, started, t
<1>5. ASSUME directory = D!Gone \/ fault = D!Fault("search") PROVE Refused(t, s.held)
  BY <1>1, <1>2, <1>4, <1>5 DEF Refused, DirStates, DirErrors, Stale
<1>6. ASSUME ~(directory = D!Gone \/ fault = D!Fault("search"))
      PROVE  directory \in Listable /\ t = Reading(directory, 0, D!Plus(s.held, 0, 0, 1), s.errno)
  BY <1>2, <1>3, <1>6 DEF Reading, Listable
<1> QED BY <1>5, <1>6 DEF t

(* Opening gives a stream before its first entry, or takes nothing. *)
LEMMA OpenIs ==
  ASSUME D!DirectoriesAssumption, directory \in Listings, NEW s \in DirStates, NEW fault
  PROVE  LET o == D!opendir(s, fault)
         IN /\ \/ o \in DirStates /\ o.dir = NULL /\ o.held = s.held /\ o.errno # "0"
               \/ directory \in Listable /\ o = Reading(directory, 0, D!Plus(s.held, 1, 1, 1), s.errno)
            /\ fault = D!None /\ directory # D!Gone => o.dir # NULL
<1> DEFINE described == [dir |-> D!Fresh, held |-> D!Plus(s.held, 1, 1, 0), errno |-> s.errno]
           begun == D!wcrt_dirent_begin(described, fault)
           o == D!opendir(s, fault)
<1>1. D!Fresh \in DirStreams
  BY DEF D!Fresh, DirStreams
<1>2. s.held \in DirHeld /\ D!Plus(s.held, 1, 1, 0) \in DirHeld
  BY DEF D!Plus, DirHeld, DirStates
<1>3. described \in DirStates /\ described.dir \in DirStreams
  BY <1>1, <1>2 DEF DirStates
<1>4. IF directory = D!Gone \/ fault = D!Fault("search") THEN Refused(begun, D!Plus(s.held, 1, 1, 0))
      ELSE /\ directory \in Listable
           /\ begun = Reading(directory, 0, D!Plus(D!Plus(s.held, 1, 1, 0), 0, 0, 1), s.errno)
  <2>1. described.held = D!Plus(s.held, 1, 1, 0) /\ described.errno = s.errno
    OBVIOUS
  <2> HIDE DEF described
  <2> QED BY <1>3, <2>1, BeginIs
<1>6. o = IF fault = D!Fault("memory") THEN [dir |-> NULL, held |-> s.held, errno |-> "ENOMEM"]
          ELSE IF fault = D!Fault("descriptor") THEN [dir |-> NULL, held |-> s.held, errno |-> "EMFILE"]
          ELSE IF D!Begun(begun) THEN begun
          ELSE [dir |-> NULL, held |-> D!Plus(begun.held, -1, -1, 0), errno |-> begun.errno]
  BY DEF D!opendir
<1> HIDE DEF begun, described
<1>7. CASE fault \in {D!Fault("memory"), D!Fault("descriptor")}
  <2>1. fault # D!None
    BY <1>7 DEF D!None, D!Fault
  <2>2. o \in {[dir |-> NULL, held |-> s.held, errno |-> "ENOMEM"], [dir |-> NULL, held |-> s.held, errno |-> "EMFILE"]}
    BY <1>6, <1>7
  <2>3. o \in DirStates /\ o.dir = NULL /\ o.held = s.held /\ o.errno # "0"
    BY <1>2, <2>2 DEF DirStates, DirErrors
  <2> QED BY <2>1, <2>3
<1>8. CASE fault \notin {D!Fault("memory"), D!Fault("descriptor")} /\ (directory = D!Gone \/ fault = D!Fault("search"))
  <2>1. begun \in DirStates /\ ~D!Begun(begun) /\ begun.errno # "0"
    BY <1>4, <1>8 DEF Refused, Stale, D!Begun
  <2>2. D!Plus(begun.held, -1, -1, 0) = s.held
    <3>1. D!Plus(D!Plus(s.held, 1, 1, 0), -1, -1, 0) = s.held
      BY <1>2 DEF D!Plus, DirHeld
    <3> QED BY <1>4, <1>8, <3>1 DEF Refused
  <2>3. o = [dir |-> NULL, held |-> s.held, errno |-> begun.errno] /\ begun.errno \in DirErrors
    BY <1>6, <1>8, <2>1, <2>2 DEF DirStates
  <2>4. o \in DirStates
    BY <1>2, <2>3 DEF DirStates
  <2> QED BY <1>8, <2>1, <2>3, <2>4 DEF D!None, D!Fault
<1>9. CASE fault \notin {D!Fault("memory"), D!Fault("descriptor")} /\ ~(directory = D!Gone \/ fault = D!Fault("search"))
  <2>1. D!Plus(D!Plus(s.held, 1, 1, 0), 0, 0, 1) = D!Plus(s.held, 1, 1, 1)
    BY <1>2 DEF D!Plus, DirHeld
  <2>2. directory \in Listable /\ begun = Reading(directory, 0, D!Plus(s.held, 1, 1, 1), s.errno)
    BY <1>4, <1>9, <2>1
  <2>3. begun.dir # NULL /\ D!Begun(begun)
    BY <2>2, StandType DEF Reading, D!Begun
  <2> QED BY <1>6, <1>9, <2>2, <2>3
<1> QED BY <1>7, <1>8, <1>9

Searching(d) == IF d.search = NULL THEN 0 ELSE 1

(* A rewound stream stands before the first entry of a new search, or has
   none: the old one is given back. *)
LEMMA RewindIs ==
  ASSUME D!DirectoriesAssumption, directory \in Listings, NEW s \in DirStates, s.dir \in DirStreams, NEW fault
  PROVE  LET t == D!rewinddir(s, fault)
             h == D!Plus(s.held, 0, 0, -Searching(s.dir))
         IN IF directory = D!Gone \/ fault = D!Fault("search") THEN Refused(t, h)
            ELSE directory \in Listable /\ t = Reading(directory, 0, D!Plus(h, 0, 0, 1), s.errno)
<1> DEFINE closed == IF D!Begun(s) THEN [s EXCEPT !.held = D!Plus(s.held, 0, 0, -1)] ELSE s
           h == D!Plus(s.held, 0, 0, -Searching(s.dir))
<1>1. s.held \in DirHeld /\ D!Plus(s.held, 0, 0, -1) \in DirHeld /\ D!Plus(s.held, 0, 0, 0) = s.held
  BY DEF D!Plus, DirHeld, DirStates
<1>2. closed \in DirStates /\ closed.dir = s.dir /\ closed.held = h /\ closed.errno = s.errno
  <2>1. CASE s.dir.search = NULL
    BY <1>1, <2>1 DEF D!Begun, Searching
  <2>2. CASE s.dir.search # NULL
    BY <1>1, <2>2 DEF D!Begun, Searching, DirStates
  <2> QED BY <2>1, <2>2
<1>3. s.dir # NULL
  BY DEF D!DirectoriesAssumption, DirStreams, DirSearches
<1>4. D!rewinddir(s, fault) = D!wcrt_dirent_begin(closed, fault)
  BY <1>3 DEF D!rewinddir
<1> HIDE DEF closed, h
<1>5. IF directory = D!Gone \/ fault = D!Fault("search") THEN Refused(D!wcrt_dirent_begin(closed, fault), h)
      ELSE /\ directory \in Listable
           /\ D!wcrt_dirent_begin(closed, fault) = Reading(directory, 0, D!Plus(h, 0, 0, 1), s.errno)
  BY <1>2, BeginIs
<1> QED BY <1>4, <1>5 DEF h

(* A stream that is closed gives back all it had, whatever closing returns. *)
LEMMA CloseIs ==
  ASSUME D!DirectoriesAssumption, NEW list \in Listable, NEW p \in Nat, NEW h \in DirHeld, NEW e \in DirErrors,
         NEW fault
  PROVE  LET o == D!closedir(Reading(list, p, h, e), fault)
         IN /\ o.s \in DirStates /\ o.s.dir = NULL /\ o.s.held = D!Plus(h, -1, -1, -1) /\ o.r \in {0, -1}
            /\ o.r = -1 \/ e # "0" => o.s.errno # "0"
            /\ fault = D!None => o.r = 0
<1> DEFINE s == Reading(list, p, h, e)
           o == D!closedir(s, fault)
           error == IF fault = D!Fault("search") THEN "EIO" ELSE IF fault = D!Fault("descriptor") THEN "EBADF" ELSE e
<1>1. s.dir # NULL /\ D!Begun(s) /\ s.held = h /\ s.errno = e
  BY StandType DEF D!Begun, Reading
<1>2. D!Plus(h, -1, -1, -1) \in DirHeld
  BY DEF D!Plus, DirHeld
<1>3. o = [s |-> [dir |-> NULL, held |-> D!Plus(h, -1, -1, -1), errno |-> error],
           r |-> IF fault \in {D!Fault("search"), D!Fault("descriptor")} THEN -1 ELSE 0]
  <2> HIDE DEF s
  <2> QED BY <1>1 DEF D!closedir
<1>4. error \in DirErrors /\ (fault \in {D!Fault("search"), D!Fault("descriptor")} \/ e # "0" => error # "0")
  BY DEF DirErrors
<1>5. fault = D!None => fault \notin {D!Fault("search"), D!Fault("descriptor")}
  BY DEF D!None, D!Fault
<1> HIDE DEF o, error, s
<1>6. /\ o.s.dir = NULL /\ o.s.held = D!Plus(h, -1, -1, -1) /\ o.s.errno = error
      /\ o.r = IF fault \in {D!Fault("search"), D!Fault("descriptor")} THEN -1 ELSE 0
  BY <1>3
<1>7. o.s \in DirStates
  BY <1>2, <1>3, <1>4 DEF DirStates
<1> QED BY <1>4, <1>5, <1>6, <1>7 DEF o, s

(* One turn of seekdir's loop. *)
LEMMA SkipIs ==
  ASSUME D!DirectoriesAssumption, NEW list \in Listable, NEW p \in 0..Len(list), NEW h, NEW e, NEW position \in Int
  PROVE  D!Skip(Reading(list, p, h, e), position) =
           IF p >= position THEN Reading(list, p, h, e)
           ELSE IF p < Len(list) THEN Reading(list, p + 1, h, "0")
           ELSE Reading(list, p, h, "EINVAL")
<1> DEFINE s == Reading(list, p, h, e)
           o == D!readdir(Reading(list, p, h, "0"), D!None)
<1>1. Len(list) \in Nat \ {0} /\ p \in Nat /\ list \in Seq(EntryNames)
  BY ListFacts
<1>2. [s EXCEPT !.errno = "0"] = Reading(list, p, h, "0") /\ s.dir.position = p
  BY <1>1, StandType DEF Reading
<1>3. o = IF p = Len(list) THEN [s |-> Reading(list, p, h, "0"), r |-> NULL]
          ELSE [s |-> Reading(list, p + 1, h, "0"), r |-> list[p + 1]]
  <2>1. D!None # D!Fault("next")
    BY DEF D!None, D!Fault
  <2> QED BY <2>1, ReadOn
<1>4. D!Skip(s, position) =
        IF p >= position THEN s ELSE IF o.r # NULL THEN o.s
        ELSE [o.s EXCEPT !.errno = IF o.s.errno = "0" THEN "EINVAL" ELSE o.s.errno]
  <2> HIDE DEF s
  <2> QED BY <1>2 DEF D!Skip
<1>5. CASE p = Len(list)
  <2>1. o.r = NULL /\ o.s = Reading(list, p, h, "0")
    BY <1>3, <1>5
  <2>2. o.s.errno = "0" /\ [o.s EXCEPT !.errno = "EINVAL"] = Reading(list, p, h, "EINVAL")
    BY <2>1 DEF Reading
  <2> HIDE DEF o, s
  <2> QED BY <1>1, <1>4, <1>5, <2>1, <2>2 DEF s
<1>6. CASE p # Len(list)
  <2>1. list[p + 1] \in EntryNames /\ NULL \notin EntryNames /\ p < Len(list)
    BY <1>1, <1>6 DEF D!DirectoriesAssumption
  <2>2. o.r # NULL /\ o.s = Reading(list, p + 1, h, "0")
    BY <1>3, <1>6, <2>1
  <2> HIDE DEF o
  <2> QED BY <1>4, <2>1, <2>2
<1> QED BY <1>5, <1>6

(* The loop of seekdir: a function of the number of turns. *)
LEMMA SkipTurns ==
  ASSUME D!DirectoriesAssumption, NEW list \in Listable, NEW h, NEW e, NEW position \in Int
  PROVE  LET s == Reading(list, 0, h, e)
         IN /\ D!Skipped(s, position, 0) = s
            /\ \A n \in Nat : D!Skipped(s, position, n + 1) = D!Skip(D!Skipped(s, position, n), position)
<1> DEFINE s == Reading(list, 0, h, e)
           errors == {e, "0", "EINVAL"}
           T == {Reading(list, q, h, x) : q \in 0..Len(list), x \in errors}
           Step(t) == D!Skip(t, position)
           F == [t \in T |-> Step(t)]
           G == [n \in Nat |-> F]
           Turns(f) == [n \in Nat |-> IF n = 0 THEN s ELSE D!Skip(f[n - 1], position)]
           g == CHOOSE f : f = Turns(f)
<1>1. s \in T
  BY ListFacts
<1>2. \A t \in T : Step(t) \in T
  <2>1. SUFFICES ASSUME NEW q \in 0..Len(list), NEW x \in errors PROVE Step(Reading(list, q, h, x)) \in T
    OBVIOUS
  <2>2. Step(Reading(list, q, h, x)) =
          IF q >= position THEN Reading(list, q, h, x)
          ELSE IF q < Len(list) THEN Reading(list, q + 1, h, "0")
          ELSE Reading(list, q, h, "EINVAL")
    BY SkipIs
  <2>3. q < Len(list) => q + 1 \in 0..Len(list)
    BY ListFacts
  <2> QED BY <2>2, <2>3
<1> HIDE DEF T, s, Step
<1>3. G \in [Nat -> [T -> T]]
  BY <1>2
<1> HIDE DEF G
<1>4. PICK f : Recursive(f, T, s, G)
  BY <1>1, <1>3, Recursion
<1>5. f \in [Nat -> T] /\ f[0] = s /\ \A n \in Nat : f[n + 1] = G[n + 1][f[n]]
  BY <1>4 DEF Recursive
<1>6. ASSUME NEW n \in Nat PROVE f[n] = IF n = 0 THEN s ELSE Step(f[n - 1])
  <2>1. CASE n = 0
    BY <1>5, <2>1
  <2>2. CASE n # 0
    <3>1. n - 1 \in Nat /\ (n - 1) + 1 = n
      BY <2>2
    <3>2. f[n - 1] \in T /\ f[n] = G[n][f[n - 1]]
      BY <1>5, <3>1
    <3> QED BY <2>2, <3>2 DEF G
  <2> QED BY <2>1, <2>2
<1>7. f = Turns(f)
  <2>1. f = [n \in Nat |-> f[n]]
    BY <1>5
  <2> QED BY <1>6, <2>1 DEF Step
<1>8. g = Turns(g)
  <2> HIDE DEF Turns
  <2> QED BY <1>7
<1> HIDE DEF g
<1>9. g[0] = s /\ \A n \in Nat : g[n + 1] = D!Skip(g[n], position)
  <2>1. g[0] = s
    BY <1>8
  <2>2. ASSUME NEW n \in Nat PROVE g[n + 1] = D!Skip(g[n], position)
    <3>1. n + 1 \in Nat /\ n + 1 # 0 /\ (n + 1) - 1 = n
      OBVIOUS
    <3> QED BY <1>8, <3>1
  <2> QED BY <2>1, <2>2
<1>10. \A n \in Nat : D!Skipped(s, position, n) = g[n]
  BY DEF D!Skipped, g
<1>11. D!Skipped(s, position, 0) = s
  BY <1>9, <1>10
<1>12. \A n \in Nat : D!Skipped(s, position, n + 1) = D!Skip(D!Skipped(s, position, n), position)
  BY <1>9, <1>10
<1> QED BY <1>11, <1>12 DEF s

(* After as many turns as the position asked for, the stream stands there,
   or at the end of the directory. *)
LEMMA SkippedIs ==
  ASSUME D!DirectoriesAssumption, NEW list \in Listable, NEW h, NEW e \in DirErrors, NEW position \in Nat
  PROVE  \E x \in DirErrors : D!Skipped(Reading(list, 0, h, e), position, position) =
           Reading(list, IF position <= Len(list) THEN position ELSE Len(list), h, x)
<1> DEFINE s == Reading(list, 0, h, e)
           At(n) == IF n <= Len(list) THEN n ELSE Len(list)
           T == {n \in Nat : n <= position => \E x \in DirErrors :
                               D!Skipped(s, position, n) = Reading(list, At(n), h, x)}
<1>1. Len(list) \in Nat \ {0}
  BY ListFacts
<1>2. 0 \in T
  BY <1>1, SkipTurns
<1>3. ASSUME NEW n \in Nat, n \in T PROVE n + 1 \in T
  <2>1. SUFFICES ASSUME n + 1 <= position
                 PROVE  \E x \in DirErrors : D!Skipped(s, position, n + 1) = Reading(list, At(n + 1), h, x)
    OBVIOUS
  <2>2. PICK x \in DirErrors : D!Skipped(s, position, n) = Reading(list, At(n), h, x)
    BY <1>3, <2>1
  <2>3. D!Skipped(s, position, n + 1) = D!Skip(Reading(list, At(n), h, x), position)
    BY <2>2, SkipTurns
  <2>4. At(n) \in 0..Len(list) /\ ~(At(n) >= position)
    BY <1>1, <2>1
  <2>5. D!Skip(Reading(list, At(n), h, x), position) =
          IF At(n) < Len(list) THEN Reading(list, At(n) + 1, h, "0") ELSE Reading(list, At(n), h, "EINVAL")
    <3> HIDE DEF At
    <3>1. position \in Int
      OBVIOUS
    <3> QED BY <2>4, <3>1, SkipIs
  <2>6. /\ At(n) < Len(list) => At(n) + 1 = At(n + 1)
        /\ ~(At(n) < Len(list)) => At(n) = At(n + 1)
    BY <1>1
  <2>7. "0" \in DirErrors /\ "EINVAL" \in DirErrors
    BY DEF DirErrors
  <2> HIDE DEF At, s
  <2>8. CASE At(n) < Len(list)
    BY <2>3, <2>5, <2>6, <2>7, <2>8
  <2>9. CASE ~(At(n) < Len(list))
    BY <2>3, <2>5, <2>6, <2>7, <2>9
  <2> QED BY <2>8, <2>9
<1>4. position \in T
  <2> HIDE DEF T
  <2> QED BY <1>2, <1>3, Induction
<1> QED BY <1>4

(* Where seekdir leads. *)
LEMMA SeekIs ==
  ASSUME D!DirectoriesAssumption, directory \in Listings, NEW s \in DirStates, s.dir \in DirStreams,
         NEW position \in Nat, NEW fault
  PROVE  LET t == D!seekdir(s, position, fault)
             h == D!Plus(s.held, 0, 0, -Searching(s.dir))
             there == IF position <= Len(directory) THEN position ELSE Len(directory)
         IN IF directory = D!Gone \/ fault = D!Fault("search") THEN Refused(t, h)
            ELSE directory \in Listable /\ \E x \in DirErrors : t = Reading(directory, there, D!Plus(h, 0, 0, 1), x)
<1> DEFINE again == D!rewinddir(s, fault)
           t == D!seekdir(s, position, fault)
           h == D!Plus(s.held, 0, 0, -Searching(s.dir))
<1>1. s.dir # NULL /\ ~(position < 0) /\ s.errno \in DirErrors
  BY DEF D!DirectoriesAssumption, DirStreams, DirSearches, DirStates
<1>2. t = IF ~D!Begun(again) THEN again ELSE D!Skipped(again, position, position)
  BY <1>1 DEF D!seekdir
<1>3. IF directory = D!Gone \/ fault = D!Fault("search") THEN Refused(again, h)
      ELSE directory \in Listable /\ again = Reading(directory, 0, D!Plus(h, 0, 0, 1), s.errno)
  BY RewindIs
<1> HIDE DEF again, t, h
<1>4. ASSUME directory = D!Gone \/ fault = D!Fault("search") PROVE Refused(t, h)
  <2>1. ~D!Begun(again)
    BY <1>3, <1>4 DEF Refused, Stale, D!Begun
  <2> QED BY <1>2, <1>3, <1>4, <2>1
<1>5. ASSUME ~(directory = D!Gone \/ fault = D!Fault("search"))
      PROVE  /\ directory \in Listable
             /\ \E x \in DirErrors : t = Reading(directory, IF position <= Len(directory) THEN position
                                                            ELSE Len(directory), D!Plus(h, 0, 0, 1), x)
  <2>1. directory \in Listable /\ again = Reading(directory, 0, D!Plus(h, 0, 0, 1), s.errno)
    BY <1>3, <1>5
  <2>2. D!Begun(again)
    BY <2>1, StandType DEF Reading, D!Begun
  <2>3. t = D!Skipped(Reading(directory, 0, D!Plus(h, 0, 0, 1), s.errno), position, position)
    BY <1>2, <2>1, <2>2
  <2> QED BY <1>1, <2>1, <2>3, SkippedIs
<1> QED BY <1>4, <1>5 DEF t, h

-----------------------------------------------------------------------------
(* Sorting by insertion. *)
Ordered(q) == \A i \in 1..Len(q) - 1 : Rank[q[i]] <= Rank[q[i + 1]]
InsertedAt(q, name, p) ==
  /\ p \in 0..Len(q) /\ \A i \in p + 1..Len(q) : Rank[name] < Rank[q[i]]
  /\ p # 0 => Rank[q[p]] <= Rank[name]

(* The loop that looks for the place ends at one. *)
LEMMA PlaceExists ==
  ASSUME D!DirectoriesAssumption, NEW q \in Seq(EntryNames), NEW name \in EntryNames
  PROVE  \E p : InsertedAt(q, name, p)
<1> DEFINE T == {k \in Nat : k <= Len(q) /\ (k # Len(q) => Rank[q[Len(q) - k]] <= Rank[name])}
<1>1. Len(q) \in Nat /\ Len(q) \in T
  BY LenProperties
<1>2. PICK k \in T : \A j \in T : k <= j
  <2>1. T \subseteq Nat /\ T # {}
    BY <1>1
  <2> HIDE DEF T
  <2> QED BY <2>1, Least
<1> DEFINE p == Len(q) - k
<1>3. p \in 0..Len(q) /\ (p # 0 => Rank[q[p]] <= Rank[name])
  BY <1>1, <1>2
<1>4. ASSUME NEW i \in p + 1..Len(q) PROVE Rank[name] < Rank[q[i]]
  <2>1. Len(q) - i \in Nat /\ Len(q) - i < k /\ Len(q) - (Len(q) - i) = i /\ i \in 1..Len(q) /\ Len(q) - i # Len(q)
    BY <1>1, <1>2
  <2>2. Len(q) - i \notin T
    BY <1>2, <2>1
  <2>3. ~(Rank[q[i]] <= Rank[name])
    BY <2>1, <2>2
  <2>4. Rank[q[i]] \in Int /\ Rank[name] \in Int
    <3>1. q[i] \in EntryNames
      BY <2>1, ElementOfSeq
    <3> QED BY <3>1 DEF D!DirectoriesAssumption
  <2> QED BY <2>3, <2>4
<1> QED BY <1>3, <1>4 DEF InsertedAt

(* A name inserted among others: they are all there, and in order if they were. *)
LEMMA InsertedIs ==
  ASSUME D!DirectoriesAssumption, NEW q \in Seq(EntryNames), NEW name \in EntryNames
  PROVE  LET r == D!Inserted(q, name)
         IN /\ r \in Seq(EntryNames) /\ Len(r) = Len(q) + 1
            /\ D!ToSet(r) = D!ToSet(q) \cup {name}
            /\ Ordered(q) => Ordered(r)
<1> DEFINE p == CHOOSE x \in 0..Len(q) : /\ \A i \in x + 1..Len(q) : Rank[name] < Rank[q[i]]
                                         /\ x # 0 => Rank[q[x]] <= Rank[name]
           r == D!Inserted(q, name)
<1>1. InsertedAt(q, name, p)
  BY PlaceExists DEF InsertedAt
<1>2. r = SubSeq(q, 1, (p + 1) - 1) \o <<name>> \o SubSeq(q, p + 1, Len(q))
  BY DEF D!Inserted, D!InsertAt
<1> HIDE DEF p, r
<1>3. p \in 0..Len(q) /\ p \in Nat /\ Len(q) \in Nat /\ (p + 1) - 1 = p
  BY <1>1, LenProperties DEF InsertedAt
<1> DEFINE a == SubSeq(q, 1, p)
           b == SubSeq(q, p + 1, Len(q))
<1>4. a \in Seq(EntryNames) /\ Len(a) = p /\ \A i \in 1..p : a[i] = q[i]
  BY <1>3
<1>5. b \in Seq(EntryNames) /\ Len(b) = Len(q) - p /\ \A i \in 1..Len(q) - p : b[i] = q[p + i]
  <2>1. \A i \in p + 1..Len(q) : q[i] \in EntryNames
    BY <1>3, ElementOfSeq
  <2> QED BY <1>3, <2>1
<1> HIDE DEF a, b
<1>6. r = (a \o <<name>>) \o b
  BY <1>2, <1>3 DEF a, b
<1>7. /\ a \o <<name>> \in Seq(EntryNames) /\ Len(a \o <<name>>) = p + 1
      /\ (a \o <<name>>)[p + 1] = name /\ \A i \in 1..p : (a \o <<name>>)[i] = q[i]
  <2>1. a \o <<name>> = Append(a, name)
    BY <1>4, AppendIsConcat
  <2>2. /\ Append(a, name) \in Seq(EntryNames) /\ Len(Append(a, name)) = Len(a) + 1
        /\ Append(a, name)[Len(a) + 1] = name /\ \A i \in 1..Len(a) : Append(a, name)[i] = a[i]
    BY <1>4, AppendProperties
  <2> QED BY <1>4, <2>1, <2>2
<1>8. /\ r \in Seq(EntryNames) /\ Len(r) = Len(q) + 1
      /\ \A i \in 1..p + 1 : r[i] = (a \o <<name>>)[i]
      /\ \A i \in p + 2..Len(q) + 1 : r[i] = b[i - (p + 1)]
  <2> DEFINE an == a \o <<name>>
  <2>1. an \in Seq(EntryNames) /\ Len(an) = p + 1
    BY <1>7
  <2> HIDE DEF an
  <2>2. an \o b \in Seq(EntryNames) /\ Len(an \o b) = (p + 1) + (Len(q) - p)
    <3>1. an \o b \in Seq(EntryNames) /\ Len(an \o b) = Len(an) + Len(b)
      BY <1>5, <2>1, ConcatProperties
    <3> QED BY <1>5, <2>1, <3>1
  <2>3. \A i \in 1..Len(an) + Len(b) : (an \o b)[i] = IF i <= Len(an) THEN an[i] ELSE b[i - Len(an)]
    BY <1>5, <2>1, ConcatProperties
  <2>4. (p + 1) + (Len(q) - p) = Len(q) + 1
    BY <1>3
  <2> QED BY <1>3, <1>5, <1>6, <2>1, <2>2, <2>3, <2>4 DEF an
<1>9. /\ \A i \in 1..p : r[i] = q[i]
      /\ r[p + 1] = name
      /\ \A i \in p + 2..Len(q) + 1 : r[i] = q[i - 1]
  <2>1. \A i \in 1..p : r[i] = q[i]
    BY <1>3, <1>7, <1>8
  <2>2. r[p + 1] = name
    BY <1>3, <1>7, <1>8
  <2>3. ASSUME NEW i \in p + 2..Len(q) + 1 PROVE r[i] = q[i - 1]
    <3>1. i - (p + 1) \in 1..Len(q) - p /\ p + (i - (p + 1)) = i - 1
      BY <1>3
    <3> QED BY <1>5, <1>8, <3>1
  <2> QED BY <2>1, <2>2, <2>3
<1>10. D!ToSet(r) = D!ToSet(q) \cup {name}
  <2>1. DOMAIN r = 1..Len(q) + 1 /\ DOMAIN q = 1..Len(q)
    BY <1>8, LenProperties
  <2>2. \A i \in 1..Len(q) + 1 : i \in 1..p \/ i = p + 1 \/ i \in p + 2..Len(q) + 1
    BY <1>3
  <2>3. ASSUME NEW i \in 1..Len(q) + 1 PROVE r[i] = name \/ \E j \in 1..Len(q) : r[i] = q[j]
    <3>1. CASE i \in 1..p
      BY <1>3, <1>9, <3>1
    <3>2. CASE i = p + 1
      BY <1>9, <3>2
    <3>3. CASE i \in p + 2..Len(q) + 1
      <4>1. i - 1 \in 1..Len(q)
        BY <1>3, <3>3
      <4> QED BY <1>9, <3>3, <4>1
    <3> QED BY <2>2, <3>1, <3>2, <3>3
  <2>4. ASSUME NEW j \in 1..Len(q) PROVE \E i \in 1..Len(q) + 1 : r[i] = q[j]
    <3>1. CASE j <= p
      <4>1. j \in 1..p /\ j \in 1..Len(q) + 1
        BY <1>3, <3>1
      <4> QED BY <1>9, <4>1
    <3>2. CASE j > p
      <4>1. j + 1 \in p + 2..Len(q) + 1 /\ (j + 1) - 1 = j /\ j + 1 \in 1..Len(q) + 1
        BY <1>3, <3>2
      <4> QED BY <1>9, <4>1
    <3> QED BY <1>3, <3>1, <3>2
  <2>5. p + 1 \in 1..Len(q) + 1
    BY <1>3
  <2>6. D!ToSet(r) = {r[i] : i \in 1..Len(q) + 1} /\ D!ToSet(q) = {q[i] : i \in 1..Len(q)}
    BY <2>1 DEF D!ToSet
  <2>7. D!ToSet(r) \subseteq D!ToSet(q) \cup {name}
    BY <2>3, <2>6
  <2>8. name \in D!ToSet(r)
    BY <1>9, <2>5, <2>6
  <2>9. D!ToSet(q) \subseteq D!ToSet(r)
    BY <2>4, <2>6
  <2> QED BY <2>7, <2>8, <2>9
<1>11. ASSUME Ordered(q) PROVE Ordered(r)
  <2>1. SUFFICES ASSUME NEW i \in 1..Len(q) PROVE Rank[r[i]] <= Rank[r[i + 1]]
    <3>1. Len(r) - 1 = Len(q)
      BY <1>3, <1>8
    <3> QED BY <3>1 DEF Ordered
  <2>2. \A j \in 1..Len(q) : Rank[q[j]] \in Int
    BY ElementOfSeq DEF D!DirectoriesAssumption
  <2>3. CASE i < p
    <3>1. i \in 1..p /\ i + 1 \in 1..p /\ i \in 1..Len(q) - 1
      BY <1>3, <2>3
    <3> QED BY <1>9, <1>11, <3>1 DEF Ordered
  <2>4. CASE i = p
    BY <1>1, <1>3, <1>9, <2>4 DEF InsertedAt
  <2>5. CASE i = p + 1
    <3>1. i + 1 \in p + 2..Len(q) + 1 /\ (i + 1) - 1 = i /\ i \in p + 1..Len(q)
      BY <1>3, <2>5
    <3>2. Rank[name] < Rank[q[i]] /\ r[i] = name /\ r[i + 1] = q[i]
      BY <1>1, <1>9, <2>5, <3>1 DEF InsertedAt
    <3>3. Rank[name] \in Int /\ Rank[q[i]] \in Int
      BY <2>2 DEF D!DirectoriesAssumption
    <3> QED BY <3>2, <3>3
  <2>6. CASE i > p + 1
    <3>1. /\ i \in p + 2..Len(q) + 1 /\ i + 1 \in p + 2..Len(q) + 1 /\ (i + 1) - 1 = i
          /\ i - 1 \in 1..Len(q) - 1 /\ (i - 1) + 1 = i
      BY <1>3, <2>6
    <3>2. r[i] = q[i - 1] /\ r[i + 1] = q[i]
      BY <1>9, <3>1
    <3>3. Rank[q[i - 1]] <= Rank[q[(i - 1) + 1]]
      BY <1>11, <3>1 DEF Ordered
    <3> QED BY <3>1, <3>2, <3>3
  <2> QED BY <1>3, <2>3, <2>4, <2>5, <2>6
<1> QED BY <1>8, <1>10, <1>11 DEF r

(* alphasorted has the names it was given, in order. *)
LEMMA AlphasortedIs ==
  ASSUME D!DirectoriesAssumption, NEW copies \in Seq(EntryNames)
  PROVE  LET r == D!alphasorted(copies)
         IN /\ r \in Seq(EntryNames) /\ Len(r) = Len(copies)
            /\ D!ToSet(r) = D!ToSet(copies) /\ Ordered(r)
<1> DEFINE size == Len(copies)
           T == Seq(EntryNames)
           G == [n \in Nat |-> [t \in T |-> IF n \in 1..size THEN D!Inserted(t, copies[n]) ELSE t]]
           Turns(f) == [n \in 0..size |-> IF n = 0 THEN <<>> ELSE D!Inserted(f[n - 1], copies[n])]
           g == CHOOSE f : f = Turns(f)
<1>1. size \in Nat /\ \A n \in 1..size : copies[n] \in EntryNames
  BY LenProperties, ElementOfSeq
<1>2. <<>> \in T
  BY EmptySeq
<1> HIDE DEF size, T
<1>3. G \in [Nat -> [T -> T]]
  BY <1>1, InsertedIs DEF T
<1> HIDE DEF G
<1>4. PICK f : Recursive(f, T, <<>>, G)
  BY <1>2, <1>3, Recursion
<1>5. f \in [Nat -> T] /\ f[0] = <<>> /\ \A n \in Nat : f[n + 1] = G[n + 1][f[n]]
  BY <1>4 DEF Recursive
<1> DEFINE part == [n \in 0..size |-> f[n]]
<1>6. ASSUME NEW n \in 0..size
      PROVE  part[n] = IF n = 0 THEN <<>> ELSE D!Inserted(part[n - 1], copies[n])
  <2>1. CASE n = 0
    BY <1>1, <1>5, <2>1
  <2>2. CASE n # 0
    <3>1. n - 1 \in Nat /\ (n - 1) + 1 = n /\ n - 1 \in 0..size /\ n \in 1..size /\ n \in Nat
      BY <1>1, <2>2
    <3>2. f[n - 1] \in T /\ f[n] = G[n][f[n - 1]]
      BY <1>5, <3>1
    <3>3. f[n] = D!Inserted(f[n - 1], copies[n])
      BY <3>1, <3>2 DEF G
    <3> QED BY <2>2, <3>1, <3>3
  <2> QED BY <2>1, <2>2
<1>7. part = Turns(part)
  <2>1. part = [n \in 0..size |-> part[n]]
    OBVIOUS
  <2> HIDE DEF part
  <2> QED BY <1>6, <2>1
<1>8. g = Turns(g)
  <2> HIDE DEF Turns, part
  <2> QED BY <1>7
<1> HIDE DEF g, part
<1>9. g[0] = <<>> /\ \A n \in 1..size : g[n] = D!Inserted(g[n - 1], copies[n])
  <2>1. 0 \in 0..size /\ \A n \in 1..size : n \in 0..size /\ n # 0
    BY <1>1
  <2> QED BY <1>8, <2>1
<1> DEFINE Holds(n) == /\ g[n] \in Seq(EntryNames) /\ Len(g[n]) = n /\ Ordered(g[n])
                       /\ D!ToSet(g[n]) = {copies[i] : i \in 1..n}
           U == {n \in Nat : n <= size => Holds(n)}
<1>10. 0 \in U
  <2>1. Len(<<>>) = 0 /\ <<>> \in Seq(EntryNames) /\ D!ToSet(<<>>) = {}
    BY EmptySeq DEF D!ToSet
  <2>2. Ordered(<<>>)
    BY <2>1 DEF Ordered
  <2>3. {copies[i] : i \in 1..0} = {}
    OBVIOUS
  <2>4. Holds(0)
    BY <1>9, <2>1, <2>2, <2>3
  <2> QED BY <2>4
<1>11. ASSUME NEW n \in Nat, n \in U PROVE n + 1 \in U
  <2>1. SUFFICES ASSUME n + 1 <= size PROVE Holds(n + 1)
    OBVIOUS
  <2>2. n + 1 \in 1..size /\ (n + 1) - 1 = n /\ copies[n + 1] \in EntryNames
    BY <1>1, <2>1
  <2>3. Holds(n)
    BY <1>1, <1>11, <2>1
  <2>4. g[n + 1] = D!Inserted(g[n], copies[n + 1])
    BY <1>9, <2>2
  <2>5. /\ g[n + 1] \in Seq(EntryNames) /\ Len(g[n + 1]) = n + 1 /\ Ordered(g[n + 1])
        /\ D!ToSet(g[n + 1]) = D!ToSet(g[n]) \cup {copies[n + 1]}
    BY <2>2, <2>3, <2>4, InsertedIs
  <2>6. {copies[i] : i \in 1..n + 1} = {copies[i] : i \in 1..n} \cup {copies[n + 1]}
    <3>1. \A i : i \in 1..n + 1 <=> i \in 1..n \/ i = n + 1
      OBVIOUS
    <3> QED BY <3>1
  <2> QED BY <2>3, <2>5, <2>6
<1>12. Holds(size)
  <2>1. size \in U
    <3> HIDE DEF U
    <3> QED BY <1>1, <1>10, <1>11, Induction
  <2> QED BY <1>1, <2>1
<1>13. D!alphasorted(copies) = g[size]
  BY DEF D!alphasorted, g, size
<1>14. D!ToSet(copies) = {copies[i] : i \in 1..size}
  BY LenProperties DEF D!ToSet, size
<1> QED BY <1>12, <1>13, <1>14 DEF size

-----------------------------------------------------------------------------
(* What scandir has collected of the first p entries. *)
Upto(list, keep, p) == {i \in 1..p : list[i] \in keep}
KeptBefore(list, keep, p, i) == {j \in Upto(list, keep, p) : j <= i}
KeptTo(names, list, keep, p) ==
  /\ Len(names) = Cardinality(Upto(list, keep, p))
  /\ \A i \in Upto(list, keep, p) : names[Cardinality(KeptBefore(list, keep, p, i))] = list[i]

(* The entries kept of the first p can be counted. *)
LEMMA UptoFinite ==
  ASSUME NEW list, NEW keep, NEW p \in Nat
  PROVE  IsFiniteSet(Upto(list, keep, p)) /\ Cardinality(Upto(list, keep, p)) \in Nat
<1>1. IsFiniteSet(1..p)
  BY FS_Interval
<1>2. Upto(list, keep, p) \in SUBSET (1..p)
  BY DEF Upto
<1> QED BY <1>1, <1>2, FS_Subset, FS_CardinalityType

(* Of no entries nothing is kept; and one more entry is kept, or is not. *)
LEMMA KeptOne ==
  ASSUME NEW list, NEW keep, NEW p \in Nat, NEW names \in Seq(EntryNames), NEW name \in EntryNames
  PROVE  /\ KeptTo(<<>>, list, keep, 0)
         /\ KeptTo(names, list, keep, p) /\ list[p + 1] \notin keep => KeptTo(names, list, keep, p + 1)
         /\ KeptTo(names, list, keep, p) /\ list[p + 1] \in keep /\ name = list[p + 1] =>
              KeptTo(Append(names, name), list, keep, p + 1)
<1>1. KeptTo(<<>>, list, keep, 0)
  <2>1. Upto(list, keep, 0) = {}
    BY DEF Upto
  <2> QED BY <2>1, FS_EmptySet DEF KeptTo
<1>2. \A i : i \in 1..p + 1 <=> i \in 1..p \/ i = p + 1
  OBVIOUS
<1>3. ASSUME KeptTo(names, list, keep, p), list[p + 1] \notin keep PROVE KeptTo(names, list, keep, p + 1)
  <2>1. Upto(list, keep, p + 1) = Upto(list, keep, p)
    BY <1>2, <1>3 DEF Upto
  <2> QED BY <1>3, <2>1 DEF KeptTo, KeptBefore
<1>4. ASSUME KeptTo(names, list, keep, p), list[p + 1] \in keep, name = list[p + 1]
      PROVE  KeptTo(Append(names, name), list, keep, p + 1)
  <2> DEFINE old == Upto(list, keep, p)
             new == Upto(list, keep, p + 1)
             c == Cardinality(old)
             r == Append(names, name)
  <2>1. new = old \cup {p + 1} /\ p + 1 \notin old
    BY <1>2, <1>4 DEF Upto
  <2>2. IsFiniteSet(old) /\ c \in Nat
    BY UptoFinite
  <2>3. Cardinality(new) = c + 1
    <3> HIDE DEF old, new
    <3> QED BY <2>1, <2>2, FS_AddElement DEF c
  <2>4. Len(names) = c
    BY <1>4 DEF KeptTo
  <2>5. /\ Len(r) = c + 1 /\ r[c + 1] = name /\ \A i \in 1..c : r[i] = names[i]
    BY <2>4, AppendProperties
  <2>6. ASSUME NEW i \in old
        PROVE  r[Cardinality(KeptBefore(list, keep, p + 1, i))] = list[i]
    <3>1. i \in 1..p
      BY DEF Upto
    <3>2. KeptBefore(list, keep, p + 1, i) = KeptBefore(list, keep, p, i)
      BY <2>1, <3>1 DEF KeptBefore
    <3>3. names[Cardinality(KeptBefore(list, keep, p, i))] = list[i]
      BY <1>4 DEF KeptTo
    <3>4. Cardinality(KeptBefore(list, keep, p, i)) \in 1..c
      <4> DEFINE bs == KeptBefore(list, keep, p, i)
      <4>1. bs \in SUBSET old /\ i \in bs
        BY <3>1 DEF KeptBefore
      <4> HIDE DEF bs, old, c
      <4>2. IsFiniteSet(bs) /\ Cardinality(bs) <= Cardinality(old)
        BY <2>2, <4>1, FS_Subset
      <4>3. Cardinality(bs) \in Nat /\ Cardinality(bs) # 0
        BY <4>1, <4>2, FS_CardinalityType, FS_EmptySet
      <4> QED BY <2>2, <4>2, <4>3 DEF bs, c
    <3> QED BY <2>5, <3>2, <3>3, <3>4
  <2>7. r[Cardinality(KeptBefore(list, keep, p + 1, p + 1))] = list[p + 1]
    <3>1. KeptBefore(list, keep, p + 1, p + 1) = new
      BY DEF KeptBefore, Upto
    <3> HIDE DEF new, r, c
    <3> QED BY <1>4, <2>3, <2>5, <3>1
  <2> HIDE DEF old, new, c, r
  <2>8. \A i \in new : r[Cardinality(KeptBefore(list, keep, p + 1, i))] = list[i]
    BY <2>1, <2>6, <2>7
  <2>9. Len(r) = Cardinality(new)
    BY <2>3, <2>5
  <2> QED BY <2>8, <2>9 DEF KeptTo, new, r
<1> QED BY <1>1, <1>3, <1>4

-----------------------------------------------------------------------------
(* What scandir's loop keeps true of what it has collected, on a stream with
   h held: the blocks are the copies and the array, and the copies are the
   entries kept so far, or something has failed and says so. *)
Collections ==
  [s : DirStates, copies : Seq(EntryNames), array : {0, 1}, over : BOOLEAN, failed : BOOLEAN]
Blocks(c) == Len(c.copies) + c.array
Collecting(c, list, keep, h, fault) ==
  /\ c \in Collections
  /\ \E p \in 0..Len(list), e \in DirErrors :
       /\ c.s = Reading(list, p, D!Plus(h, Blocks(c), 0, 0), e)
       /\ c.failed => e # "0"
       /\ c.over /\ ~c.failed => p = Len(list)
       /\ ~c.failed => KeptTo(c.copies, list, keep, p)
  /\ c.failed => c.over /\ fault # D!None
  /\ ~c.failed => (c.array = 0 <=> c.copies = <<>>)

(* Blocks taken twice are blocks taken together. *)
LEMMA MoreBlocks ==
  ASSUME NEW h \in DirHeld, NEW a \in Int, NEW b \in Int
  PROVE  D!Plus(h, a, 0, 0) \in DirHeld /\ D!Plus(D!Plus(h, a, 0, 0), b, 0, 0) = D!Plus(h, a + b, 0, 0)
BY DEF D!Plus, DirHeld

(* A turn of the loop keeps this so, and is one entry further or the last. *)
LEMMA CollectIs ==
  ASSUME D!DirectoriesAssumption, NEW list \in Listable, NEW keep, NEW h \in DirHeld, NEW fault,
         NEW c, Collecting(c, list, keep, h, fault)
  PROVE  LET t == D!Collect(c, keep, fault)
         IN /\ Collecting(t, list, keep, h, fault)
            /\ c.over => t = c
            /\ t.over \/ t.s.dir.position = c.s.dir.position + 1
<1> DEFINE t == D!Collect(c, keep, fault)
           at == c.s.dir.position + 1
           o == D!readdir([c.s EXCEPT !.errno = "0"], IF fault = <<"next", at>> THEN D!Fault("next") ELSE D!None)
           grown == [o.s EXCEPT !.held = D!Plus(o.s.held, 1 - c.array, 0, 0)]
<1>1. /\ c \in Collections /\ c.copies \in Seq(EntryNames) /\ c.array \in {0, 1} /\ c.over \in BOOLEAN
      /\ c.failed \in BOOLEAN /\ Len(c.copies) \in Nat /\ Blocks(c) \in Nat
  BY LenProperties DEF Collecting, Collections, Blocks
<1>2. PICK p \in 0..Len(list), e \in DirErrors :
        /\ c.s = Reading(list, p, D!Plus(h, Blocks(c), 0, 0), e)
        /\ c.failed => e # "0"
        /\ c.over /\ ~c.failed => p = Len(list)
        /\ ~c.failed => KeptTo(c.copies, list, keep, p)
  BY DEF Collecting
<1>3. /\ c.failed => c.over /\ fault # D!None
      /\ ~c.failed => (c.array = 0 <=> c.copies = <<>>)
  BY DEF Collecting
<1> DEFINE hc == D!Plus(h, Blocks(c), 0, 0)
<1>4. Len(list) \in Nat \ {0} /\ p \in Nat /\ list \in Seq(EntryNames) /\ c.s.dir.position = p /\ at = p + 1
  BY <1>2, ListFacts, StandType DEF Reading
<1>5. [c.s EXCEPT !.errno = "0"] = Reading(list, p, hc, "0")
  BY <1>2 DEF Reading
<1>6. o = IF p # 0 /\ fault = <<"next", at>> THEN [s |-> Reading(list, p, hc, "EIO"), r |-> NULL]
          ELSE IF p = Len(list) THEN [s |-> Reading(list, p, hc, "0"), r |-> NULL]
          ELSE [s |-> Reading(list, p + 1, hc, "0"), r |-> list[p + 1]]
  <2>1. D!None # D!Fault("next")
    BY DEF D!None, D!Fault
  <2> DEFINE ff == IF fault = <<"next", at>> THEN D!Fault("next") ELSE D!None
  <2>2. ff = D!Fault("next") <=> fault = <<"next", at>>
    BY <2>1
  <2> HIDE DEF ff, hc, at
  <2>3. D!readdir(Reading(list, p, hc, "0"), ff) =
          IF p # 0 /\ ff = D!Fault("next") THEN [s |-> Reading(list, p, hc, "EIO"), r |-> NULL]
          ELSE IF p = Len(list) THEN [s |-> Reading(list, p, hc, "0"), r |-> NULL]
          ELSE [s |-> Reading(list, p + 1, hc, "0"), r |-> list[p + 1]]
    BY ReadOn
  <2>4. o = D!readdir(Reading(list, p, hc, "0"), ff)
    BY <1>5 DEF ff
  <2> HIDE DEF o
  <2> QED BY <2>2, <2>3, <2>4
<1>7. t = IF c.over THEN c
          ELSE IF o.r = NULL THEN [c EXCEPT !.s = o.s, !.over = TRUE, !.failed = o.s.errno # "0"]
          ELSE IF o.r \notin keep THEN [c EXCEPT !.s = o.s]
          ELSE IF fault = <<"array", at>>
               THEN [c EXCEPT !.s = [o.s EXCEPT !.errno = "ENOMEM"], !.over = TRUE, !.failed = TRUE]
          ELSE IF fault = <<"copy", at>>
               THEN [c EXCEPT !.s = [grown EXCEPT !.errno = "ENOMEM"], !.array = 1, !.over = TRUE, !.failed = TRUE]
          ELSE [c EXCEPT !.s = [grown EXCEPT !.held = D!Plus(grown.held, 1, 0, 0)], !.array = 1,
                         !.copies = Append(c.copies, o.r)]
  BY DEF D!Collect
<1> HIDE DEF t, o, at, grown, hc
<1>8. CASE c.over
  BY <1>7, <1>8 DEF t
<1>9. CASE ~c.over /\ o.r = NULL
  <2>1. t = [c EXCEPT !.s = o.s, !.over = TRUE, !.failed = o.s.errno # "0"]
    BY <1>7, <1>9
  <2>2. PICK x \in DirErrors : /\ o.s = Reading(list, p, hc, x) /\ (x # "0" => fault = <<"next", at>>)
                               /\ (x = "0" => p = Len(list))
    <3>1. p # Len(list) => list[p + 1] # NULL
      <4>1. p # Len(list) => p + 1 \in 1..Len(list)
        BY <1>4
      <4> QED BY <1>4, <4>1, ElementOfSeq DEF D!DirectoriesAssumption
    <3>2. "EIO" \in DirErrors /\ "0" \in DirErrors
      BY DEF DirErrors
    <3>3. CASE p # 0 /\ fault = <<"next", at>>
      BY <1>6, <3>2, <3>3
    <3>4. CASE ~(p # 0 /\ fault = <<"next", at>>)
      BY <1>6, <1>9, <3>1, <3>2, <3>4
    <3> QED BY <3>3, <3>4
  <2>3. o.s.errno = x /\ o.s \in DirStates
    <3>1. hc \in DirHeld
      BY <1>1 DEF hc, D!Plus, DirHeld
    <3> QED BY <1>4, <2>2, <3>1, ReadingType DEF Reading
  <2>4. /\ t \in Collections /\ t.s = o.s /\ t.over = TRUE /\ t.failed = (x # "0")
        /\ t.copies = c.copies /\ t.array = c.array
    BY <1>1, <2>1, <2>3 DEF Collections
  <2>5. Blocks(t) = Blocks(c) /\ ~c.failed
    BY <1>3, <1>9, <2>4 DEF Blocks
  <2>6. fault = <<"next", at>> => fault # D!None
    BY DEF D!None, D!Fault
  <2>7. t.s = Reading(list, p, D!Plus(h, Blocks(t), 0, 0), x)
    BY <2>2, <2>4, <2>5 DEF hc
  <2>8. /\ t.failed => x # "0"
        /\ t.over /\ ~t.failed => p = Len(list)
        /\ ~t.failed => KeptTo(t.copies, list, keep, p)
    BY <1>2, <2>2, <2>4, <2>5
  <2>9. /\ t.failed => t.over /\ fault # D!None
        /\ ~t.failed => (t.array = 0 <=> t.copies = <<>>)
    BY <1>3, <2>2, <2>4, <2>5, <2>6
  <2>10. Collecting(t, list, keep, h, fault)
    BY <2>4, <2>7, <2>8, <2>9 DEF Collecting
  <2> QED BY <1>9, <2>4, <2>10 DEF t
<1> DEFINE name == list[p + 1]
<1>10. ASSUME ~c.over, o.r # NULL
       PROVE  /\ p < Len(list) /\ p + 1 \in 0..Len(list) /\ o.s = Reading(list, p + 1, hc, "0") /\ o.r = name
              /\ name \in EntryNames /\ ~c.failed /\ KeptTo(c.copies, list, keep, p)
  <2>1. ~(p # 0 /\ fault = <<"next", at>>) /\ p # Len(list)
    BY <1>6, <1>10
  <2>2. p < Len(list) /\ p + 1 \in 0..Len(list) /\ p + 1 \in 1..Len(list)
    BY <1>4, <2>1
  <2> QED BY <1>2, <1>3, <1>4, <1>6, <1>10, <2>1, <2>2, ElementOfSeq
<1>11. ASSUME ~c.over, o.r # NULL, o.r \notin keep
       PROVE  Collecting(t, list, keep, h, fault) /\ t.s.dir.position = p + 1
  <2>1. t = [c EXCEPT !.s = o.s]
    BY <1>7, <1>11
  <2>2. hc \in DirHeld /\ "0" \in DirErrors
    BY <1>1 DEF hc, D!Plus, DirHeld, DirErrors
  <2>3. o.s = Reading(list, p + 1, hc, "0") /\ o.s \in DirStates
    BY <1>4, <1>10, <1>11, <2>2, ReadingType
  <2>4. /\ t \in Collections /\ t.s = o.s /\ t.over = c.over /\ t.failed = c.failed
        /\ t.copies = c.copies /\ t.array = c.array
    BY <1>1, <2>1, <2>3 DEF Collections
  <2>5. t.s = Reading(list, p + 1, D!Plus(h, Blocks(t), 0, 0), "0")
    BY <2>3, <2>4 DEF Blocks, hc
  <2>6. KeptTo(t.copies, list, keep, p + 1)
    BY <1>1, <1>4, <1>10, <1>11, <2>4, KeptOne
  <2>7. Collecting(t, list, keep, h, fault)
    BY <1>3, <1>10, <1>11, <2>2, <2>4, <2>5, <2>6 DEF Collecting
  <2> QED BY <1>4, <2>5, <2>7, StandType DEF Reading
<1> DEFINE hg == D!Plus(h, Len(c.copies) + 1, 0, 0)
<1>12. ASSUME ~c.over, o.r # NULL, o.r \in keep
       PROVE  /\ grown = Reading(list, p + 1, hg, "0") /\ hg \in DirHeld
              /\ [grown EXCEPT !.errno = "ENOMEM"] = Reading(list, p + 1, hg, "ENOMEM")
              /\ [o.s EXCEPT !.errno = "ENOMEM"] = Reading(list, p + 1, hc, "ENOMEM")
              /\ D!Plus(grown.held, 1, 0, 0) = D!Plus(h, Len(c.copies) + 2, 0, 0)
              /\ [grown EXCEPT !.held = D!Plus(grown.held, 1, 0, 0)] =
                   Reading(list, p + 1, D!Plus(h, Len(c.copies) + 2, 0, 0), "0")
  <2>1. o.s = Reading(list, p + 1, hc, "0") /\ o.s.held = hc
    BY <1>10, <1>12 DEF Reading
  <2>2. Blocks(c) \in Int /\ 1 - c.array \in Int /\ Blocks(c) + (1 - c.array) = Len(c.copies) + 1
    BY <1>1 DEF Blocks
  <2>3. D!Plus(hc, 1 - c.array, 0, 0) = hg /\ hg \in DirHeld
    <3>1. D!Plus(D!Plus(h, Blocks(c), 0, 0), 1 - c.array, 0, 0) = D!Plus(h, Blocks(c) + (1 - c.array), 0, 0)
      BY <2>2, MoreBlocks
    <3>2. Len(c.copies) + 1 \in Int
      BY <1>1
    <3> QED BY <2>2, <3>1, <3>2, MoreBlocks DEF hc
  <2>4. grown = [o.s EXCEPT !.held = hg]
    BY <2>1, <2>3 DEF grown
  <2> HIDE DEF hg
  <2>5. grown = Reading(list, p + 1, hg, "0") /\ grown.held = hg
    BY <2>1, <2>4 DEF Reading
  <2>6. D!Plus(hg, 1, 0, 0) = D!Plus(h, Len(c.copies) + 2, 0, 0)
    <3>1. Len(c.copies) + 1 \in Int /\ (Len(c.copies) + 1) + 1 = Len(c.copies) + 2
      BY <1>1
    <3>2. D!Plus(D!Plus(h, Len(c.copies) + 1, 0, 0), 1, 0, 0) = D!Plus(h, (Len(c.copies) + 1) + 1, 0, 0)
      BY <3>1, MoreBlocks
    <3> QED BY <3>1, <3>2 DEF hg
  <2>7. /\ [grown EXCEPT !.errno = "ENOMEM"] = Reading(list, p + 1, hg, "ENOMEM")
        /\ \A hh : [grown EXCEPT !.held = hh] = Reading(list, p + 1, hh, "0")
    BY <2>5 DEF Reading
  <2>8. [o.s EXCEPT !.errno = "ENOMEM"] = Reading(list, p + 1, hc, "ENOMEM")
    BY <2>1 DEF Reading
  <2> QED BY <2>3, <2>5, <2>6, <2>7, <2>8
<1>13. ASSUME ~c.over, o.r # NULL, o.r \in keep, fault \in {<<"array", at>>, <<"copy", at>>}
       PROVE  Collecting(t, list, keep, h, fault) /\ t.over
  <2>1. "ENOMEM" \in DirErrors /\ "ENOMEM" # "0" /\ hc \in DirHeld
    BY <1>1 DEF DirErrors, hc, D!Plus, DirHeld
  <2>2. fault # D!None
    BY <1>13 DEF D!None, D!Fault
  <2>3. PICK hh \in DirHeld :
          /\ t.s = Reading(list, p + 1, hh, "ENOMEM") /\ t \in Collections
          /\ t.copies = c.copies /\ t.over = TRUE /\ t.failed = TRUE /\ hh = D!Plus(h, Blocks(t), 0, 0)
    <3>1. CASE fault = <<"array", at>>
      <4>1. t = [c EXCEPT !.s = [o.s EXCEPT !.errno = "ENOMEM"], !.over = TRUE, !.failed = TRUE]
        BY <1>7, <1>13, <3>1
      <4>2. [o.s EXCEPT !.errno = "ENOMEM"] = Reading(list, p + 1, hc, "ENOMEM")
        BY <1>12, <1>13
      <4>3. t = [c EXCEPT !.s = Reading(list, p + 1, hc, "ENOMEM"), !.over = TRUE, !.failed = TRUE]
        BY <4>1, <4>2
      <4>4. Reading(list, p + 1, hc, "ENOMEM") \in DirStates
        BY <1>4, <2>1, ReadingType
      <4>5. /\ t \in Collections /\ t.s = Reading(list, p + 1, hc, "ENOMEM") /\ t.over = TRUE /\ t.failed = TRUE
            /\ t.copies = c.copies /\ t.array = c.array
        BY <1>1, <4>3, <4>4 DEF Collections
      <4>6. hc = D!Plus(h, Blocks(t), 0, 0)
        BY <4>5 DEF hc, Blocks
      <4> QED BY <2>1, <4>5, <4>6
    <3>2. CASE fault # <<"array", at>>
      <4>1. t = [c EXCEPT !.s = [grown EXCEPT !.errno = "ENOMEM"], !.array = 1, !.over = TRUE, !.failed = TRUE]
        BY <1>7, <1>13, <3>2
      <4>2. [grown EXCEPT !.errno = "ENOMEM"] = Reading(list, p + 1, hg, "ENOMEM") /\ hg \in DirHeld
        BY <1>12, <1>13
      <4>3. t = [c EXCEPT !.s = Reading(list, p + 1, hg, "ENOMEM"), !.array = 1, !.over = TRUE, !.failed = TRUE]
        BY <4>1, <4>2
      <4>4. Reading(list, p + 1, hg, "ENOMEM") \in DirStates
        <5>1. p + 1 \in Nat /\ hg \in DirHeld /\ "ENOMEM" \in DirErrors
          BY <1>4, <2>1, <4>2
        <5> HIDE DEF hg
        <5> QED BY <5>1, ReadingType
      <4>5. /\ t \in Collections /\ t.s = Reading(list, p + 1, hg, "ENOMEM") /\ t.over = TRUE /\ t.failed = TRUE
            /\ t.copies = c.copies /\ t.array = 1
        <5> HIDE DEF hg
        <5> QED BY <1>1, <4>3, <4>4 DEF Collections
      <4>6. hg = D!Plus(h, Blocks(t), 0, 0)
        BY <4>5 DEF Blocks
      <4> HIDE DEF hg
      <4> QED BY <4>2, <4>5, <4>6
    <3> QED BY <3>1, <3>2
  <2>4. p + 1 \in 0..Len(list)
    BY <1>10, <1>13
  <2> QED BY <2>1, <2>2, <2>3, <2>4 DEF Collecting
<1>14. ASSUME ~c.over, o.r # NULL, o.r \in keep, fault \notin {<<"array", at>>, <<"copy", at>>}
       PROVE  Collecting(t, list, keep, h, fault) /\ t.s.dir.position = p + 1
  <2> DEFINE hk == D!Plus(h, Len(c.copies) + 2, 0, 0)
             new == Append(c.copies, name)
  <2>1. t = [c EXCEPT !.s = Reading(list, p + 1, hk, "0"), !.array = 1, !.copies = new]
    <3>1. t = [c EXCEPT !.s = [grown EXCEPT !.held = D!Plus(grown.held, 1, 0, 0)], !.array = 1,
                        !.copies = Append(c.copies, o.r)]
      BY <1>7, <1>14
    <3>2. [grown EXCEPT !.held = D!Plus(grown.held, 1, 0, 0)] = Reading(list, p + 1, hk, "0") /\ o.r = name
      BY <1>10, <1>12, <1>14
    <3> QED BY <3>1, <3>2
  <2>2. hk \in DirHeld /\ "0" \in DirErrors
    <3>1. Len(c.copies) + 2 \in Int
      BY <1>1
    <3> QED BY <3>1, MoreBlocks DEF DirErrors
  <2>3. new \in Seq(EntryNames) /\ Len(new) = Len(c.copies) + 1 /\ new # <<>>
    <3>1. name \in EntryNames
      BY <1>10, <1>14
    <3>2. new \in Seq(EntryNames) /\ Len(new) = Len(c.copies) + 1
      BY <1>1, <3>1, AppendProperties
    <3>3. Len(new) # 0
      BY <1>1, <3>2
    <3> QED BY <3>2, <3>3
  <2> HIDE DEF hk, new
  <2>4. Reading(list, p + 1, hk, "0") \in DirStates
    BY <1>4, <2>2, ReadingType
  <2>5. /\ t \in Collections /\ t.s = Reading(list, p + 1, hk, "0") /\ t.over = c.over /\ t.failed = c.failed
        /\ t.copies = new /\ t.array = 1
    BY <1>1, <2>1, <2>3, <2>4 DEF Collections
  <2>6. Blocks(t) = Len(c.copies) + 2
    BY <1>1, <2>3, <2>5 DEF Blocks
  <2>7. t.s = Reading(list, p + 1, D!Plus(h, Blocks(t), 0, 0), "0")
    BY <2>5, <2>6 DEF hk
  <2>8. KeptTo(t.copies, list, keep, p + 1)
    <3>1. /\ KeptTo(c.copies, list, keep, p) /\ list[p + 1] \in keep /\ name \in EntryNames
          /\ c.copies \in Seq(EntryNames) /\ p \in Nat
      BY <1>1, <1>4, <1>10, <1>14
    <3> QED BY <2>5, <3>1, KeptOne DEF new
  <2>9. p + 1 \in 0..Len(list) /\ ~c.failed
    BY <1>10, <1>14
  <2>10. Collecting(t, list, keep, h, fault)
    BY <1>14, <2>2, <2>3, <2>5, <2>7, <2>8, <2>9 DEF Collecting
  <2> QED BY <1>4, <2>5, <2>10, StandType DEF Reading
<1>15. CASE ~c.over /\ o.r # NULL
  <2>1. Collecting(t, list, keep, h, fault) /\ (t.over \/ t.s.dir.position = p + 1)
    BY <1>11, <1>13, <1>14, <1>15
  <2> QED BY <1>4, <1>15, <2>1 DEF t
<1> QED BY <1>8, <1>9, <1>15 DEF t

(* The loop of scandir: a function of the number of turns, which keeps this
   so and reaches the end of the directory or a failure. *)
LEMMA CollectedIs ==
  ASSUME D!DirectoriesAssumption, NEW list \in Listable, NEW keep, NEW h \in DirHeld, NEW e \in DirErrors, NEW fault
  PROVE  LET c == D!Collected(Reading(list, 0, h, e), keep, fault, Len(list) + 1)
         IN Collecting(c, list, keep, h, fault) /\ c.over
<1> DEFINE s == Reading(list, 0, h, e)
           start == [s |-> s, copies |-> <<>>, array |-> 0, over |-> FALSE, failed |-> FALSE]
           T == {c \in Collections : Collecting(c, list, keep, h, fault)}
           Step(c) == D!Collect(c, keep, fault)
           F == [c \in T |-> Step(c)]
           G == [n \in Nat |-> F]
           Turns(f) == [n \in Nat |-> IF n = 0 THEN start ELSE D!Collect(f[n - 1], keep, fault)]
           g == CHOOSE f : f = Turns(f)
<1>1. Len(list) \in Nat \ {0} /\ 0 \in 0..Len(list)
  BY ListFacts
<1>2. start \in T
  <2>1. s \in DirStates
    BY ReadingType
  <2>2. D!Plus(h, 0, 0, 0) = h
    BY DEF D!Plus, DirHeld
  <2>3. <<>> \in Seq(EntryNames) /\ Len(<<>>) = 0 /\ KeptTo(<<>>, list, keep, 0)
    <3>1. KeptTo(<<>>, list, keep, 0)
      <4>1. Upto(list, keep, 0) = {}
        BY DEF Upto
      <4> QED BY <4>1, FS_EmptySet DEF KeptTo
    <3> QED BY <3>1, EmptySeq
  <2> HIDE DEF s
  <2>4. start \in Collections
    BY <2>1, <2>3 DEF Collections
  <2>5. Blocks(start) = 0
    BY <2>3 DEF Blocks
  <2>6. /\ start.s = s /\ start.copies = <<>> /\ start.array = 0 /\ start.over = FALSE /\ start.failed = FALSE
    OBVIOUS
  <2> HIDE DEF start
  <2>7. start.s = Reading(list, 0, D!Plus(h, Blocks(start), 0, 0), e)
    BY <2>2, <2>5, <2>6 DEF s
  <2>8. Collecting(start, list, keep, h, fault)
    BY <1>1, <2>3, <2>4, <2>6, <2>7 DEF Collecting
  <2> QED BY <2>4, <2>8
<1>3. \A c \in T : Step(c) \in T
  <2>1. ASSUME NEW c \in T PROVE Collecting(Step(c), list, keep, h, fault)
    BY CollectIs
  <2> QED BY <2>1 DEF Collecting
<1> HIDE DEF T, start, Step, s
<1>4. G \in [Nat -> [T -> T]]
  BY <1>3
<1> HIDE DEF G
<1>5. PICK f : Recursive(f, T, start, G)
  BY <1>2, <1>4, Recursion
<1>6. f \in [Nat -> T] /\ f[0] = start /\ \A n \in Nat : f[n + 1] = G[n + 1][f[n]]
  BY <1>5 DEF Recursive
<1>7. ASSUME NEW n \in Nat PROVE f[n] = IF n = 0 THEN start ELSE Step(f[n - 1])
  <2>1. CASE n = 0
    BY <1>6, <2>1
  <2>2. CASE n # 0
    <3>1. n - 1 \in Nat /\ (n - 1) + 1 = n
      BY <2>2
    <3>2. f[n - 1] \in T /\ f[n] = G[n][f[n - 1]]
      BY <1>6, <3>1
    <3> QED BY <2>2, <3>2 DEF G
  <2> QED BY <2>1, <2>2
<1>8. f = Turns(f)
  <2>1. f = [n \in Nat |-> f[n]]
    BY <1>6
  <2> QED BY <1>7, <2>1 DEF Step
<1>9. g = Turns(g)
  <2> HIDE DEF Turns
  <2> QED BY <1>8
<1> HIDE DEF g
<1>10. g[0] = start /\ \A n \in Nat : g[n + 1] = Step(g[n])
  <2>1. g[0] = start
    BY <1>9
  <2>2. ASSUME NEW n \in Nat PROVE g[n + 1] = Step(g[n])
    <3>1. n + 1 \in Nat /\ n + 1 # 0 /\ (n + 1) - 1 = n
      OBVIOUS
    <3> QED BY <1>9, <3>1 DEF Step
  <2> QED BY <2>1, <2>2
<1> HIDE DEF Turns
<1> DEFINE U == {n \in Nat : g[n] \in T /\ (g[n].over \/ g[n].s.dir.position = n)}
<1>11. 0 \in U
  <2>1. start.s.dir.position = 0
    BY StandType DEF start, s, Reading
  <2> QED BY <1>2, <1>10, <2>1
<1>12. ASSUME NEW n \in Nat, n \in U PROVE n + 1 \in U
  <2>1. g[n + 1] = Step(g[n]) /\ g[n] \in T
    BY <1>10, <1>12
  <2>2. g[n + 1] \in T
    BY <1>3, <2>1
  <2>3. /\ g[n].over => Step(g[n]) = g[n]
        /\ Step(g[n]).over \/ Step(g[n]).s.dir.position = g[n].s.dir.position + 1
    <3> DEFINE x == g[n]
    <3>1. Collecting(x, list, keep, h, fault)
      BY <2>1 DEF T
    <3> HIDE DEF x
    <3>2. /\ x.over => D!Collect(x, keep, fault) = x
          /\ D!Collect(x, keep, fault).over \/ D!Collect(x, keep, fault).s.dir.position = x.s.dir.position + 1
      BY <3>1, CollectIs
    <3> QED BY <3>2 DEF x, Step
  <2> QED BY <1>12, <2>1, <2>2, <2>3
<1>13. Len(list) + 1 \in U
  <2>1. Len(list) + 1 \in Nat
    BY <1>1
  <2> HIDE DEF U
  <2> QED BY <1>11, <1>12, <2>1, Induction
<1> DEFINE c == D!Collected(s, keep, fault, Len(list) + 1)
<1>14. c = g[Len(list) + 1]
  BY DEF D!Collected, g, Turns, start
<1> HIDE DEF c
<1>15. Collecting(c, list, keep, h, fault) /\ (c.over \/ c.s.dir.position = Len(list) + 1)
  BY <1>13, <1>14 DEF T
<1>16. c.over
  <2>1. PICK p \in 0..Len(list), x \in DirErrors : c.s = Reading(list, p, D!Plus(h, Blocks(c), 0, 0), x)
    BY <1>15 DEF Collecting
  <2>2. c.s.dir.position = p
    BY <1>1, <2>1, StandType DEF Reading
  <2>3. p # Len(list) + 1
    BY <1>1
  <2> QED BY <1>15, <2>2, <2>3
<1> QED BY <1>15, <1>16 DEF c, s

(* What was taken with b blocks more is given back, and then the blocks. *)
LEMMA GivenBack ==
  ASSUME NEW h \in DirHeld, NEW b \in Nat
  PROVE  /\ D!Plus(D!Plus(D!Plus(h, 1, 1, 1), b, 0, 0), -1, -1, -1) = D!Plus(h, b, 0, 0)
         /\ D!Plus(D!Plus(h, b, 0, 0), -b, 0, 0) = h
<1>1. PICK x \in Int, y \in Int, z \in Int : h = [memory |-> x, descriptor |-> y, search |-> z]
  BY DEF DirHeld
<1>2. /\ D!Plus(D!Plus(h, 1, 1, 1), b, 0, 0) = [memory |-> x + 1 + b, descriptor |-> y + 1, search |-> z + 1]
      /\ D!Plus(h, b, 0, 0) = [memory |-> x + b, descriptor |-> y, search |-> z]
  BY <1>1 DEF D!Plus
<1>3. (x + 1 + b) + (-1) = x + b /\ (y + 1) + (-1) = y /\ (z + 1) + (-1) = z /\ (x + b) + (-b) = x
  OBVIOUS
<1>4. D!Plus(D!Plus(h, b, 0, 0), -b, 0, 0) = h
  BY <1>1, <1>2, <1>3 DEF D!Plus
<1> QED BY <1>2, <1>3, <1>4 DEF D!Plus

(* What scandir works with, and what the caller is given. *)
Obtained(r) == IF r \in {NULL, <<>>} THEN 0 ELSE Len(r) + 1
Scanned(s, keep, fault) ==
  D!Collected(D!opendir([s EXCEPT !.dir = NULL], fault), keep, fault,
              Len(D!opendir([s EXCEPT !.dir = NULL], fault).dir.search.list) + 1)
InOrder(copies, sort) == IF sort THEN D!alphasorted(copies) ELSE copies

(* scandir gives what is kept, each name a block and the array one more, or
   nothing at all and an error; the caller's own stream is not touched. *)
LEMMA ScanIs ==
  ASSUME D!DirectoriesAssumption, directory \in Listings, NEW s \in DirStates, NEW keep, NEW sort, NEW fault
  PROVE  LET o == D!scandir(s, keep, sort, fault)
             copies == Scanned(s, keep, fault).copies
         IN /\ o.s \in DirStates /\ o.s.dir = s.dir
            /\ o.s.held = D!Plus(s.held, Obtained(o.r), 0, 0)
            /\ o.r = NULL => o.s.errno # "0"
            /\ fault = D!None /\ directory # D!Gone =>
                 /\ copies \in Seq(EntryNames) /\ KeptTo(copies, directory, keep, Len(directory))
                 /\ o.r = InOrder(copies, sort)
<1> DEFINE none == [s EXCEPT !.dir = NULL]
           opened == D!opendir(none, fault)
           c == D!Collected(opened, keep, fault, Len(opened.dir.search.list) + 1)
           closing == IF fault = D!Fault("closing") THEN D!Fault("search") ELSE D!None
           closed == D!closedir(c.s, closing)
           failed == c.failed \/ closed.r = -1
           freed == [closed.s EXCEPT !.held = D!wcrt_scandir_free([c EXCEPT !.s = closed.s])]
           result == IF failed THEN NULL ELSE IF sort THEN D!alphasorted(c.copies) ELSE c.copies
           o == D!scandir(s, keep, sort, fault)
<1>1. s.held \in DirHeld /\ s.errno \in DirErrors /\ s.dir \in DirStreams \cup {NULL}
  BY DEF DirStates
<1>2. none \in DirStates /\ none.held = s.held /\ none.errno = s.errno
  BY DEF DirStates
<1>3. o = IF opened.dir = NULL THEN [s |-> [opened EXCEPT !.dir = s.dir], r |-> NULL]
          ELSE [s |-> [(IF failed THEN freed ELSE closed.s) EXCEPT !.dir = s.dir], r |-> result]
  BY DEF D!scandir
<1>4. Scanned(s, keep, fault) = c
  BY DEF Scanned
<1> HIDE DEF none
<1>5. /\ \/ opened \in DirStates /\ opened.dir = NULL /\ opened.held = s.held /\ opened.errno # "0"
         \/ directory \in Listable /\ opened = Reading(directory, 0, D!Plus(s.held, 1, 1, 1), s.errno)
      /\ fault = D!None /\ directory # D!Gone => opened.dir # NULL
  BY <1>2, OpenIs
<1> HIDE DEF opened
<1>6. CASE opened.dir = NULL
  <2>1. directory \in Listable => opened # Reading(directory, 0, D!Plus(s.held, 1, 1, 1), s.errno)
    <3>1. ASSUME directory \in Listable PROVE Reading(directory, 0, D!Plus(s.held, 1, 1, 1), s.errno).dir # NULL
      BY <3>1, StandType DEF Reading
    <3> QED BY <1>6, <3>1
  <2>2. opened \in DirStates /\ opened.held = s.held /\ opened.errno # "0"
    BY <1>5, <2>1
  <2>3. o.r = NULL /\ o.s = [opened EXCEPT !.dir = s.dir]
    BY <1>3, <1>6
  <2>4. o.s \in DirStates /\ o.s.dir = s.dir /\ o.s.held = s.held /\ o.s.errno = opened.errno
    BY <1>1, <2>2, <2>3 DEF DirStates
  <2>5. D!Plus(s.held, Obtained(o.r), 0, 0) = s.held
    BY <1>1, <2>3 DEF Obtained, D!Plus, DirHeld
  <2> HIDE DEF o
  <2>6. ~(fault = D!None /\ directory # D!Gone)
    BY <1>5, <1>6
  <2> QED BY <2>2, <2>3, <2>4, <2>5, <2>6 DEF o
<1>7. CASE opened.dir # NULL
  <2> DEFINE h == D!Plus(s.held, 1, 1, 1)
  <2>1. directory \in Listable /\ opened = Reading(directory, 0, h, s.errno) /\ h \in DirHeld
    BY <1>1, <1>5, <1>7 DEF D!Plus, DirHeld
  <2> HIDE DEF h
  <2>2. opened.dir.search.list = directory
    BY <2>1, StandType DEF Reading
  <2>3. Collecting(c, directory, keep, h, fault) /\ c.over
    BY <1>1, <2>1, <2>2, CollectedIs
  <2> HIDE DEF c
  <2>4. PICK p \in 0..Len(directory), e \in DirErrors :
          /\ c.s = Reading(directory, p, D!Plus(h, Blocks(c), 0, 0), e)
          /\ c.failed => e # "0"
          /\ c.over /\ ~c.failed => p = Len(directory)
          /\ ~c.failed => KeptTo(c.copies, directory, keep, p)
    BY <2>3 DEF Collecting
  <2>5. /\ c \in Collections /\ c.copies \in Seq(EntryNames) /\ c.array \in {0, 1} /\ Len(c.copies) \in Nat
        /\ Blocks(c) \in Nat
    BY <2>3, LenProperties DEF Collecting, Collections, Blocks
  <2> DEFINE hc == D!Plus(h, Blocks(c), 0, 0)
  <2>6. hc \in DirHeld /\ p \in Nat
    BY <2>1, <2>4, <2>5, MoreBlocks, ListFacts
  <2>7. /\ closed.s \in DirStates /\ closed.s.dir = NULL /\ closed.s.held = D!Plus(hc, -1, -1, -1)
        /\ closed.r \in {0, -1}
        /\ closed.r = -1 \/ e # "0" => closed.s.errno # "0"
        /\ closing = D!None => closed.r = 0
    <3> HIDE DEF hc, closing
    <3> QED BY <2>1, <2>4, <2>6, CloseIs DEF hc
  <2>8. D!Plus(hc, -1, -1, -1) = D!Plus(s.held, Blocks(c), 0, 0)
    <3>1. D!Plus(D!Plus(D!Plus(s.held, 1, 1, 1), Blocks(c), 0, 0), -1, -1, -1) = D!Plus(s.held, Blocks(c), 0, 0)
      BY <1>1, <2>5, GivenBack
    <3> QED BY <3>1 DEF hc, h
  <2>9. D!wcrt_scandir_free([c EXCEPT !.s = closed.s]) = s.held
    <3> DEFINE cc == [c EXCEPT !.s = closed.s]
    <3>1. cc.s = closed.s /\ cc.copies = c.copies /\ cc.array = c.array
      <4> HIDE DEF closed
      <4> QED BY <2>5 DEF Collections
    <3> HIDE DEF closed, cc
    <3>2. D!wcrt_scandir_free(cc) = D!Plus(closed.s.held, -(Len(c.copies) + c.array), 0, 0)
      BY <3>1 DEF D!wcrt_scandir_free
    <3>3. D!Plus(D!Plus(s.held, Blocks(c), 0, 0), -Blocks(c), 0, 0) = s.held
      BY <1>1, <2>5, GivenBack
    <3> QED BY <2>7, <2>8, <3>2, <3>3 DEF Blocks, cc
  <2>10. fault = D!None => closing = D!None /\ ~c.failed
    <3>1. D!None # D!Fault("closing")
      BY DEF D!None, D!Fault
    <3> QED BY <2>3, <3>1 DEF Collecting
  <2>11. o.r = result /\ o.s = [(IF failed THEN freed ELSE closed.s) EXCEPT !.dir = s.dir]
    <3> HIDE DEF failed, freed, closed, result
    <3> QED BY <1>3, <1>7
  <2> HIDE DEF closed, closing, o, hc
  <2>12. CASE failed
    <3>1. freed \in DirStates /\ freed.held = s.held /\ freed.errno = closed.s.errno
      BY <1>1, <2>7, <2>9 DEF DirStates
    <3>2. o.r = NULL /\ o.s = [freed EXCEPT !.dir = s.dir]
      BY <2>11, <2>12
    <3> HIDE DEF freed
    <3>3. o.s \in DirStates /\ o.s.dir = s.dir /\ o.s.held = s.held /\ o.s.errno = closed.s.errno
      BY <1>1, <3>1, <3>2 DEF DirStates
    <3>4. D!Plus(s.held, Obtained(o.r), 0, 0) = s.held
      BY <1>1, <3>2 DEF Obtained, D!Plus, DirHeld
    <3>5. closed.s.errno # "0"
      BY <2>4, <2>7, <2>12
    <3>6. ~(fault = D!None /\ directory # D!Gone)
      BY <2>7, <2>10, <2>12
    <3> QED BY <3>5, <3>6, <3>2, <3>3, <3>4 DEF o
  <2>13. CASE ~failed
    <3>1. o.r = result /\ o.s = [closed.s EXCEPT !.dir = s.dir]
      BY <2>11, <2>13
    <3>2. o.s \in DirStates /\ o.s.dir = s.dir /\ o.s.held = D!Plus(s.held, Blocks(c), 0, 0)
      BY <1>1, <2>7, <2>8, <3>1 DEF DirStates
    <3>3. result = InOrder(c.copies, sort)
      BY <2>13 DEF InOrder
    <3>4. result \in Seq(EntryNames) /\ Len(result) = Len(c.copies)
      BY <2>5, <3>3, AlphasortedIs DEF InOrder
    <3> HIDE DEF result
    <3>5. result # NULL /\ (result = <<>> <=> c.copies = <<>>)
      BY <2>5, <3>4, EmptySeq DEF D!DirectoriesAssumption
    <3>6. Obtained(result) = Blocks(c)
      <4>1. c.array = 0 <=> c.copies = <<>>
        BY <2>3, <2>13 DEF Collecting
      <4>2. CASE c.copies = <<>>
        BY <3>5, <4>1, <4>2, EmptySeq DEF Obtained, Blocks
      <4>3. CASE c.copies # <<>>
        BY <2>5, <3>4, <3>5, <4>1, <4>3 DEF Obtained, Blocks
      <4> QED BY <4>2, <4>3
    <3>7. KeptTo(c.copies, directory, keep, Len(directory))
      BY <2>3, <2>4, <2>13
    <3> HIDE DEF failed
    <3> QED BY <1>4, <2>5, <3>1, <3>2, <3>3, <3>5, <3>6, <3>7 DEF o
  <2> QED BY <2>12, <2>13
<1> QED BY <1>6, <1>7

-----------------------------------------------------------------------------
(* The inductive invariant of directory streams, a property of a state: what
   is held is what the stream needs, and its search stands at an entry or at
   the end. *)
DirNeeds(d) == IF d = NULL THEN D!Nothing ELSE [memory |-> 1, descriptor |-> 1, search |-> Searching(d)]
Well(s) ==
  /\ s \in DirStates /\ s.held = DirNeeds(s.dir)
  /\ s.dir = NULL \/ s.dir \in Stale \/ s.dir \in AllStands

(* A stream in a well state: what it holds, and where its search stands. *)
LEMMA WellCases ==
  ASSUME D!DirectoriesAssumption, NEW s, Well(s), s.dir # NULL
  PROVE  /\ s.dir \in DirStreams /\ s.held \in DirHeld /\ s.errno \in DirErrors
         /\ s.held = [memory |-> 1, descriptor |-> 1, search |-> Searching(s.dir)]
         /\ s.dir.search # NULL =>
              \E list \in Listable : \E p \in 0..Len(list) : s = Reading(list, p, s.held, s.errno)
<1>1. s.dir \in DirStreams /\ s.held \in DirHeld /\ s.errno \in DirErrors
  BY DEF Well, DirStates
<1>2. s.held = [memory |-> 1, descriptor |-> 1, search |-> Searching(s.dir)]
  BY DEF Well, DirNeeds
<1>3. ASSUME s.dir.search # NULL
      PROVE  \E list \in Listable : \E p \in 0..Len(list) : s = Reading(list, p, s.held, s.errno)
  <2>1. s.dir \in AllStands
    BY <1>3 DEF Well, Stale
  <2>2. PICK list \in Listable : \E p \in 0..Len(list) : s.dir = StandsAt(list, p)
    BY <2>1 DEF AllStands
  <2>p. PICK p \in 0..Len(list) : s.dir = StandsAt(list, p)
    BY <2>2
  <2>3. s = [dir |-> s.dir, held |-> s.held, errno |-> s.errno]
    BY DEF Well, DirStates
  <2> QED BY <2>p, <2>3 DEF Reading
<1> QED BY <1>1, <1>2, <1>3

(* A stream that stands at an entry, with what it needs, is well. *)
LEMMA StandingWell ==
  ASSUME D!DirectoriesAssumption, NEW list \in Listable, NEW p \in 0..Len(list), NEW h, NEW e \in DirErrors,
         h = [memory |-> 1, descriptor |-> 1, search |-> 1]
  PROVE  Well(Reading(list, p, h, e))
<1> DEFINE s == Reading(list, p, h, e)
<1>1. p \in Nat /\ h \in DirHeld
  BY ListFacts DEF DirHeld
<1>2. s \in DirStates /\ s.dir = StandsAt(list, p) /\ s.held = h
  BY <1>1, ReadingType DEF Reading
<1>3. s.dir \in AllStands /\ s.dir # NULL /\ Searching(s.dir) = 1
  BY <1>1, <1>2, StandType DEF AllStands, Searching
<1> QED BY <1>2, <1>3 DEF Well, DirNeeds

(* A stream whose search could not be begun is well without one. *)
LEMMA RefusedWell ==
  ASSUME D!DirectoriesAssumption, NEW t, NEW h, Refused(t, h), h = [memory |-> 1, descriptor |-> 1, search |-> 0]
  PROVE  Well(t)
<1>1. t \in DirStates /\ t.dir \in Stale /\ t.held = h
  BY DEF Refused
<1>2. t.dir # NULL /\ Searching(t.dir) = 0
  BY <1>1 DEF Stale, Searching, D!DirectoriesAssumption, DirStreams, DirSearches
<1> QED BY <1>1, <1>2 DEF Well, DirNeeds

(* Only errno changes. *)
LEMMA ErrnoWell ==
  ASSUME NEW s, Well(s), NEW e \in DirErrors
  PROVE  Well([s EXCEPT !.errno = e])
<1>1. s \in DirStates
  BY DEF Well
<1>2. /\ [s EXCEPT !.errno = e] \in DirStates /\ [s EXCEPT !.errno = e].dir = s.dir
      /\ [s EXCEPT !.errno = e].held = s.held
  BY <1>1 DEF DirStates
<1> QED BY <1>2 DEF Well

(* opendir leaves a well state well. *)
LEMMA OpenWell ==
  ASSUME D!DirectoriesAssumption, directory \in Listings, NEW s, Well(s), s.dir = NULL, NEW fault
  PROVE  Well(D!opendir(s, fault))
<1> DEFINE o == D!opendir(s, fault)
<1>1. s \in DirStates /\ s.held = D!Nothing /\ s.errno \in DirErrors
  BY DEF Well, DirNeeds, DirStates
<1>2. D!Plus(s.held, 1, 1, 1) = [memory |-> 1, descriptor |-> 1, search |-> 1]
  BY <1>1 DEF D!Plus, D!Nothing
<1>3. \/ o \in DirStates /\ o.dir = NULL /\ o.held = s.held
      \/ directory \in Listable /\ o = Reading(directory, 0, D!Plus(s.held, 1, 1, 1), s.errno)
  BY <1>1, OpenIs
<1> HIDE DEF o
<1>4. CASE o \in DirStates /\ o.dir = NULL /\ o.held = s.held
  BY <1>1, <1>4 DEF Well, DirNeeds, o
<1>5. CASE directory \in Listable /\ o = Reading(directory, 0, D!Plus(s.held, 1, 1, 1), s.errno)
  <2>1. 0 \in 0..Len(directory)
    BY <1>5, ListFacts
  <2> QED BY <1>1, <1>2, <1>5, <2>1, StandingWell DEF o
<1> QED BY <1>3, <1>4, <1>5

(* readdir leaves a well state well. *)
LEMMA ReadWell ==
  ASSUME D!DirectoriesAssumption, NEW s, Well(s), NEW fault
  PROVE  Well(D!readdir(s, fault).s)
<1>1. CASE s.dir = NULL \/ ~D!Begun(s)
  <2>1. D!readdir(s, fault).s = [s EXCEPT !.errno = "EINVAL"]
    BY <1>1 DEF D!readdir
  <2> QED BY <2>1, ErrnoWell DEF DirErrors
<1>2. CASE s.dir # NULL /\ D!Begun(s)
  <2>1. PICK list \in Listable : \E p \in 0..Len(list) : s = Reading(list, p, s.held, s.errno)
    BY <1>2, WellCases DEF D!Begun
  <2>p. PICK p \in 0..Len(list) : s = Reading(list, p, s.held, s.errno)
    BY <2>1
  <2>2. s.held = [memory |-> 1, descriptor |-> 1, search |-> 1] /\ s.errno \in DirErrors /\ "EIO" \in DirErrors
    BY <1>2, WellCases DEF D!Begun, Searching, DirErrors
  <2>3. D!readdir(s, fault) =
           IF p # 0 /\ fault = D!Fault("next") THEN [s |-> Reading(list, p, s.held, "EIO"), r |-> NULL]
           ELSE IF p = Len(list) THEN [s |-> Reading(list, p, s.held, s.errno), r |-> NULL]
           ELSE [s |-> Reading(list, p + 1, s.held, s.errno), r |-> list[p + 1]]
    BY <2>p, ReadOn
  <2>4. D!readdir(s, fault).s \in {Reading(list, q, s.held, e) : q \in 0..Len(list), e \in DirErrors}
    <3>1. Len(list) \in Nat /\ p \in Nat /\ (p # Len(list) => p + 1 \in 0..Len(list))
      BY ListFacts
    <3> QED BY <2>2, <2>3, <3>1
  <2> QED BY <2>2, <2>4, StandingWell
<1> QED BY <1>1, <1>2

(* rewinddir leaves a well state well. *)
LEMMA RewindWell ==
  ASSUME D!DirectoriesAssumption, directory \in Listings, NEW s, Well(s), NEW fault
  PROVE  Well(D!rewinddir(s, fault))
<1>1. CASE s.dir = NULL
  <2>1. D!rewinddir(s, fault) = [s EXCEPT !.errno = "EINVAL"]
    BY <1>1 DEF D!rewinddir
  <2> QED BY <2>1, ErrnoWell DEF DirErrors
<1>2. CASE s.dir # NULL
  <2> DEFINE h == D!Plus(s.held, 0, 0, -Searching(s.dir))
  <2>1. s \in DirStates /\ s.dir \in DirStreams /\ s.errno \in DirErrors
    BY <1>2, WellCases DEF Well
  <2>2. Searching(s.dir) \in {0, 1} /\ s.held = [memory |-> 1, descriptor |-> 1, search |-> Searching(s.dir)]
    BY <1>2, WellCases DEF Searching
  <2>3. /\ h = [memory |-> 1, descriptor |-> 1, search |-> 0]
        /\ D!Plus(h, 0, 0, 1) = [memory |-> 1, descriptor |-> 1, search |-> 1]
    BY <2>2 DEF D!Plus
  <2> HIDE DEF h
  <2>4. IF directory = D!Gone \/ fault = D!Fault("search") THEN Refused(D!rewinddir(s, fault), h)
        ELSE directory \in Listable /\ D!rewinddir(s, fault) = Reading(directory, 0, D!Plus(h, 0, 0, 1), s.errno)
    BY <2>1, RewindIs DEF h
  <2>5. directory \in Listable => 0 \in 0..Len(directory)
    BY ListFacts
  <2> QED BY <2>1, <2>3, <2>4, <2>5, RefusedWell, StandingWell
<1> QED BY <1>1, <1>2

(* seekdir leaves a well state well, wherever it was asked to go. *)
LEMMA SeekWell ==
  ASSUME D!DirectoriesAssumption, directory \in Listings, NEW s, Well(s), NEW position \in Int, NEW fault
  PROVE  Well(D!seekdir(s, position, fault))
<1>1. CASE s.dir = NULL \/ position < 0
  <2>1. D!seekdir(s, position, fault) = [s EXCEPT !.errno = "EINVAL"]
    BY <1>1 DEF D!seekdir
  <2> QED BY <2>1, ErrnoWell DEF DirErrors
<1>2. CASE s.dir # NULL /\ ~(position < 0)
  <2> DEFINE h == D!Plus(s.held, 0, 0, -Searching(s.dir))
             there == IF position <= Len(directory) THEN position ELSE Len(directory)
  <2>1. s \in DirStates /\ s.dir \in DirStreams /\ s.errno \in DirErrors /\ position \in Nat
    <3>1. s.dir \in DirStreams /\ s.errno \in DirErrors
      BY <1>2, WellCases
    <3>2. position \in Nat
      BY <1>2
    <3> QED BY <3>1, <3>2 DEF Well
  <2>2. Searching(s.dir) \in {0, 1} /\ s.held = [memory |-> 1, descriptor |-> 1, search |-> Searching(s.dir)]
    BY <1>2, WellCases DEF Searching
  <2>3. /\ h = [memory |-> 1, descriptor |-> 1, search |-> 0]
        /\ D!Plus(h, 0, 0, 1) = [memory |-> 1, descriptor |-> 1, search |-> 1]
    BY <2>2 DEF D!Plus
  <2> HIDE DEF h
  <2>4. IF directory = D!Gone \/ fault = D!Fault("search") THEN Refused(D!seekdir(s, position, fault), h)
        ELSE /\ directory \in Listable
             /\ \E x \in DirErrors :
                  D!seekdir(s, position, fault) = Reading(directory, there, D!Plus(h, 0, 0, 1), x)
    BY <2>1, SeekIs DEF h
  <2>5. directory \in Listable => there \in 0..Len(directory)
    BY <2>1, ListFacts
  <2> HIDE DEF there
  <2> QED BY <2>3, <2>4, <2>5, RefusedWell, StandingWell
<1> QED BY <1>1, <1>2

(* closedir leaves a well state well. *)
LEMMA CloseWell ==
  ASSUME D!DirectoriesAssumption, NEW s, Well(s), NEW fault
  PROVE  Well(D!closedir(s, fault).s)
<1>1. CASE s.dir = NULL \/ ~D!Begun(s)
  <2>1. D!closedir(s, fault).s = [s EXCEPT !.errno = "EINVAL"]
    BY <1>1 DEF D!closedir
  <2> QED BY <2>1, ErrnoWell DEF DirErrors
<1>2. CASE s.dir # NULL /\ D!Begun(s)
  <2>1. PICK list \in Listable : \E p \in 0..Len(list) : s = Reading(list, p, s.held, s.errno)
    BY <1>2, WellCases DEF D!Begun
  <2>p. PICK p \in 0..Len(list) : s = Reading(list, p, s.held, s.errno)
    BY <2>1
  <2>2. /\ s.held = [memory |-> 1, descriptor |-> 1, search |-> 1] /\ s.errno \in DirErrors /\ s.held \in DirHeld
        /\ p \in Nat
    BY <1>2, WellCases, ListFacts DEF D!Begun, Searching
  <2>3. /\ D!closedir(s, fault).s \in DirStates /\ D!closedir(s, fault).s.dir = NULL
        /\ D!closedir(s, fault).s.held = D!Plus(s.held, -1, -1, -1)
    <3> DEFINE h == s.held
               e == s.errno
    <3>1. s = Reading(list, p, h, e) /\ h \in DirHeld /\ e \in DirErrors /\ p \in Nat
      BY <2>p, <2>2
    <3> HIDE DEF h, e
    <3>2. LET o == D!closedir(Reading(list, p, h, e), fault)
          IN o.s \in DirStates /\ o.s.dir = NULL /\ o.s.held = D!Plus(h, -1, -1, -1)
      BY <3>1, CloseIs
    <3> QED BY <3>1, <3>2 DEF h
  <2>4. D!Plus(s.held, -1, -1, -1) = D!Nothing
    BY <2>2 DEF D!Plus, D!Nothing
  <2> QED BY <2>3, <2>4 DEF Well, DirNeeds
<1> QED BY <1>1, <1>2

(* Stepping through the directory streams. *)
DInv == directory \in Listings /\ Well(D!State)

(* After a step that becomes s the state is s. *)
LEMMA DirStateIs ==
  ASSUME NEW s, s \in DirStates, D!Becomes(s)
  PROVE  D!State' = s /\ directory' = directory
BY DirFields DEF D!Becomes, D!State

(* The places in a directory are natural numbers. *)
LEMMA PlacesAreNumbers ==
  ASSUME D!DirectoriesAssumption
  PROVE  D!Positions \subseteq Nat
<1>1. ASSUME NEW list \in Listings PROVE 1..Len(list) \subseteq Nat
  OBVIOUS
<1> QED BY <1>1 DEF D!Positions

(* What scandir does to the state, said again for every call of it. *)
LEMMA EveryScan ==
  ASSUME D!DirectoriesAssumption, directory \in Listings, NEW s \in DirStates
  PROVE  \A keep, sort, fault :
           LET o == D!scandir(s, keep, sort, fault)
           IN /\ o.s \in DirStates /\ o.s.dir = s.dir
              /\ o.s.held = D!Plus(s.held, Obtained(o.r), 0, 0)
              /\ o.r = NULL => o.s.errno # "0"
<1> TAKE keep, sort, fault
<1> QED BY ScanIs

(* At first there is no stream, and nothing is held. *)
LEMMA DirBegins ==
  ASSUME D!Init
  PROVE  DInv
<1>1. D!State = [dir |-> NULL, held |-> D!Nothing, errno |-> "0"] /\ directory \in Listings
  BY DEF D!Init, D!State
<1>2. D!Nothing \in DirHeld /\ "0" \in DirErrors
  BY DEF D!Nothing, DirHeld, DirErrors
<1>3. D!State \in DirStates /\ D!State.dir = NULL /\ D!State.held = D!Nothing
  BY <1>1, <1>2 DEF DirStates
<1> QED BY <1>1, <1>3 DEF DInv, Well, DirNeeds

(* What a call leaves well is well after the step. *)
LEMMA DirStepWell ==
  ASSUME DInv, NEW s, Well(s), D!Becomes(s)
  PROVE  DInv'
<1>1. D!State' = s /\ directory' = directory
  BY DirStateIs DEF Well
<1>2. Well(s)
  OBVIOUS
<1>3. Well(D!State)' <=> Well(D!State')
  BY DEF Well, DirNeeds, AllStands, Listable, DirStates, DirStreams, DirSearches, Stale
<1> QED BY <1>1, <1>2, <1>3 DEF DInv

(* Every operation keeps the invariant. *)
LEMMA DirSteps ==
  ASSUME D!DirectoriesAssumption, DInv, D!Next
  PROVE  DInv'
<1>1. directory \in Listings /\ Well(D!State)
  BY DEF DInv
<1>2. ASSUME D!Open PROVE DInv'
  <2>1. dir = NULL /\ \E fault : D!Becomes(D!opendir(D!State, fault))
    BY <1>2 DEF D!Open
  <2>2. D!State.dir = NULL
    BY <2>1 DEF D!State
  <2> QED BY <1>1, <2>1, <2>2, OpenWell, DirStepWell
<1>3. ASSUME D!Read PROVE DInv'
  <2>1. \E fault : D!Becomes(D!readdir(D!State, fault).s)
    BY <1>3 DEF D!Read
  <2> QED BY <1>1, <2>1, ReadWell, DirStepWell
<1>4. ASSUME D!Rewind PROVE DInv'
  <2>1. \E fault : D!Becomes(D!rewinddir(D!State, fault))
    BY <1>4 DEF D!Rewind
  <2> QED BY <1>1, <2>1, RewindWell, DirStepWell
<1>5. ASSUME D!Seek PROVE DInv'
  <2>1. \E position \in Int : \E fault : D!Becomes(D!seekdir(D!State, position, fault))
    BY <1>5, PlacesAreNumbers DEF D!Seek
  <2> QED BY <1>1, <2>1, SeekWell, DirStepWell
<1>6. ASSUME D!Close PROVE DInv'
  <2>1. \E fault : D!Becomes(D!closedir(D!State, fault).s)
    BY <1>6 DEF D!Close
  <2> QED BY <1>1, <2>1, CloseWell, DirStepWell
<1>7. ASSUME D!Scan PROVE DInv'
  <2>1. PICK keep \in SUBSET EntryNames, sort \in BOOLEAN, fault \in D!ScanFaults :
          D!Becomes([D!scandir(D!State, keep, sort, fault).s EXCEPT !.held = owned])
    BY <1>7 DEF D!Scan
  <2> DEFINE t == D!scandir(D!State, keep, sort, fault).s
  <2>2. D!State \in DirStates /\ D!State.dir = dir /\ D!State.held = owned
    BY <1>1 DEF Well, D!State
  <2>3. t \in DirStates /\ t.dir = dir
    BY <1>1, <2>2, EveryScan
  <2> HIDE DEF t
  <2>4. owned \in DirHeld
    BY <2>2, DirFields
  <2>5. [t EXCEPT !.held = owned] = [dir |-> dir, held |-> owned, errno |-> t.errno] /\ t.errno \in DirErrors
    BY <2>3, <2>4 DEF DirStates
  <2>6. [D!State EXCEPT !.errno = t.errno] = [dir |-> dir, held |-> owned, errno |-> t.errno]
    BY DEF D!State
  <2>7. Well([t EXCEPT !.held = owned])
    BY <1>1, <2>5, <2>6, ErrnoWell
  <2> QED BY <2>1, <2>7, DirStepWell DEF t
<1>8. ASSUME D!Change PROVE DInv'
  <2>1. directory' \in Listings /\ D!State' = D!State
    BY <1>8 DEF D!Change, D!State
  <2>2. Well(D!State)' <=> Well(D!State')
    BY DEF Well, DirNeeds, AllStands, Listable, DirStates, DirStreams, DirSearches, Stale
  <2> QED BY <1>1, <2>1, <2>2 DEF DInv
<1> QED BY <1>2, <1>3, <1>4, <1>5, <1>6, <1>7, <1>8 DEF D!Next

-----------------------------------------------------------------------------
(* No call leaves anything behind it: it holds what the stream needs.      *)
LEMMA NothingLeft ==
  ASSUME D!DirectoriesAssumption, DInv
  PROVE  D!NothingLeaks
<1>1. /\ D!State \in DirStates /\ D!State.dir = dir /\ D!State.held = owned
      /\ owned = DirNeeds(dir) /\ directory \in Listings
  BY DEF DInv, Well, D!State
<1>2. owned = IF dir = NULL THEN D!Nothing
              ELSE [memory |-> 1, descriptor |-> 1, search |-> IF dir.search = NULL THEN 0 ELSE 1]
  BY <1>1 DEF DirNeeds, Searching
<1>3. ASSUME NEW fault \in D!ScanFaults
      PROVE  D!LeavesNothing(D!scandir(D!State, EntryNames, TRUE, fault))
  <2> DEFINE s == D!State
  <2>1. s \in DirStates /\ s.dir = dir /\ s.held = owned
    BY <1>1
  <2> HIDE DEF s
  <2> DEFINE o == D!scandir(s, EntryNames, TRUE, fault)
  <2>2. o.s.dir = s.dir /\ o.s.held = D!Plus(s.held, Obtained(o.r), 0, 0) /\ (o.r = NULL => o.s.errno # "0")
    <3>1. \A sort : LET t == D!scandir(s, EntryNames, sort, fault)
                    IN /\ t.s.dir = s.dir /\ t.s.held = D!Plus(s.held, Obtained(t.r), 0, 0)
                       /\ t.r = NULL => t.s.errno # "0"
      BY <1>1, <2>1, EveryScan
    <3> QED BY <3>1
  <2> HIDE DEF o
  <2>3. o.s.dir = dir /\ o.s.held = D!Plus(owned, IF o.r \in {NULL, <<>>} THEN 0 ELSE Len(o.r) + 1, 0, 0)
    BY <2>1, <2>2 DEF Obtained
  <2>4. D!LeavesNothing(o)
    BY <2>2, <2>3 DEF D!LeavesNothing
  <2> QED BY <2>4 DEF o, s
<1> QED BY <1>2, <1>3 DEF D!NothingLeaks

(* scandir's names are those kept of the directory, each once, and sorted
   they are the same names in order.                                       *)
LEMMA ScanInOrder ==
  ASSUME D!DirectoriesAssumption, DInv, directory # D!Gone, NEW keep \in SUBSET EntryNames
  PROVE  D!Kept(D!scandir(D!State, keep, FALSE, D!None).r, D!scandir(D!State, keep, TRUE, D!None).r, keep)
<1> DEFINE copies == Scanned(D!State, keep, D!None).copies
<1>1. D!State \in DirStates /\ directory \in Listings
  BY DEF DInv, Well
<1>2. /\ copies \in Seq(EntryNames) /\ KeptTo(copies, directory, keep, Len(directory))
      /\ D!scandir(D!State, keep, FALSE, D!None).r = copies
      /\ D!scandir(D!State, keep, TRUE, D!None).r = D!alphasorted(copies)
  <2> DEFINE s == D!State
  <2>1. s \in DirStates
    BY <1>1
  <2> HIDE DEF s
  <2>2. /\ Scanned(s, keep, D!None).copies \in Seq(EntryNames)
        /\ KeptTo(Scanned(s, keep, D!None).copies, directory, keep, Len(directory))
        /\ \A sort : D!scandir(s, keep, sort, D!None).r = InOrder(Scanned(s, keep, D!None).copies, sort)
    BY <1>1, <2>1, ScanIs
  <2>3. /\ D!scandir(s, keep, FALSE, D!None).r = InOrder(Scanned(s, keep, D!None).copies, FALSE)
        /\ D!scandir(s, keep, TRUE, D!None).r = InOrder(Scanned(s, keep, D!None).copies, TRUE)
    BY <2>2
  <2>4. \A x : InOrder(x, FALSE) = x /\ InOrder(x, TRUE) = D!alphasorted(x)
    BY DEF InOrder
  <2> QED BY <2>2, <2>3, <2>4 DEF s
<1> HIDE DEF copies
<1>3. /\ Len(copies) = D!Cardinality(Upto(directory, keep, Len(directory)))
      /\ \A i \in Upto(directory, keep, Len(directory)) :
           copies[D!Cardinality(KeptBefore(directory, keep, Len(directory), i))] = directory[i]
  <2>1. \A x : D!Cardinality(x) = Cardinality(x)
    BY DEF D!Cardinality, Cardinality
  <2> QED BY <1>2, <2>1 DEF KeptTo
<1> DEFINE sorted == D!alphasorted(copies)
<1>4. /\ Len(sorted) = Len(copies) /\ D!ToSet(sorted) = D!ToSet(copies)
      /\ \A i \in 1..Len(sorted) - 1 : Rank[sorted[i]] <= Rank[sorted[i + 1]]
  BY <1>2, AlphasortedIs DEF Ordered
<1> HIDE DEF sorted
<1>5. D!Kept(copies, sorted, keep)
  BY <1>3, <1>4 DEF D!Kept, Upto, KeptBefore
<1> QED BY <1>2, <1>5 DEF sorted

(* A stream delivers its directory entry by entry, and a place told leads
   back to the entry it was taken at.                                      *)
LEMMA StreamInOrder ==
  ASSUME D!DirectoriesAssumption, DInv, dir # NULL, dir.search # NULL
  PROVE  LET o == D!readdir(D!State, D!None)
             list == dir.search.list
             there == D!seekdir(D!seekdir(D!State, 0, D!None), D!telldir(D!State), D!None)
         IN /\ D!telldir(D!State) = IF dir.pending THEN 0 ELSE dir.search.at
            /\ o.r = IF D!telldir(D!State) = Len(list) THEN NULL ELSE list[D!telldir(D!State) + 1]
            /\ o.r = NULL => o.s.errno = failure
            /\ directory = list => D!readdir(there, D!None).r = o.r
            /\ directory # D!Gone => D!readdir(D!rewinddir(D!State, D!None), D!None).r = Head(directory)
<1> DEFINE s == D!State
           o == D!readdir(s, D!None)
           back == D!seekdir(s, 0, D!None)
           there == D!seekdir(back, D!telldir(s), D!None)
<1>1. /\ s \in DirStates /\ s.dir = dir /\ s.held = owned /\ s.errno = failure /\ Well(s)
      /\ directory \in Listings
  BY DEF DInv, Well, D!State
<1> HIDE DEF s
<1>2. /\ dir \in DirStreams /\ owned \in DirHeld /\ failure \in DirErrors
      /\ \E list \in Listable : \E p \in 0..Len(list) : s = Reading(list, p, owned, failure)
  BY <1>1, WellCases
<1>3. PICK list \in Listable : \E p \in 0..Len(list) : s = Reading(list, p, owned, failure)
  BY <1>2
<1>4. PICK p \in 0..Len(list) : s = Reading(list, p, owned, failure)
  BY <1>3
<1>5. Len(list) \in Nat \ {0} /\ p \in Nat /\ dir = StandsAt(list, p) /\ list \in Seq(EntryNames)
  BY <1>1, <1>4, ListFacts DEF Reading
<1>6. dir.search.list = list /\ dir.position = p
  BY <1>5, StandType
<1>7. D!telldir(s) = p
  BY <1>1, <1>6 DEF D!telldir, D!Begun
<1>8. p = IF dir.pending THEN 0 ELSE dir.search.at
  BY <1>5 DEF StandsAt
<1>9. D!None # D!Fault("next") /\ D!None # D!Fault("search")
  BY DEF D!None, D!Fault
<1>10. /\ o.r = IF p = Len(list) THEN NULL ELSE list[p + 1]
       /\ o.r = NULL => o.s.errno = failure
  <2>1. o = IF p = Len(list) THEN [s |-> Reading(list, p, owned, failure), r |-> NULL]
            ELSE [s |-> Reading(list, p + 1, owned, failure), r |-> list[p + 1]]
    BY <1>4, <1>9, ReadOn
  <2>2. p # Len(list) => list[p + 1] \in EntryNames
    BY <1>5
  <2> QED BY <2>1, <2>2 DEF Reading, D!DirectoriesAssumption
<1>11. ASSUME directory = list PROVE D!readdir(there, D!None).r = o.r
  <2> DEFINE h == D!Plus(owned, 0, 0, -Searching(dir))
             h1 == D!Plus(h, 0, 0, 1)
             h2 == D!Plus(D!Plus(h1, 0, 0, -1), 0, 0, 1)
  <2>1. directory # D!Gone
    BY <1>11 DEF Listable
  <2>2. \E x \in DirErrors : back = Reading(list, 0, h1, x)
    <3>1. 0 <= Len(list)
      BY <1>5
    <3> QED BY <1>1, <1>2, <1>9, <1>11, <2>1, <3>1, SeekIs
  <2>3. PICK x \in DirErrors : back = Reading(list, 0, h1, x)
    BY <2>2
  <2>4. h1 \in DirHeld
    BY <1>2 DEF D!Plus, DirHeld, Searching
  <2>5. back \in DirStates /\ back.dir \in DirStreams /\ back.held = h1 /\ Searching(back.dir) = 1
    BY <2>3, <2>4, ReadingType, StandType DEF Reading, Searching
  <2> HIDE DEF back, h1
  <2>6. \E y \in DirErrors : there = Reading(list, p, h2, y)
    BY <1>1, <1>5, <1>7, <1>9, <1>11, <2>1, <2>5, SeekIs
  <2>7. PICK y \in DirErrors : there = Reading(list, p, h2, y)
    BY <2>6
  <2> HIDE DEF there, h2
  <2>8. D!readdir(there, D!None).r = IF p = Len(list) THEN NULL ELSE list[p + 1]
    BY <1>9, <2>7, ReadOn
  <2> QED BY <1>10, <2>8
<1>12. ASSUME directory # D!Gone
       PROVE  D!readdir(D!rewinddir(s, D!None), D!None).r = Head(directory)
  <2> DEFINE h == D!Plus(D!Plus(owned, 0, 0, -Searching(dir)), 0, 0, 1)
  <2>1. directory \in Listable /\ D!rewinddir(s, D!None) = Reading(directory, 0, h, failure)
    BY <1>1, <1>2, <1>9, <1>12, RewindIs
  <2>2. directory \in Seq(EntryNames) /\ Len(directory) \in Nat \ {0} /\ 0 \in 0..Len(directory) /\ 0 + 1 = 1
    BY <2>1, ListFacts
  <2> HIDE DEF h
  <2>3. D!readdir(Reading(directory, 0, h, failure), D!None).r = directory[1]
    <3>1. D!readdir(Reading(directory, 0, h, failure), D!None) = [s |-> Reading(directory, 0 + 1, h, failure), r |-> directory[0 + 1]]
      BY <1>9, <2>1, <2>2, ReadOn
    <3> QED BY <2>2, <3>1
  <2>4. Head(directory) = directory[1]
    BY <2>2, HeadTailProperties
  <2> QED BY <2>1, <2>3, <2>4
<1> HIDE DEF o, there
<1> QED BY <1>6, <1>7, <1>8, <1>10, <1>11, <1>12 DEF s, o, there, back

(* What the run checks of directory streams follows. *)
LEMMA DirRead ==
  ASSUME D!DirectoriesAssumption, DInv
  PROVE  D!NothingLeaks /\ D!DirectoryInOrder
BY NothingLeft, StreamInOrder, ScanInOrder DEF D!DirectoryInOrder

(* A directory is delivered in order, each entry once, and no call leaves
   anything behind it, not even one that fails half way, except the block and
   the descriptor of a stream that could not be rewound: closedir refuses it
   (line 222), and its holder has no other way to release them.  Searches
   belong to the program until it closes them, and deliver every entry that
   fits the record (src/platform/windows/dirent.c, src/ms_find32.c).       *)
THEOREM DirectoriesAlwaysRead == FileSpec => []DirectoriesRead
<1> DEFINE Inv == about = "directory" => DInv
<1>0. D!DirectoriesAssumption
  BY FilesAssumption
<1>1. FileInit => Inv
  BY DirBegins DEF FileInit
<1>2. Inv /\ [FileNext]_<<about, fvars>> => Inv'
  <2>1. ASSUME DInv, D!Next PROVE DInv'
    BY <1>0, <2>1, DirSteps
  <2>2. ASSUME DInv, UNCHANGED dvars PROVE DInv'
    <3>1. Well(D!State)' <=> Well(D!State')
      BY DEF Well, DirNeeds, AllStands, Listable, DirStates, DirStreams, DirSearches, Stale
    <3>2. D!State' = D!State /\ directory' = directory
      BY <2>2 DEF dvars, D!State
    <3> QED BY <2>2, <3>1, <3>2 DEF DInv
  <2>3. ASSUME FileNext, about = "directory" PROVE D!Next
    BY <2>3 DEF FileNext
  <2> HIDE DEF DInv
  <2> QED BY <2>1, <2>2, <2>3 DEF FileNext, fvars
<1>3. Inv /\ (about = "search" => S!SearchesOwned) => DirectoriesRead
  BY <1>0, DirRead DEF DirectoriesRead
<1> QED BY <1>1, <1>2, <1>3, SearchesAlwaysOwned, PTL DEF FileSpec
=============================================================================
