----------------------------- MODULE RecordLocks -----------------------------
(***************************************************************************)
(* _locking (src/ms_locking.c): locks on a range of a file's bytes, with   *)
(* ten attempts one second apart for the modes that wait.  The handles of  *)
(* several processes or threads reach the same file; the locks themselves  *)
(* are those of Windows.                                                   *)
(***************************************************************************)
EXTENDS Integers, FiniteSets

CONSTANTS
  Handles,       \* open on the file; each is in one call at a time
  Regions,       \* sets of bytes, from the position over count bytes
  Attempts       \* ten in the code

RecordLocksAssumption == Attempts \in Nat /\ Attempts > 1

VARIABLES
  held,          \* handle -> the regions it has locked
  pc,            \* handle -> where its call stands
  call,          \* handle -> the call's mode and region
  attempt,       \* handle -> attempts already refused
  answer,        \* handle -> the result and errno of its last call
  waits          \* handle -> seconds it has slept (history)

vars == <<held, pc, call, attempt, answer, waits>>

Modes == {"UNLCK", "LOCK", "NBLCK", "RLCK", "NBRLCK"}
Success == [r |-> 0, errno |-> "saved"]
Failure(errno) == [r |-> -1, errno |-> errno]

(* LockFile refuses a region of which any byte is locked, by this handle   *)
(* too; UnlockFile wants exactly a region that was locked.                 *)
Clashes(region) == \E h \in Handles : \E other \in held[h] : region \cap other # {}

-----------------------------------------------------------------------------
maximum(mode) == IF mode \in {"LOCK", "RLCK"} THEN Attempts ELSE 1

Answer(h, a) == pc' = [pc EXCEPT ![h] = "idle"] /\ answer' = [answer EXCEPT ![h] = a]

(* The descriptor is known, the mode is valid and count is not negative    *)
(* and not zero, or the call has answered at once.                         *)
_locking(h, mode, region) ==
  /\ pc[h] = "idle"
  /\ pc' = [pc EXCEPT ![h] = IF mode = "UNLCK" THEN "unlocking" ELSE "trying"]
  /\ call' = [call EXCEPT ![h] = [mode |-> mode, region |-> region]]
  /\ attempt' = [attempt EXCEPT ![h] = 0] /\ waits' = [waits EXCEPT ![h] = 0]
  /\ UNCHANGED <<held, answer>>

Unlock(h) ==
  LET region == call[h].region IN
  /\ pc[h] = "unlocking"
  /\ held' = [held EXCEPT ![h] = @ \ {region}]
  /\ Answer(h, IF region \in held[h] THEN Success ELSE Failure("EACCES"))
  /\ UNCHANGED <<call, attempt, waits>>

Lock(h) ==
  /\ pc[h] = "trying" /\ ~Clashes(call[h].region)
  /\ held' = [held EXCEPT ![h] = @ \cup {call[h].region}]
  /\ Answer(h, Success)
  /\ UNCHANGED <<call, attempt, waits>>

(* Mutation of Refused: the thread sleeps after the last attempt too.      *)
RefusedAndAsleep(h) ==
  /\ pc[h] = "trying" /\ Clashes(call[h].region)
  /\ attempt' = [attempt EXCEPT ![h] = @ + 1]
  /\ IF maximum(call[h].mode) = 1 THEN Answer(h, Failure("EACCES")) /\ UNCHANGED waits
     ELSE IF attempt[h] = Attempts THEN Answer(h, Failure("EDEADLOCK")) /\ UNCHANGED waits
     ELSE /\ pc' = [pc EXCEPT ![h] = "asleep"] /\ waits' = [waits EXCEPT ![h] = @ + 1]
          /\ UNCHANGED answer
  /\ UNCHANGED <<held, call>>

(* ERROR_LOCK_VIOLATION.                                                   *)
Refused(h) ==
  /\ pc[h] = "trying" /\ Clashes(call[h].region)
  /\ attempt' = [attempt EXCEPT ![h] = @ + 1]
  /\ IF maximum(call[h].mode) = 1 THEN Answer(h, Failure("EACCES")) /\ UNCHANGED waits
     ELSE IF attempt[h] + 1 = maximum(call[h].mode)
     THEN Answer(h, Failure("EDEADLOCK")) /\ UNCHANGED waits
     ELSE /\ pc' = [pc EXCEPT ![h] = "asleep"] /\ waits' = [waits EXCEPT ![h] = @ + 1]
          /\ UNCHANGED answer
  /\ UNCHANGED <<held, call>>

(* Any other error of LockFile, EIO or a more telling one, ends the call   *)
(* at once.                                                                *)
Broken(h) ==
  /\ pc[h] = "trying"
  /\ Answer(h, Failure("EIO"))
  /\ UNCHANGED <<held, call, attempt, waits>>

Wake(h) ==
  /\ pc[h] = "asleep" /\ pc' = [pc EXCEPT ![h] = "trying"]
  /\ UNCHANGED <<held, call, attempt, answer, waits>>

Init ==
  /\ held = [h \in Handles |-> {}] /\ pc = [h \in Handles |-> "idle"]
  /\ call = [h \in Handles |-> [mode |-> "UNLCK", region |-> {}]]
  /\ attempt = [h \in Handles |-> 0] /\ answer = [h \in Handles |-> Success]
  /\ waits = [h \in Handles |-> 0]

Next ==
  \E h \in Handles :
    \/ \E mode \in Modes, region \in Regions : _locking(h, mode, region)
    \/ Unlock(h) \/ Lock(h) \/ Refused(h) \/ Broken(h) \/ Wake(h)
Spec == Init /\ [][Next]_vars

-----------------------------------------------------------------------------
(* docs/req-0098-ms-descriptor-locking.md: a call has the lock exactly     *)
(* when it says so, no byte is in two locks, a nonblocking mode is refused *)
(* once and never waits, and a blocking one gives up with EDEADLOCK after  *)
(* all its attempts and a wait between each two, never after the last.     *)
LockAnswered ==
  /\ \A g, h \in Handles : \A a \in held[g], b \in held[h] : (g # h \/ a # b) => a \cap b = {}
  /\ \A h \in Handles :
       LET mode == call[h].mode
           blocking == mode \in {"LOCK", "RLCK"}
       IN /\ waits[h] <= IF blocking THEN Attempts - 1 ELSE 0
          /\ pc[h] = "asleep" => waits[h] = attempt[h]
          /\ pc[h] = "idle" /\ call[h].region # {} =>
               LET done == answer[h]
                   locked == call[h].region \in held[h]
               IN /\ mode # "UNLCK" /\ done.r = 0 => locked
                  /\ mode = "UNLCK" => ~locked
                  /\ done.errno = "EDEADLOCK" => blocking /\ attempt[h] = Attempts /\ waits[h] = Attempts - 1
                  /\ done.errno = "EACCES" => ~blocking /\ waits[h] = 0
=============================================================================
