------------------------------ MODULE FirstUse -------------------------------
(***************************************************************************)
(* Objects that are built by whoever uses them first: the internal lock    *)
(* (src/platform/windows/lock.c), and the mutexes and conditions of        *)
(* src/platform/windows/pthread.c.  A caller reads the state word; unless  *)
(* it says READY, the caller takes a mutex all first uses share, reads     *)
(* the word again, builds the object and then writes READY.                *)
(*                                                                         *)
(* The first read is not under that mutex.  memory is what it can see;     *)
(* the writes of the thread that builds (the object, then the word) wait   *)
(* in pending until other threads can see them: one after the other on a   *)
(* processor that keeps the order of stores (x86, x64), in any order on    *)
(* ARM64, for which the library is built too (docs/arm64-support.md:3).    *)
(* ReleaseMutex is a barrier.                                              *)
(***************************************************************************)
EXTENDS Naturals, Sequences, FiniteSets, SequencesExt

CONSTANTS
  Threads,
  InOrder,   \* whether other threads see stores in the order they are made
  Fallible,  \* whether the object has parts the kernel may refuse
  None       \* no thread

FirstUseAssumption ==
  /\ IsFiniteSet(Threads) /\ None \notin Threads
  /\ InOrder \in BOOLEAN /\ Fallible \in BOOLEAN

VARIABLES
  memory,   \* which writes everybody sees: a subset of Writes
  pending,  \* writes of the initializer nobody else sees yet
  first,    \* the holder of the mutex of first uses, or None
  section,  \* the holder of the object's critical section, or None
  pc,       \* where each thread is
  built,    \* history: how often the present object has been built
  used      \* history: somebody has got the present object

vars == <<memory, pending, first, section, pc, built, used>>

Writes == {"object", "ready"}

Places == {"out", "hold", "recheck", "build", "drop", "enter", "inside"}

Goto(t, place) == pc' = [pc EXCEPT ![t] = place]

Init ==
  /\ memory = {} /\ pending = <<>>
  /\ first = None /\ section = None
  /\ pc = [t \in Threads |-> "out"]
  /\ built = 0 /\ used = FALSE

Ready == "ready" \in memory

-----------------------------------------------------------------------------
(* The read outside the mutex. *)
Test(t) ==
  /\ pc[t] = "out"
  /\ Goto(t, IF Ready THEN "enter" ELSE "hold")
  /\ UNCHANGED <<memory, pending, first, section, built, used>>

(* CreateMutexA and the wait for it. *)
Hold(t) ==
  /\ pc[t] = "hold" /\ first = None
  /\ first' = t
  /\ Goto(t, "recheck")
  /\ UNCHANGED <<memory, pending, section, built, used>>

(* The kernel has no mutex: the call fails. *)
HoldFails(t) ==
  /\ pc[t] = "hold"
  /\ Goto(t, "out")
  /\ UNCHANGED <<memory, pending, first, section, built, used>>

(* The read under the mutex. *)
Recheck(t) ==
  /\ pc[t] = "recheck"
  /\ Goto(t, IF Ready THEN "drop" ELSE "build")
  /\ UNCHANGED <<memory, pending, first, section, built, used>>

(* Mutation of Build: the word is written first. *)
BuildReadyFirst(t) ==
  /\ pc[t] = "build"
  /\ pending' = <<"ready", "object">>
  /\ built' = built + 1
  /\ Goto(t, "drop")
  /\ UNCHANGED <<memory, first, section, used>>

Build(t) ==
  /\ pc[t] = "build"
  /\ pending' = <<"object", "ready">>
  /\ built' = built + 1
  /\ Goto(t, "drop")
  /\ UNCHANGED <<memory, first, section, used>>

(* wcrt_ensure_condition without a semaphore or an event: what it got is
   closed, the word is 0 again, and the call fails with ENOMEM. *)
BuildFails(t) ==
  /\ Fallible /\ pc[t] = "build"
  /\ first' = None
  /\ Goto(t, "out")
  /\ UNCHANGED <<memory, pending, section, built, used>>

(* A write reaches the other threads. *)
Flush ==
  \E i \in 1..Len(pending) :
    /\ InOrder => i = 1
    /\ memory' = memory \union {pending[i]}
    /\ pending' = RemoveAt(pending, i)
    /\ UNCHANGED <<first, section, pc, built, used>>

(* ReleaseMutex, once every write is out. *)
Drop(t) ==
  /\ pc[t] = "drop" /\ pending = <<>>
  /\ first' = None
  /\ Goto(t, "enter")
  /\ UNCHANGED <<memory, pending, section, built, used>>

(* EnterCriticalSection of the object. *)
Enter(t) ==
  /\ pc[t] = "enter" /\ section = None
  /\ section' = t
  /\ used' = TRUE
  /\ Goto(t, "inside")
  /\ UNCHANGED <<memory, pending, first, built>>

(* pthread_mutex_trylock: EBUSY. *)
TryFails(t) ==
  /\ pc[t] = "enter" /\ section # None
  /\ used' = TRUE
  /\ Goto(t, "out")
  /\ UNCHANGED <<memory, pending, first, section, built>>

(* LeaveCriticalSection; the word the holder reads says READY. *)
Leave(t) ==
  /\ pc[t] = "inside"
  /\ section' = None
  /\ Goto(t, "out")
  /\ UNCHANGED <<memory, pending, first, built, used>>

(* pthread_mutex_destroy and pthread_cond_destroy, or a second
   pthread_mutex_init, while nobody uses the object: the next use builds it
   again. *)
Destroy(t) ==
  /\ Ready /\ \A u \in Threads : pc[u] = "out"
  /\ memory' = {}
  /\ built' = 0 /\ used' = FALSE
  /\ UNCHANGED <<pending, first, section, pc>>

-----------------------------------------------------------------------------
Progress(t) ==
  Hold(t) \/ Recheck(t) \/ Build(t) \/ Drop(t) \/ Enter(t) \/ Leave(t)

Next ==
  \/ Flush
  \/ \E t \in Threads :
       \/ Test(t) \/ Progress(t) \/ TryFails(t) \/ Destroy(t)
       \/ HoldFails(t) \/ BuildFails(t)

Spec == Init /\ [][Next]_vars

(* Stores get out in the end; a mutex and a critical section are given to
   their waiters in turn, and a holder leaves.  Nobody has to call, and
   nothing has to fail. *)
FairSpec ==
  /\ Spec
  /\ WF_vars(Flush)
  /\ \A t \in Threads : SF_vars(Progress(t))

-----------------------------------------------------------------------------
(* Type invariant. *)
TypeOK ==
  /\ memory \subseteq Writes
  /\ ToSet(pending) \subseteq Writes
  /\ first \in Threads \union {None}
  /\ section \in Threads \union {None}
  /\ pc \in [Threads -> Places]
  /\ built \in 0..1 /\ used \in BOOLEAN

(* Concurrent first uses build the object exactly once
   (src/internal/lock.h:30). *)
BuiltOnce == built <= 1 /\ (used => built = 1)

(* Nobody enters a critical section that another thread has not finished
   building, although the fast path takes no mutex
   (docs/req-0071-posix-threads.md:7: "Static mutex and condition-variable
   initializers shall initialize safely on first use"). *)
NoEarlyUse ==
  \A t \in Threads : pc[t] \in {"enter", "inside"} => "object" \in memory

(* Once an acquisition has succeeded none fails: a thread that begins one
   no longer depends on the kernel for a mutex (src/internal/lock.h:35). *)
CannotFailAfterSuccess ==
  [][\A t \in Threads :
       used /\ pc[t] = "out" /\ pc'[t] # "out" => pc'[t] = "enter"]_vars

(* Nobody who wants the object is kept waiting by a builder that failed. *)
FirstUseReturns ==
  \A t \in Threads : pc[t] = "hold" ~> pc[t] \in {"inside", "out"}
=============================================================================
