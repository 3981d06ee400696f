----------------------------- MODULE ThreadKeys ------------------------------
(***************************************************************************)
(* Thread-specific keys of src/platform/windows/pthread.c: the table of    *)
(* keys and destructors, pthread_key_create, pthread_key_delete, and the   *)
(* passes over the table a thread makes when it ends (wcrt_finish_thread). *)
(*                                                                         *)
(* A stretch under the initialization lock is one action; the lock may be  *)
(* refused each time it is asked for.  The kernel's slots (TlsAlloc,       *)
(* TlsFree) and a thread's values in them are used outside the lock: a key *)
(* that was read under the lock may be deleted, and its slot handed out    *)
(* again, before it is used.                                               *)
(*                                                                         *)
(* A value is known by the destructor of the key it was set under, so that *)
(* a destructor can be seen to get a value of its own.  Users create and   *)
(* delete keys, Workers set values and end.                                *)
(***************************************************************************)
EXTENDS Naturals, FiniteSets, FiniteSetsExt

CONSTANTS
  Users, Workers,
  Keys,        \* the slots the kernel has
  KeyCount,    \* WCRT_THREAD_KEY_COUNT
  Passes,      \* PTHREAD_DESTRUCTOR_ITERATIONS
  Destructors,
  Nothing      \* no key, no value, no destructor

ASSUME ThreadKeysAssumption ==
  /\ Users \cap Workers = {}
  /\ IsFiniteSet(Keys) /\ Nothing \notin Keys \union Destructors
  /\ KeyCount \in Nat \ {0} /\ Passes \in Nat \ {0}

VARIABLES
  table,      \* wcrt_thread_keys
  allocated,  \* the slots in use
  value,      \* value[w][k]: what TlsGetValue(k) says in w
  at,         \* where each thread is
  key,        \* key[t]: the local variable of that name in t's call
  destructor, \* destructor[t]: likewise
  held,       \* held[w]: the value w's destructor is called with
  pass, index, called,  \* the locals iteration, index and called of a worker
  exempt      \* history: entries a worker's present pass need not have seen

keys == <<table, allocated>>
locals == <<key, destructor>>
loop == <<held, pass, index, called>>
keyvars == <<keys, value, at, locals, loop, exempt>>

KeyThreads == Users \union Workers
KeySlots == 1..KeyCount
Entry == [used : BOOLEAN, key : Keys \union {Nothing},
          destructor : Destructors \union {Nothing}]
Used == {s \in KeySlots : table[s].used}

(* The keys the program may use, with their destructors. *)
Live == {<<table[s].key, table[s].destructor>> : s \in Used}

KeysInit ==
  /\ table = [s \in KeySlots |-> [used |-> FALSE, key |-> Nothing,
                                  destructor |-> Nothing]]
  /\ allocated = {}
  /\ value = [w \in Workers |-> [k \in Keys |-> Nothing]]
  /\ at = [t \in KeyThreads |-> "run"]
  /\ key = [t \in KeyThreads |-> Nothing]
  /\ destructor = [t \in KeyThreads |-> Nothing]
  /\ held = [w \in Workers |-> Nothing]
  /\ pass = [w \in Workers |-> 1] /\ index = [w \in Workers |-> 1]
  /\ called = [w \in Workers |-> FALSE]
  /\ exempt = [w \in Workers |-> {}]

Goto(t, place) == at' = [at EXCEPT ![t] = place]

(* The locals of t mean nothing any more. *)
Forget(t) ==
  /\ key' = [key EXCEPT ![t] = Nothing]
  /\ destructor' = [destructor EXCEPT ![t] = Nothing]

-----------------------------------------------------------------------------
(* pthread_key_create. *)

(* TlsAlloc: a free slot, empty in every thread; EAGAIN without one, which
   changes nothing and is no action. *)
AllocateKey(u, d) ==
  /\ at[u] = "run"
  /\ \E k \in Keys \ allocated :
       /\ allocated' = allocated \union {k}
       /\ value' = [w \in Workers |-> [value[w] EXCEPT ![k] = Nothing]]
       /\ key' = [key EXCEPT ![u] = k]
  /\ destructor' = [destructor EXCEPT ![u] = d]
  /\ Goto(u, "enter")
  /\ UNCHANGED <<table, loop, exempt>>

(* The first free entry is filled in. *)
EnterKey(u) ==
  LET s == Min(KeySlots \ Used)
  IN /\ at[u] = "enter" /\ Used # KeySlots
     /\ table' = [table EXCEPT ![s] =
          [used |-> TRUE, key |-> key[u], destructor |-> destructor[u]]]
     /\ exempt' = [w \in Workers |->
          IF at[w] = "run" THEN {} ELSE exempt[w] \union {s}]
     /\ Forget(u)
     /\ Goto(u, "run")
     /\ UNCHANGED <<allocated, value, loop>>

(* Mutation of EnterKeyFails: the slot is not given back. *)
EnterKeyFailsKeeping(u) ==
  /\ at[u] = "enter"
  /\ Forget(u)
  /\ Goto(u, "run")
  /\ UNCHANGED <<keys, value, loop, exempt>>

(* The table is full or the lock refused: EAGAIN, after TlsFree. *)
EnterKeyFails(u) ==
  /\ at[u] = "enter"
  /\ Goto(u, "free")
  /\ UNCHANGED <<keys, value, locals, loop, exempt>>

(* TlsFree. *)
FreeKey(u) ==
  /\ at[u] = "free"
  /\ allocated' = allocated \ {key[u]}
  /\ Forget(u)
  /\ Goto(u, "run")
  /\ UNCHANGED <<table, value, loop, exempt>>

-----------------------------------------------------------------------------
(* pthread_key_delete under the lock: the entry is free again, TlsFree
   follows.  Without the lock the call fails and changes nothing. *)
DeleteKey(u, k) ==
  /\ at[u] = "run"
  /\ \E s \in Used :
       /\ table[s].key = k
       /\ table' = [table EXCEPT ![s].used = FALSE, ![s].destructor = Nothing]
  /\ key' = [key EXCEPT ![u] = k]
  /\ Goto(u, "free")
  /\ UNCHANGED <<allocated, value, destructor, loop, exempt>>

(* pthread_setspecific by a running worker. *)
Set(w, k, v) ==
  /\ at[w] = "run"
  /\ \E d \in Destructors \union {Nothing} : <<k, d>> \in Live /\ v \in {d, Nothing}
  /\ value' = [value EXCEPT ![w][k] = v]
  /\ UNCHANGED <<keys, at, locals, loop, exempt>>

-----------------------------------------------------------------------------
(* wcrt_finish_thread. *)

End(w) ==
  /\ at[w] = "run"
  /\ Goto(w, "look")
  /\ exempt' = [exempt EXCEPT ![w] = {}]
  /\ UNCHANGED <<keys, value, locals, loop>>

(* On to the next entry, the next pass, or the end: called is the flag as
   it stands after the present entry, skipped the entries not looked at. *)
Advance(w, calledNow, skipped) ==
  IF index[w] < KeyCount
    THEN /\ index' = [index EXCEPT ![w] = @ + 1]
         /\ called' = [called EXCEPT ![w] = calledNow]
         /\ exempt' = [exempt EXCEPT ![w] = @ \union skipped]
         /\ Goto(w, "look")
         /\ UNCHANGED pass
    ELSE IF calledNow /\ pass[w] < Passes
    THEN /\ pass' = [pass EXCEPT ![w] = @ + 1]
         /\ index' = [index EXCEPT ![w] = 1]
         /\ called' = [called EXCEPT ![w] = FALSE]
         /\ exempt' = [exempt EXCEPT ![w] = {}]
         /\ Goto(w, "look")
    ELSE /\ called' = [called EXCEPT ![w] = calledNow]
         /\ exempt' = [exempt EXCEPT ![w] = @ \union skipped]
         /\ Goto(w, "done")
         /\ UNCHANGED <<pass, index>>

(* The lock is refused: the entry is skipped. *)
Skip(w) ==
  /\ at[w] = "look"
  /\ Advance(w, called[w], {index[w]})
  /\ UNCHANGED <<keys, value, locals, held>>

(* Key and destructor are read under the lock. *)
Look(w) ==
  LET entry == table[index[w]]
  IN /\ at[w] = "look"
     /\ IF entry.used /\ entry.destructor # Nothing
          THEN /\ key' = [key EXCEPT ![w] = entry.key]
               /\ destructor' = [destructor EXCEPT ![w] = entry.destructor]
               /\ Goto(w, "fetch")
               /\ UNCHANGED <<pass, index, called, exempt>>
          ELSE Advance(w, called[w], {}) /\ UNCHANGED locals
     /\ UNCHANGED <<keys, value, held>>

(* Mutation of Fetch: the entry is read again, without the lock. *)
FetchAgain(w) ==
  /\ at[w] = "fetch"
  /\ held' = [held EXCEPT ![w] = value[w][key[w]]]
  /\ value' = [value EXCEPT ![w][key[w]] = Nothing]
  /\ destructor' = [destructor EXCEPT ![w] = table[index[w]].destructor]
  /\ IF held'[w] = Nothing
       THEN Advance(w, called[w], {})
       ELSE Goto(w, "destroy") /\ UNCHANGED <<pass, index, called, exempt>>
  /\ UNCHANGED <<keys, key>>

(* TlsGetValue, and TlsSetValue(key, NULL) if there is a value. *)
Fetch(w) ==
  /\ at[w] = "fetch"
  /\ held' = [held EXCEPT ![w] = value[w][key[w]]]
  /\ value' = [value EXCEPT ![w][key[w]] = Nothing]
  /\ IF held'[w] = Nothing
       THEN Advance(w, called[w], {}) /\ Forget(w)
       ELSE /\ Goto(w, "destroy")
            /\ UNCHANGED <<locals, pass, index, called, exempt>>
  /\ UNCHANGED keys

(* Mutation of Destroy: the flag is not raised. *)
DestroyUncounted(w) ==
  /\ at[w] = "destroy"
  /\ \/ UNCHANGED value
     \/ \E s \in Used :
          value' = [value EXCEPT ![w][table[s].key] = table[s].destructor]
  /\ Advance(w, called[w], {})
  /\ Forget(w) /\ held' = [held EXCEPT ![w] = Nothing]
  /\ UNCHANGED keys

(* The destructor runs; it may set a value of the thread again. *)
Destroy(w) ==
  /\ at[w] = "destroy"
  /\ \/ UNCHANGED value
     \/ \E s \in Used :
          value' = [value EXCEPT ![w][table[s].key] = table[s].destructor]
  /\ Advance(w, TRUE, {})
  /\ Forget(w) /\ held' = [held EXCEPT ![w] = Nothing]
  /\ UNCHANGED keys

-----------------------------------------------------------------------------
KeysNext ==
  \/ \E u \in Users :
       \/ \E d \in Destructors \union {Nothing} : AllocateKey(u, d)
       \/ EnterKey(u) \/ EnterKeyFails(u) \/ FreeKey(u)
       \/ \E k \in Keys : DeleteKey(u, k)
  \/ \E w \in Workers :
       \/ \E k \in Keys, v \in Destructors \union {Nothing} : Set(w, k, v)
       \/ End(w) \/ Skip(w) \/ Look(w) \/ Fetch(w) \/ Destroy(w)

KeysSpec == KeysInit /\ [][KeysNext]_keyvars

-----------------------------------------------------------------------------
(* Type invariant. *)
KeysTypeOK ==
  /\ table \in [KeySlots -> Entry]
  /\ allocated \subseteq Keys
  /\ value \in [Workers -> [Keys -> Destructors \union {Nothing}]]
  /\ at \in [KeyThreads -> {"run", "enter", "free", "look", "fetch", "destroy",
                         "done"}]
  /\ key \in [KeyThreads -> Keys \union {Nothing}]
  /\ destructor \in [KeyThreads -> Destructors \union {Nothing}]
  /\ held \in [Workers -> Destructors \union {Nothing}]
  /\ pass \in [Workers -> 1..Passes] /\ index \in [Workers -> KeySlots]
  /\ called \in [Workers -> BOOLEAN]
  /\ exempt \in [Workers -> SUBSET KeySlots]

(* The kernel's slots are those of the table and those in the hands of a
   call, each once: none leaks when the table is full or the lock refused,
   and no key has two entries. *)
SlotsAccounted ==
  LET handed == {u \in Users : at[u] \in {"enter", "free"}}
  IN /\ KeysTypeOK
     /\ allocated = {table[s].key : s \in Used} \union {key[u] : u \in handed}
     /\ Cardinality(allocated) = Cardinality(Used) + Cardinality(handed)

(* A destructor is only called with values of its own key, however keys are
   deleted and created while the thread ends
   (docs/req-0071-posix-threads.md:15). *)
DestructorGetsItsOwn ==
  \A w \in Workers : at[w] = "destroy" => held[w] = destructor[w]

(* A thread whose last pass called no destructor leaves no value behind under
   a key with a destructor, unless the key is younger than the pass or the
   entry could not be read: "registered destructors shall run for non-null
   values at exit" (docs/req-0071-posix-threads.md:16). *)
LeavesNothing ==
  \A w \in Workers :
    at[w] = "done" /\ ~called[w] =>
      \A s \in Used \ exempt[w] :
        table[s].destructor # Nothing => value[w][table[s].key] = Nothing
=============================================================================
