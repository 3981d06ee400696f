-------------------------- MODULE ThreadKeysProofs ---------------------------
(***************************************************************************)
(* Theorems about ThreadKeys, for any number of users, workers, entries,   *)
(* kernel slots and passes: the invariants SlotsAccounted,                 *)
(* DestructorGetsItsOwn and LeavesNothing.                                 *)
(***************************************************************************)
EXTENDS ThreadKeys, TLAPS, FiniteSetTheorems, FunctionTheorems,
        WellFoundedInduction

-----------------------------------------------------------------------------
(* The inductive invariant. *)

Handed == {u \in Users : at[u] \in {"enter", "free"}}

(* Users create and delete keys, workers end. *)
Placed ==
  /\ \A u \in Users : at[u] \in {"run", "enter", "free"}
  /\ \A w \in Workers : at[w] \in {"run", "look", "fetch", "destroy", "done"}

(* The kernel's slots are those of the table and those in the hands of a
   call, and each is there once. *)
Accounted ==
  /\ \A k \in Keys : k \in allocated <=>
       \/ \E s \in Used : table[s].key = k
       \/ \E u \in Handed : key[u] = k
  /\ \A s \in Used : table[s].key \in Keys
  /\ \A u \in Handed : key[u] \in Keys
Apart ==
  /\ \A r, s \in Used : table[r].key = table[s].key => r = s
  /\ \A u, v \in Handed : key[u] = key[v] => u = v
  /\ \A s \in Used, u \in Handed : table[s].key # key[u]

(* A worker's value under a key is of that key, and a new key has none. *)
Valued(w) ==
  /\ \A s \in Used : value[w][table[s].key] \in {table[s].destructor, Nothing}
  /\ \A u \in Handed : at[u] = "enter" => value[w][key[u]] = Nothing

(* So it stays while the key a worker has read is deleted and created again;
   the entry the worker looked at still has that key, unless it is exempt. *)
Reading(w) ==
  /\ at[w] = "fetch" =>
       /\ key[w] \in Keys /\ value[w][key[w]] \in {destructor[w], Nothing}
       /\ index[w] \in Used \ exempt[w] => table[index[w]].key = key[w]
  /\ at[w] = "destroy" => held[w] = destructor[w]

(* A pass that has called no destructor has left no value behind so far. *)
Swept(w) ==
  /\ at[w] = "run" => index[w] = 1
  /\ at[w] \in {"look", "fetch", "done"} /\ ~called[w] =>
       \A s \in Used \ exempt[w] :
         (s < index[w] \/ at[w] = "done") /\ table[s].destructor # Nothing
           => value[w][table[s].key] = Nothing

IInv ==
  /\ KeysTypeOK /\ Placed
  /\ Accounted /\ Apart
  /\ \A w \in Workers : Valued(w) /\ Reading(w) /\ Swept(w)

-----------------------------------------------------------------------------
(* What the steps share. *)

(* The scan finds a free entry if there is one. *)
LEMMA MinMember ==
  ASSUME NEW S \in SUBSET KeySlots, S # {}
  PROVE  Min(S) \in S
<1> DEFINE R == OpToRel(<, Nat)
<1>1. S \subseteq Nat
  BY ThreadKeysAssumption DEF KeySlots
<1>2. \A x, y \in Nat : y < x => <<y, x>> \in R
  BY DEF OpToRel
<1>3. IsWellFoundedOn(R, Nat)
  BY NatLessThanWellFounded
<1> HIDE DEF R
<1>4. PICK x \in S : \A y \in S : ~ (<<y, x>> \in R)
  BY <1>1, <1>3, WFMin
<1>5. ASSUME NEW y \in S PROVE x <= y
  <2>1. x \in Nat /\ y \in Nat
    BY <1>1
  <2>2. ~ (y < x)
    BY <1>2, <1>4, <2>1
  <2> QED BY <2>1, <2>2
<1> QED BY <1>5 DEF Min

(* Nobody is a user and a worker. *)
LEMMA Kinds ==
  ASSUME KeysTypeOK
  PROVE  /\ \A u \in Users : u \in KeyThreads /\ u \notin Workers
         /\ \A w \in Workers : w \in KeyThreads /\ w \notin Users
BY ThreadKeysAssumption DEF KeyThreads

(* A worker's move to the next entry, to the next pass or to its end. *)
LEMMA AdvanceMoves ==
  ASSUME KeysTypeOK, NEW w \in Workers, NEW b \in BOOLEAN,
         NEW skipped \in SUBSET KeySlots, Advance(w, b, skipped)
  PROVE  /\ pass' \in [Workers -> 1..Passes] /\ index' \in [Workers -> KeySlots]
         /\ called' \in [Workers -> BOOLEAN]
         /\ exempt' \in [Workers -> SUBSET KeySlots]
         /\ \A v \in Workers \ {w} : /\ index'[v] = index[v]
                                     /\ called'[v] = called[v]
                                     /\ exempt'[v] = exempt[v]
         /\ \E place \in {"look", "done"} : Goto(w, place)
         /\ ~called'[w] => \A s \in KeySlots \ exempt'[w] :
              s < index'[w] \/ at'[w] = "done"
                => ~b /\ s \notin exempt[w] \union skipped /\ s <= index[w]
<1>1. /\ w \in KeyThreads /\ index[w] \in KeySlots /\ exempt[w] \in SUBSET KeySlots
      /\ pass[w] \in 1..Passes /\ KeyCount \in Nat \ {0} /\ Passes \in Nat \ {0}
      /\ 1 \in KeySlots
  BY ThreadKeysAssumption, Kinds DEF KeysTypeOK, KeySlots
<1>2. CASE index[w] < KeyCount
  <2>1. /\ index' = [index EXCEPT ![w] = @ + 1]
        /\ called' = [called EXCEPT ![w] = b]
        /\ exempt' = [exempt EXCEPT ![w] = @ \union skipped]
        /\ Goto(w, "look") /\ pass' = pass
    BY <1>2 DEF Advance
  <2>2. index[w] + 1 \in KeySlots
    BY <1>1, <1>2 DEF KeySlots
  <2>3. /\ index'[w] = index[w] + 1 /\ called'[w] = b
        /\ exempt'[w] = exempt[w] \union skipped /\ at'[w] = "look"
    BY <1>1, <2>1 DEF KeysTypeOK, Goto
  <2>4. \A s \in KeySlots : s < index[w] + 1 => s <= index[w]
    BY <1>1 DEF KeySlots
  <2>5. /\ pass' \in [Workers -> 1..Passes] /\ index' \in [Workers -> KeySlots]
        /\ called' \in [Workers -> BOOLEAN]
        /\ exempt' \in [Workers -> SUBSET KeySlots]
        /\ \A v \in Workers \ {w} : /\ index'[v] = index[v]
                                    /\ called'[v] = called[v]
                                    /\ exempt'[v] = exempt[v]
    BY <1>1, <2>1, <2>2 DEF KeysTypeOK
  <2> QED BY <2>1, <2>3, <2>4, <2>5
<1>3. CASE ~(index[w] < KeyCount) /\ b /\ pass[w] < Passes
  <2>1. /\ pass' = [pass EXCEPT ![w] = @ + 1]
        /\ index' = [index EXCEPT ![w] = 1]
        /\ called' = [called EXCEPT ![w] = FALSE]
        /\ exempt' = [exempt EXCEPT ![w] = {}]
        /\ Goto(w, "look")
    BY <1>3 DEF Advance
  <2>2. pass[w] + 1 \in 1..Passes
    BY <1>1, <1>3
  <2>3. index'[w] = 1 /\ at'[w] = "look"
    BY <1>1, <2>1 DEF KeysTypeOK, Goto
  <2>4. \A s \in KeySlots : ~(s < 1)
    BY DEF KeySlots
  <2>5. /\ pass' \in [Workers -> 1..Passes] /\ index' \in [Workers -> KeySlots]
        /\ called' \in [Workers -> BOOLEAN]
        /\ exempt' \in [Workers -> SUBSET KeySlots]
        /\ \A v \in Workers \ {w} : /\ index'[v] = index[v]
                                    /\ called'[v] = called[v]
                                    /\ exempt'[v] = exempt[v]
    BY <1>1, <2>1, <2>2 DEF KeysTypeOK
  <2> QED BY <2>1, <2>3, <2>4, <2>5
<1>4. CASE ~(index[w] < KeyCount) /\ ~(b /\ pass[w] < Passes)
  <2>1. /\ called' = [called EXCEPT ![w] = b]
        /\ exempt' = [exempt EXCEPT ![w] = @ \union skipped]
        /\ Goto(w, "done") /\ pass' = pass /\ index' = index
    BY <1>4 DEF Advance
  <2>3. /\ called'[w] = b
        /\ exempt'[w] = exempt[w] \union skipped
    BY <1>1, <2>1 DEF KeysTypeOK
  <2>4. \A s \in KeySlots : s <= index[w]
    BY <1>1, <1>4 DEF KeySlots
  <2>5. /\ pass' \in [Workers -> 1..Passes] /\ index' \in [Workers -> KeySlots]
        /\ called' \in [Workers -> BOOLEAN]
        /\ exempt' \in [Workers -> SUBSET KeySlots]
        /\ \A v \in Workers \ {w} : /\ index'[v] = index[v]
                                    /\ called'[v] = called[v]
                                    /\ exempt'[v] = exempt[v]
    BY <1>1, <2>1 DEF KeysTypeOK
  <2> QED BY <2>1, <2>3, <2>4, <2>5
<1> QED BY <1>2, <1>3, <1>4

(* A worker's step leaves the keys as they were. *)
LEMMA WorkerStep ==
  ASSUME IInv, NEW w \in Workers, UNCHANGED keys,
         NEW place \in {"run", "look", "fetch", "destroy", "done"},
         Goto(w, place),
         \A t \in KeyThreads \ {w} : key'[t] = key[t]
  PROVE  /\ at' \in [KeyThreads -> {"run", "enter", "free", "look", "fetch",
                                 "destroy", "done"}]
         /\ at'[w] = place /\ \A t \in KeyThreads \ {w} : at'[t] = at[t]
         /\ Placed' /\ Used' = Used /\ Handed' = Handed
         /\ \A u \in Handed : key'[u] = key[u] /\ at'[u] = at[u]
         /\ table' = table /\ allocated' = allocated
         /\ Accounted' /\ Apart'
<1>1. /\ w \in KeyThreads /\ w \notin Users
      /\ \A u \in Users : u \in KeyThreads \ {w}
  BY Kinds DEF IInv
<1>2. /\ at' \in [KeyThreads -> {"run", "enter", "free", "look", "fetch",
                              "destroy", "done"}]
      /\ at'[w] = place /\ \A t \in KeyThreads \ {w} : at'[t] = at[t]
  BY <1>1 DEF Goto, IInv, KeysTypeOK
<1>3. table' = table /\ allocated' = allocated
  BY DEF keys
<1>4. Used' = Used
  BY <1>3 DEF Used
<1>5. /\ Handed' = Handed
      /\ \A u \in Handed : key'[u] = key[u] /\ at'[u] = at[u]
  BY <1>1, <1>2 DEF Handed
<1>6. Placed'
  <2>1. \A v \in Workers \ {w} : at'[v] = at[v]
    BY <1>2 DEF KeyThreads
  <2> QED BY <1>1, <1>2, <2>1 DEF Placed, IInv
<1>7. Accounted' /\ Apart'
  BY <1>3, <1>4, <1>5 DEF Accounted, Apart, IInv
<1> QED BY <1>2, <1>3, <1>4, <1>5, <1>6, <1>7

(* The other workers do not see it. *)
LEMMA Bystander ==
  ASSUME IInv, NEW v \in Workers,
         Used' = Used, Handed' = Handed, table' = table,
         \A u \in Handed : key'[u] = key[u] /\ at'[u] = at[u],
         at'[v] = at[v], key'[v] = key[v], destructor'[v] = destructor[v],
         held'[v] = held[v], value'[v] = value[v], index'[v] = index[v],
         called'[v] = called[v], exempt'[v] = exempt[v]
  PROVE  Valued(v)' /\ Reading(v)' /\ Swept(v)'
<1>1. Valued(v) /\ Reading(v) /\ Swept(v)
  BY DEF IInv
<1>2. Valued(v)'
  BY <1>1 DEF Valued
<1>3. Reading(v)'
  BY <1>1 DEF Reading
<1>4. Swept(v)'
  BY <1>1 DEF Swept
<1> QED BY <1>2, <1>3, <1>4

-----------------------------------------------------------------------------
(* The invariant is kept: the steps of a worker. *)

LEMMA SetInv ==
  ASSUME IInv, NEW w \in Workers, NEW k \in Keys,
         NEW v \in Destructors \union {Nothing}, Set(w, k, v)
  PROVE  IInv'
<1>1. /\ at[w] = "run" /\ value' = [value EXCEPT ![w][k] = v]
      /\ UNCHANGED keys /\ at' = at /\ key' = key /\ destructor' = destructor
      /\ held' = held /\ pass' = pass /\ index' = index /\ called' = called
      /\ exempt' = exempt
  BY DEF Set, locals, loop
<1>2. PICK d \in Destructors \union {Nothing} : <<k, d>> \in Live /\ v \in {d, Nothing}
  BY DEF Set
<1>3. PICK s \in Used : table[s].key = k /\ table[s].destructor = d
  BY <1>2 DEF Live
<1>4. /\ table' = table /\ allocated' = allocated /\ Used' = Used
      /\ Handed' = Handed
  BY <1>1 DEF keys, Used, Handed
<1>5. /\ value' \in [Workers -> [Keys -> Destructors \union {Nothing}]]
      /\ value'[w] = [value[w] EXCEPT ![k] = v]
      /\ value[w] \in [Keys -> Destructors \union {Nothing}]
      /\ \A u \in Workers \ {w} : value'[u] = value[u]
  BY <1>1 DEF IInv, KeysTypeOK
<1>6. /\ value'[w][k] = v
      /\ \A j \in Keys \ {k} : value'[w][j] = value[w][j]
  BY <1>5
<1>7. KeysTypeOK' /\ Placed'
  BY <1>1, <1>4, <1>5 DEF IInv, KeysTypeOK, Placed
<1>8. Accounted' /\ Apart'
  BY <1>1, <1>4 DEF IInv, Accounted, Apart
<1>9. ASSUME NEW u \in Workers \ {w}
      PROVE  Valued(u)' /\ Reading(u)' /\ Swept(u)'
  BY <1>1, <1>4, <1>5, Bystander
<1>10. Valued(w)'
  <2>1. ASSUME NEW r \in Used
        PROVE  value'[w][table[r].key] \in {table[r].destructor, Nothing}
    <3>1. CASE r = s
      BY <1>2, <1>3, <1>6, <3>1
    <3>2. CASE r # s
      BY <1>3, <1>6, <3>2 DEF IInv, Apart, Accounted, Valued
    <3> QED BY <3>1, <3>2
  <2>2. ASSUME NEW u \in Handed, at[u] = "enter"
        PROVE  value'[w][key[u]] = Nothing
    <3>1. key[u] # k /\ key[u] \in Keys
      BY <1>3 DEF IInv, Apart, Accounted
    <3> QED BY <1>6, <2>2, <3>1 DEF IInv, Valued
  <2> QED BY <1>1, <1>4, <2>1, <2>2 DEF Valued
<1>11. Reading(w)' /\ Swept(w)'
  <2>1. index[w] = 1
    BY <1>1 DEF IInv, Swept
  <2> QED BY <1>1, <2>1 DEF Reading, Swept
<1> QED BY <1>7, <1>8, <1>9, <1>10, <1>11 DEF IInv

LEMMA EndInv ==
  ASSUME IInv, NEW w \in Workers, End(w)
  PROVE  IInv'
<1>1. /\ at[w] = "run" /\ Goto(w, "look")
      /\ exempt' = [exempt EXCEPT ![w] = {}]
      /\ UNCHANGED keys /\ value' = value /\ key' = key
      /\ destructor' = destructor /\ held' = held /\ pass' = pass
      /\ index' = index /\ called' = called
  BY DEF End, locals, loop
<1>2. /\ table' = table /\ allocated' = allocated /\ Used' = Used
      /\ Handed' = Handed
      /\ at' \in [KeyThreads -> {"run", "enter", "free", "look", "fetch",
                              "destroy", "done"}]
      /\ at'[w] = "look" /\ \A t \in KeyThreads \ {w} : at'[t] = at[t]
      /\ Placed' /\ Accounted' /\ Apart'
      /\ \A u \in Handed : key'[u] = key[u] /\ at'[u] = at[u]
  BY <1>1, WorkerStep
<1>3. /\ exempt' \in [Workers -> SUBSET KeySlots]
      /\ \A v \in Workers \ {w} : exempt'[v] = exempt[v]
  BY <1>1 DEF IInv, KeysTypeOK
<1>4. KeysTypeOK'
  BY <1>1, <1>2, <1>3 DEF IInv, KeysTypeOK
<1>5. ASSUME NEW v \in Workers \ {w}
      PROVE  Valued(v)' /\ Reading(v)' /\ Swept(v)'
  <2>1. v \in KeyThreads \ {w}
    BY DEF KeyThreads
  <2> QED BY <1>1, <1>2, <1>3, <2>1, Bystander
<1>6. Valued(w)'
  BY <1>1, <1>2 DEF IInv, Valued
<1>7. Reading(w)'
  BY <1>2 DEF Reading
<1>8. Swept(w)'
  <2>1. index[w] = 1
    BY <1>1 DEF IInv, Swept
  <2>2. \A s \in KeySlots : ~(s < 1)
    BY DEF KeySlots
  <2>3. Used \subseteq KeySlots
    BY DEF Used
  <2> QED BY <1>1, <1>2, <2>1, <2>2, <2>3 DEF Swept
<1> QED BY <1>2, <1>4, <1>5, <1>6, <1>7, <1>8 DEF IInv

(* What Skip and Look have in common when the entry has nothing to do. *)
LEMMA PassesByInv ==
  ASSUME IInv, NEW w \in Workers, NEW skipped \in SUBSET KeySlots,
         at[w] = "look", Advance(w, called[w], skipped),
         index[w] \in skipped \/ index[w] \notin Used
           \/ table[index[w]].destructor = Nothing,
         UNCHANGED <<keys, value, locals, held>>
  PROVE  IInv'
<1>1. /\ UNCHANGED keys /\ value' = value /\ key' = key
      /\ destructor' = destructor /\ held' = held
  BY DEF locals
<1>2. /\ pass' \in [Workers -> 1..Passes] /\ index' \in [Workers -> KeySlots]
      /\ called' \in [Workers -> BOOLEAN]
      /\ exempt' \in [Workers -> SUBSET KeySlots]
      /\ \A v \in Workers \ {w} : /\ index'[v] = index[v]
                                  /\ called'[v] = called[v]
                                  /\ exempt'[v] = exempt[v]
      /\ \E place \in {"look", "done"} : Goto(w, place)
      /\ ~called'[w] => \A s \in KeySlots \ exempt'[w] :
           s < index'[w] \/ at'[w] = "done"
             => /\ ~called[w] /\ s \notin exempt[w] \union skipped
                /\ s <= index[w]
  BY AdvanceMoves DEF IInv, KeysTypeOK
<1>3. PICK place \in {"look", "done"} : Goto(w, place)
  BY <1>2
<1>4. /\ table' = table /\ allocated' = allocated /\ Used' = Used
      /\ Handed' = Handed
      /\ at' \in [KeyThreads -> {"run", "enter", "free", "look", "fetch",
                              "destroy", "done"}]
      /\ at'[w] = place /\ \A t \in KeyThreads \ {w} : at'[t] = at[t]
      /\ Placed' /\ Accounted' /\ Apart'
      /\ \A u \in Handed : key'[u] = key[u] /\ at'[u] = at[u]
  BY <1>1, <1>3, WorkerStep
<1>5. KeysTypeOK'
  BY <1>1, <1>2, <1>4 DEF IInv, KeysTypeOK
<1>6. ASSUME NEW v \in Workers \ {w}
      PROVE  Valued(v)' /\ Reading(v)' /\ Swept(v)'
  <2>1. v \in KeyThreads \ {w}
    BY DEF KeyThreads
  <2> QED BY <1>1, <1>2, <1>4, <2>1, Bystander
<1>7. Valued(w)'
  BY <1>1, <1>4 DEF IInv, Valued
<1>8. Reading(w)'
  BY <1>3, <1>4 DEF Reading
<1>9. Swept(w)'
  <2>1. ASSUME ~called'[w], NEW s \in Used \ exempt'[w],
               s < index'[w] \/ at'[w] = "done", table[s].destructor # Nothing
        PROVE  value[w][table[s].key] = Nothing
    <3>1. s \in KeySlots /\ index[w] \in KeySlots
      BY DEF Used, IInv, KeysTypeOK
    <3>2. ~called[w] /\ s \notin exempt[w] \union skipped /\ s <= index[w]
      BY <1>2, <2>1, <3>1
    <3>3. s # index[w]
      BY <2>1, <3>2
    <3>4. s < index[w]
      BY <3>1, <3>2, <3>3 DEF KeySlots
    <3> QED BY <2>1, <3>2, <3>4 DEF IInv, Swept
  <2> QED BY <1>1, <1>3, <1>4, <2>1 DEF Swept
<1> QED BY <1>4, <1>5, <1>6, <1>7, <1>8, <1>9 DEF IInv

LEMMA SkipInv ==
  ASSUME IInv, NEW w \in Workers, Skip(w)
  PROVE  IInv'
<1>1. /\ at[w] = "look" /\ Advance(w, called[w], {index[w]})
      /\ UNCHANGED <<keys, value, locals, held>>
  BY DEF Skip
<1>2. {index[w]} \in SUBSET KeySlots /\ index[w] \in {index[w]}
  BY DEF IInv, KeysTypeOK
<1> QED BY <1>1, <1>2, PassesByInv

LEMMA LookInv ==
  ASSUME IInv, NEW w \in Workers, Look(w)
  PROVE  IInv'
<1> DEFINE i == index[w]
<1>1. /\ at[w] = "look" /\ UNCHANGED keys /\ value' = value /\ held' = held
      /\ i \in KeySlots
  BY DEF Look, IInv, KeysTypeOK
<1>2. CASE i \in Used /\ table[i].destructor # Nothing
  <2>1. /\ key' = [key EXCEPT ![w] = table[i].key]
        /\ destructor' = [destructor EXCEPT ![w] = table[i].destructor]
        /\ Goto(w, "fetch")
        /\ pass' = pass /\ index' = index /\ called' = called
        /\ exempt' = exempt
    BY <1>2 DEF Look, Used
  <2>2. /\ table[i].key \in Keys /\ w \in KeyThreads
        /\ table[i].destructor \in Destructors \union {Nothing}
    BY <1>1, <1>2, Kinds DEF IInv, Accounted, KeysTypeOK, Entry
  <2>3. /\ key' \in [KeyThreads -> Keys \union {Nothing}]
        /\ destructor' \in [KeyThreads -> Destructors \union {Nothing}]
        /\ key'[w] = table[i].key /\ destructor'[w] = table[i].destructor
        /\ \A t \in KeyThreads \ {w} : /\ key'[t] = key[t]
                                    /\ destructor'[t] = destructor[t]
    BY <2>1, <2>2 DEF IInv, KeysTypeOK
  <2>4. /\ table' = table /\ allocated' = allocated /\ Used' = Used
        /\ Handed' = Handed
        /\ at' \in [KeyThreads -> {"run", "enter", "free", "look", "fetch",
                                "destroy", "done"}]
        /\ at'[w] = "fetch" /\ \A t \in KeyThreads \ {w} : at'[t] = at[t]
        /\ Placed' /\ Accounted' /\ Apart'
        /\ \A u \in Handed : key'[u] = key[u] /\ at'[u] = at[u]
    BY <1>1, <2>1, <2>3, WorkerStep
  <2>5. KeysTypeOK'
    BY <1>1, <2>1, <2>3, <2>4 DEF IInv, KeysTypeOK
  <2>6. ASSUME NEW v \in Workers \ {w}
        PROVE  Valued(v)' /\ Reading(v)' /\ Swept(v)'
    <3>1. v \in KeyThreads \ {w}
      BY DEF KeyThreads
    <3> QED BY <1>1, <2>1, <2>3, <2>4, <3>1, Bystander
  <2>7. Valued(w)'
    BY <1>1, <2>4 DEF IInv, Valued
  <2>8. Reading(w)'
    <3>1. value[w][table[i].key] \in {table[i].destructor, Nothing}
      BY <1>2 DEF IInv, Valued
    <3> QED BY <1>1, <2>1, <2>2, <2>3, <2>4, <3>1 DEF Reading
  <2>9. Swept(w)'
    BY <1>1, <2>1, <2>4 DEF IInv, Swept
  <2> QED BY <2>4, <2>5, <2>6, <2>7, <2>8, <2>9 DEF IInv
<1>3. CASE ~(i \in Used /\ table[i].destructor # Nothing)
  <2>1. Advance(w, called[w], {}) /\ UNCHANGED <<keys, value, locals, held>>
    BY <1>1, <1>3 DEF Look, Used
  <2>2. {} \in SUBSET KeySlots
    OBVIOUS
  <2> QED BY <1>1, <1>3, <2>1, <2>2, PassesByInv
<1> QED BY <1>2, <1>3

LEMMA FetchInv ==
  ASSUME IInv, NEW w \in Workers, Fetch(w)
  PROVE  IInv'
<1> DEFINE k == key[w]
<1>1. /\ at[w] = "fetch" /\ UNCHANGED keys
      /\ held' = [held EXCEPT ![w] = value[w][k]]
      /\ value' = [value EXCEPT ![w][k] = Nothing]
      /\ w \in KeyThreads
  BY Kinds DEF Fetch, IInv
<1>2. /\ k \in Keys /\ value[w][k] \in {destructor[w], Nothing}
      /\ index[w] \in Used \ exempt[w] => table[index[w]].key = k
  BY <1>1 DEF IInv, Reading
<1> HIDE DEF k
<1>3. /\ value' \in [Workers -> [Keys -> Destructors \union {Nothing}]]
      /\ value'[w] = [value[w] EXCEPT ![k] = Nothing]
      /\ value[w] \in [Keys -> Destructors \union {Nothing}]
      /\ \A v \in Workers \ {w} : value'[v] = value[v]
  BY <1>1, <1>2 DEF IInv, KeysTypeOK
<1>4. /\ value'[w][k] = Nothing
      /\ \A j \in Keys \ {k} : value'[w][j] = value[w][j]
  BY <1>2, <1>3
<1>5. /\ held' \in [Workers -> Destructors \union {Nothing}]
      /\ held'[w] = value[w][k]
      /\ \A v \in Workers \ {w} : held'[v] = held[v]
  BY <1>1, <1>2, <1>3 DEF IInv, KeysTypeOK
<1>6. /\ \A s \in Used : value'[w][table[s].key]
                           \in {table[s].destructor, Nothing}
      /\ \A u \in Handed : at[u] = "enter" => value'[w][key[u]] = Nothing
      /\ \A s \in Used : value[w][table[s].key] = Nothing
                           => value'[w][table[s].key] = Nothing
  BY <1>4 DEF IInv, Valued, Accounted
<1>7. CASE held'[w] = Nothing
  <2>1. Advance(w, called[w], {}) /\ Forget(w) /\ called[w] \in BOOLEAN
    BY <1>7 DEF Fetch, IInv, KeysTypeOK
  <2>2. /\ key' \in [KeyThreads -> Keys \union {Nothing}]
        /\ destructor' \in [KeyThreads -> Destructors \union {Nothing}]
        /\ \A t \in KeyThreads \ {w} : /\ key'[t] = key[t]
                                    /\ destructor'[t] = destructor[t]
    BY <1>1, <2>1 DEF Forget, IInv, KeysTypeOK
  <2>3. /\ pass' \in [Workers -> 1..Passes] /\ index' \in [Workers -> KeySlots]
        /\ called' \in [Workers -> BOOLEAN]
        /\ exempt' \in [Workers -> SUBSET KeySlots]
        /\ \A v \in Workers \ {w} : /\ index'[v] = index[v]
                                    /\ called'[v] = called[v]
                                    /\ exempt'[v] = exempt[v]
        /\ \E place \in {"look", "done"} : Goto(w, place)
        /\ ~called'[w] => \A s \in KeySlots \ exempt'[w] :
             s < index'[w] \/ at'[w] = "done"
               => ~called[w] /\ s \notin exempt[w] \union {} /\ s <= index[w]
    <3>1. {} \in SUBSET KeySlots
      OBVIOUS
    <3> QED BY <2>1, <3>1, AdvanceMoves DEF IInv
  <2>4. PICK place \in {"look", "done"} : Goto(w, place)
    BY <2>3
  <2>5. /\ table' = table /\ allocated' = allocated /\ Used' = Used
        /\ Handed' = Handed
        /\ at' \in [KeyThreads -> {"run", "enter", "free", "look", "fetch",
                                "destroy", "done"}]
        /\ at'[w] = place /\ \A t \in KeyThreads \ {w} : at'[t] = at[t]
        /\ Placed' /\ Accounted' /\ Apart'
        /\ \A u \in Handed : key'[u] = key[u] /\ at'[u] = at[u]
    BY <1>1, <2>2, <2>4, WorkerStep
  <2>6. KeysTypeOK'
    BY <1>3, <1>5, <2>2, <2>3, <2>5 DEF IInv, KeysTypeOK
  <2>7. ASSUME NEW v \in Workers \ {w}
        PROVE  Valued(v)' /\ Reading(v)' /\ Swept(v)'
    <3>1. v \in KeyThreads \ {w}
      BY DEF KeyThreads
    <3> QED BY <1>3, <1>5, <2>2, <2>3, <2>5, <3>1, Bystander
  <2>8. Valued(w)'
    BY <1>6, <2>5 DEF Valued
  <2>9. Reading(w)'
    BY <2>4, <2>5 DEF Reading
  <2>10. Swept(w)'
    <3>1. ASSUME ~called'[w], NEW s \in Used \ exempt'[w],
                 s < index'[w] \/ at'[w] = "done", table[s].destructor # Nothing
          PROVE  value'[w][table[s].key] = Nothing
      <4>1. s \in KeySlots /\ index[w] \in KeySlots
        BY DEF Used, IInv, KeysTypeOK
      <4>2. ~called[w] /\ s \notin exempt[w] /\ s <= index[w]
        BY <2>3, <3>1, <4>1
      <4>3. CASE s = index[w]
        BY <1>2, <1>4, <4>2, <4>3
      <4>4. CASE s # index[w]
        <5>1. s < index[w]
          BY <4>1, <4>2, <4>4 DEF KeySlots
        <5> QED BY <1>1, <1>6, <3>1, <4>2, <5>1 DEF IInv, Swept
      <4> QED BY <4>3, <4>4
    <3> QED BY <2>4, <2>5, <3>1 DEF Swept
  <2> QED BY <2>5, <2>6, <2>7, <2>8, <2>9, <2>10 DEF IInv
<1>8. CASE held'[w] # Nothing
  <2>1. /\ Goto(w, "destroy") /\ key' = key /\ destructor' = destructor
        /\ pass' = pass /\ index' = index /\ called' = called
        /\ exempt' = exempt
    BY <1>8 DEF Fetch, locals
  <2>2. /\ table' = table /\ allocated' = allocated /\ Used' = Used
        /\ Handed' = Handed
        /\ at' \in [KeyThreads -> {"run", "enter", "free", "look", "fetch",
                                "destroy", "done"}]
        /\ at'[w] = "destroy" /\ \A t \in KeyThreads \ {w} : at'[t] = at[t]
        /\ Placed' /\ Accounted' /\ Apart'
        /\ \A u \in Handed : key'[u] = key[u] /\ at'[u] = at[u]
    BY <1>1, <2>1, WorkerStep
  <2>3. KeysTypeOK'
    BY <1>3, <1>5, <2>1, <2>2 DEF IInv, KeysTypeOK
  <2>4. ASSUME NEW v \in Workers \ {w}
        PROVE  Valued(v)' /\ Reading(v)' /\ Swept(v)'
    <3>1. v \in KeyThreads \ {w}
      BY DEF KeyThreads
    <3> QED BY <1>3, <1>5, <2>1, <2>2, <3>1, Bystander
  <2>5. Valued(w)'
    BY <1>6, <2>1, <2>2 DEF Valued
  <2>6. Reading(w)' /\ Swept(w)'
    BY <1>2, <1>5, <1>8, <2>1, <2>2 DEF Reading, Swept
  <2> QED BY <2>2, <2>3, <2>4, <2>5, <2>6 DEF IInv
<1> QED BY <1>7, <1>8

LEMMA DestroyInv ==
  ASSUME IInv, NEW w \in Workers, Destroy(w)
  PROVE  IInv'
<1>1. /\ at[w] = "destroy" /\ UNCHANGED keys /\ Forget(w)
      /\ Advance(w, TRUE, {})
      /\ held' = [held EXCEPT ![w] = Nothing] /\ w \in KeyThreads
  BY Kinds DEF Destroy, IInv
<1>2. /\ value' \in [Workers -> [Keys -> Destructors \union {Nothing}]]
      /\ \A v \in Workers \ {w} : value'[v] = value[v]
      /\ \A s \in Used : value'[w][table[s].key]
                           \in {table[s].destructor, Nothing}
      /\ \A u \in Handed : at[u] = "enter" => value'[w][key[u]] = Nothing
  <2>1. CASE value' = value
    BY <2>1 DEF IInv, KeysTypeOK, Valued
  <2>2. CASE \E s \in Used :
               value' = [value EXCEPT ![w][table[s].key] = table[s].destructor]
    <3>1. PICK s \in Used :
            value' = [value EXCEPT ![w][table[s].key] = table[s].destructor]
      BY <2>2
    <3> DEFINE k == table[s].key
               d == table[s].destructor
    <3>2. k \in Keys /\ d \in Destructors \union {Nothing}
      BY DEF IInv, Accounted, KeysTypeOK, Entry, Used
    <3> HIDE DEF k, d
    <3>3. value' = [value EXCEPT ![w][k] = d]
      BY <3>1 DEF k, d
    <3>4. /\ value' \in [Workers -> [Keys -> Destructors \union {Nothing}]]
          /\ value'[w] = [value[w] EXCEPT ![k] = d]
          /\ value[w] \in [Keys -> Destructors \union {Nothing}]
          /\ \A v \in Workers \ {w} : value'[v] = value[v]
      BY <3>2, <3>3 DEF IInv, KeysTypeOK
    <3>5. /\ value'[w][k] = d
          /\ \A j \in Keys \ {k} : value'[w][j] = value[w][j]
      BY <3>2, <3>4
    <3>6. ASSUME NEW r \in Used
          PROVE  value'[w][table[r].key] \in {table[r].destructor, Nothing}
      <4>1. CASE r = s
        BY <3>5, <4>1 DEF k, d
      <4>2. CASE r # s
        <5>1. table[r].key \in Keys \ {k}
          BY <4>2 DEF k, IInv, Apart, Accounted
        <5> QED BY <3>5, <5>1 DEF IInv, Valued
      <4> QED BY <4>1, <4>2
    <3>7. ASSUME NEW u \in Handed, at[u] = "enter"
          PROVE  value'[w][key[u]] = Nothing
      <4>1. key[u] \in Keys \ {k}
        BY DEF k, IInv, Apart, Accounted
      <4> QED BY <3>5, <3>7, <4>1 DEF IInv, Valued
    <3> QED BY <3>4, <3>6, <3>7
  <2> QED BY <2>1, <2>2 DEF Destroy
<1>3. /\ key' \in [KeyThreads -> Keys \union {Nothing}]
      /\ destructor' \in [KeyThreads -> Destructors \union {Nothing}]
      /\ \A t \in KeyThreads \ {w} : /\ key'[t] = key[t]
                                  /\ destructor'[t] = destructor[t]
      /\ held' \in [Workers -> Destructors \union {Nothing}]
      /\ \A v \in Workers \ {w} : held'[v] = held[v]
  BY <1>1 DEF Forget, IInv, KeysTypeOK
<1>4. /\ pass' \in [Workers -> 1..Passes] /\ index' \in [Workers -> KeySlots]
      /\ called' \in [Workers -> BOOLEAN]
      /\ exempt' \in [Workers -> SUBSET KeySlots]
      /\ \A v \in Workers \ {w} : /\ index'[v] = index[v]
                                  /\ called'[v] = called[v]
                                  /\ exempt'[v] = exempt[v]
      /\ \E place \in {"look", "done"} : Goto(w, place)
      /\ ~called'[w] => \A s \in KeySlots \ exempt'[w] :
           s < index'[w] \/ at'[w] = "done"
             => ~TRUE /\ s \notin exempt[w] \union {} /\ s <= index[w]
  <2>1. {} \in SUBSET KeySlots /\ TRUE \in BOOLEAN
    OBVIOUS
  <2> QED BY <1>1, <2>1, AdvanceMoves DEF IInv
<1>5. PICK place \in {"look", "done"} : Goto(w, place)
  BY <1>4
<1>6. /\ table' = table /\ allocated' = allocated /\ Used' = Used
      /\ Handed' = Handed
      /\ at' \in [KeyThreads -> {"run", "enter", "free", "look", "fetch",
                              "destroy", "done"}]
      /\ at'[w] = place /\ \A t \in KeyThreads \ {w} : at'[t] = at[t]
      /\ Placed' /\ Accounted' /\ Apart'
      /\ \A u \in Handed : key'[u] = key[u] /\ at'[u] = at[u]
  BY <1>1, <1>3, <1>5, WorkerStep
<1>7. KeysTypeOK'
  BY <1>2, <1>3, <1>4, <1>6 DEF IInv, KeysTypeOK
<1>8. ASSUME NEW v \in Workers \ {w}
      PROVE  Valued(v)' /\ Reading(v)' /\ Swept(v)'
  <2>1. v \in KeyThreads \ {w}
    BY DEF KeyThreads
  <2> QED BY <1>2, <1>3, <1>4, <1>6, <2>1, Bystander
<1>9. Valued(w)'
  BY <1>2, <1>6 DEF Valued
<1>10. Reading(w)'
  BY <1>5, <1>6 DEF Reading
<1>11. Swept(w)'
  <2>1. Used \subseteq KeySlots
    BY DEF Used
  <2> QED BY <1>4, <1>5, <1>6, <2>1 DEF Swept
<1> QED BY <1>6, <1>7, <1>8, <1>9, <1>10, <1>11 DEF IInv

-----------------------------------------------------------------------------
(* The invariant is kept: the steps of a user. *)

LEMMA UserStep ==
  ASSUME IInv, NEW u \in Users, NEW place \in {"run", "enter", "free"},
         Goto(u, place), UNCHANGED loop
  PROVE  /\ u \in KeyThreads
         /\ at' \in [KeyThreads -> {"run", "enter", "free", "look", "fetch",
                                 "destroy", "done"}]
         /\ at'[u] = place /\ \A t \in KeyThreads \ {u} : at'[t] = at[t]
         /\ \A w \in Workers : w \in KeyThreads \ {u} /\ at'[w] = at[w]
         /\ Placed'
         /\ Handed' = IF place = "run" THEN Handed \ {u} ELSE Handed \union {u}
         /\ \A v \in Handed \ {u} : v \in KeyThreads \ {u} /\ at'[v] = at[v]
         /\ held' = held /\ pass' = pass /\ index' = index /\ called' = called
<1>1. /\ u \in KeyThreads /\ \A w \in Workers : w \in KeyThreads \ {u}
      /\ \A v \in Users : v \in KeyThreads
  BY Kinds DEF IInv
<1>2. /\ at' \in [KeyThreads -> {"run", "enter", "free", "look", "fetch",
                              "destroy", "done"}]
      /\ at'[u] = place /\ \A t \in KeyThreads \ {u} : at'[t] = at[t]
  BY <1>1 DEF Goto, IInv, KeysTypeOK
<1>3. Placed'
  BY <1>1, <1>2 DEF IInv, Placed
<1>4. Handed' = IF place = "run" THEN Handed \ {u} ELSE Handed \union {u}
  BY <1>1, <1>2 DEF Handed
<1>5. held' = held /\ pass' = pass /\ index' = index /\ called' = called
  BY DEF loop
<1>6. \A v \in Handed \ {u} : v \in KeyThreads \ {u} /\ at'[v] = at[v]
  BY <1>1, <1>2 DEF Handed
<1> QED BY <1>1, <1>2, <1>3, <1>4, <1>5, <1>6

LEMMA AllocateKeyInv ==
  ASSUME IInv, NEW u \in Users, NEW d \in Destructors \union {Nothing},
         AllocateKey(u, d)
  PROVE  IInv'
<1>1. /\ at[u] = "run" /\ Goto(u, "enter") /\ UNCHANGED loop
      /\ destructor' = [destructor EXCEPT ![u] = d]
      /\ table' = table /\ exempt' = exempt
  BY DEF AllocateKey
<1>2. PICK k \in Keys \ allocated :
        /\ allocated' = allocated \union {k}
        /\ value' = [w \in Workers |-> [value[w] EXCEPT ![k] = Nothing]]
        /\ key' = [key EXCEPT ![u] = k]
  BY DEF AllocateKey
<1>3. /\ u \in KeyThreads
      /\ at' \in [KeyThreads -> {"run", "enter", "free", "look", "fetch",
                              "destroy", "done"}]
      /\ at'[u] = "enter"
      /\ \A w \in Workers : w \in KeyThreads \ {u} /\ at'[w] = at[w]
      /\ Placed' /\ Handed' = Handed \union {u}
      /\ \A v \in Handed \ {u} : v \in KeyThreads \ {u} /\ at'[v] = at[v]
      /\ held' = held /\ pass' = pass /\ index' = index /\ called' = called
  BY <1>1, UserStep
<1>4. /\ key' \in [KeyThreads -> Keys \union {Nothing}]
      /\ destructor' \in [KeyThreads -> Destructors \union {Nothing}]
      /\ key'[u] = k
      /\ \A t \in KeyThreads \ {u} : /\ key'[t] = key[t]
                                  /\ destructor'[t] = destructor[t]
  BY <1>1, <1>2, <1>3 DEF IInv, KeysTypeOK
<1>5. ASSUME NEW w \in Workers
      PROVE  /\ value'[w] \in [Keys -> Destructors \union {Nothing}]
             /\ value'[w][k] = Nothing
             /\ \A j \in Keys \ {k} : value'[w][j] = value[w][j]
  <2>1. /\ value'[w] = [value[w] EXCEPT ![k] = Nothing]
        /\ value[w] \in [Keys -> Destructors \union {Nothing}]
    BY <1>2 DEF IInv, KeysTypeOK
  <2> QED BY <1>2, <2>1
<1>6. value' \in [Workers -> [Keys -> Destructors \union {Nothing}]]
  BY <1>2, <1>5
<1>7. Used' = Used /\ u \notin Handed
  BY <1>1 DEF Used, Handed
<1>8. /\ \A s \in Used : table[s].key \in Keys \ {k}
      /\ \A v \in Handed : key[v] \in Keys \ {k} /\ key'[v] = key[v]
  BY <1>2, <1>3, <1>4, <1>7 DEF IInv, Accounted
<1>9. KeysTypeOK'
  BY <1>1, <1>2, <1>3, <1>4, <1>6 DEF IInv, KeysTypeOK
<1>10. Accounted' /\ Apart'
  BY <1>1, <1>2, <1>3, <1>4, <1>7, <1>8 DEF IInv, Accounted, Apart
<1>11. ASSUME NEW w \in Workers
       PROVE  Valued(w)' /\ Reading(w)' /\ Swept(w)'
  <2>1. Valued(w) /\ Reading(w) /\ Swept(w)
    BY DEF IInv
  <2>2. Valued(w)'
    BY <1>1, <1>3, <1>4, <1>5, <1>7, <1>8, <2>1 DEF Valued
  <2>3. Reading(w)'
    BY <1>1, <1>3, <1>4, <1>5, <1>7, <2>1 DEF Reading
  <2>4. Swept(w)'
    BY <1>1, <1>3, <1>5, <1>7, <1>8, <2>1 DEF Swept
  <2> QED BY <2>2, <2>3, <2>4
<1> QED BY <1>3, <1>9, <1>10, <1>11 DEF IInv

LEMMA EnterKeyInv ==
  ASSUME IInv, NEW u \in Users, EnterKey(u)
  PROVE  IInv'
<1> DEFINE s == Min(KeySlots \ Used)
           entry == [used |-> TRUE, key |-> key[u], destructor |-> destructor[u]]
<1>1. /\ at[u] = "enter" /\ Goto(u, "run") /\ UNCHANGED loop
      /\ table' = [table EXCEPT ![s] = entry]
      /\ exempt' = [w \in Workers |->
           IF at[w] = "run" THEN {} ELSE exempt[w] \union {s}]
      /\ Forget(u) /\ allocated' = allocated /\ value' = value
  BY DEF EnterKey
<1>2. s \in KeySlots /\ s \notin Used
  <2>1. KeySlots \ Used \in SUBSET KeySlots /\ KeySlots \ Used # {}
    BY DEF EnterKey, Used
  <2> QED BY <2>1, MinMember
<1> HIDE DEF s
<1>3. /\ u \in KeyThreads
      /\ at' \in [KeyThreads -> {"run", "enter", "free", "look", "fetch",
                              "destroy", "done"}]
      /\ at'[u] = "run"
      /\ \A w \in Workers : w \in KeyThreads \ {u} /\ at'[w] = at[w]
      /\ Placed' /\ Handed' = Handed \ {u}
      /\ \A v \in Handed \ {u} : v \in KeyThreads \ {u} /\ at'[v] = at[v]
      /\ held' = held /\ pass' = pass /\ index' = index /\ called' = called
  BY <1>1, UserStep
<1>4. /\ key' \in [KeyThreads -> Keys \union {Nothing}]
      /\ destructor' \in [KeyThreads -> Destructors \union {Nothing}]
      /\ \A t \in KeyThreads \ {u} : /\ key'[t] = key[t]
                                  /\ destructor'[t] = destructor[t]
  BY <1>1, <1>3 DEF Forget, IInv, KeysTypeOK
<1>5. /\ u \in Handed /\ key[u] \in Keys
      /\ destructor[u] \in Destructors \union {Nothing}
  BY <1>1, <1>3 DEF Handed, IInv, Accounted, KeysTypeOK
<1>6. /\ entry \in Entry /\ entry.used /\ entry.key = key[u]
      /\ entry.destructor = destructor[u]
  BY <1>5 DEF Entry
<1> HIDE DEF entry
<1>7. /\ table' \in [KeySlots -> Entry] /\ table'[s] = entry
      /\ \A r \in KeySlots \ {s} : table'[r] = table[r]
  BY <1>1, <1>2, <1>6 DEF IInv, KeysTypeOK
<1>8. Used' = Used \union {s} /\ \A r \in Used : r # s /\ table'[r] = table[r]
  BY <1>2, <1>6, <1>7 DEF Used
<1>9. /\ exempt' \in [Workers -> SUBSET KeySlots]
      /\ \A w \in Workers : at[w] # "run" =>
           exempt'[w] = exempt[w] \union {s}
  BY <1>1, <1>2 DEF IInv, KeysTypeOK
<1>10. KeysTypeOK'
  BY <1>1, <1>3, <1>4, <1>7, <1>9 DEF IInv, KeysTypeOK
<1>11. Accounted' /\ Apart'
  <2>1. \A v \in Handed' : v \in Handed /\ v # u /\ key'[v] = key[v]
    BY <1>3, <1>4
  <2>2. Accounted'
    <3>1. ASSUME NEW k \in Keys
          PROVE  k \in allocated' <=>
                   \/ \E r \in Used' : table'[r].key = k
                   \/ \E v \in Handed' : key'[v] = k
      <4>1. (\E r \in Used' : table'[r].key = k) <=>
              k = key[u] \/ \E r \in Used : table[r].key = k
        BY <1>6, <1>7, <1>8
      <4>2. (\E v \in Handed : key[v] = k) <=>
              k = key[u] \/ \E v \in Handed' : key'[v] = k
        BY <1>3, <1>5, <2>1
      <4> QED BY <1>1, <4>1, <4>2 DEF IInv, Accounted
    <3> QED BY <1>5, <1>6, <1>7, <1>8, <2>1, <3>1 DEF IInv, Accounted
  <2>3. Apart'
    BY <1>5, <1>6, <1>7, <1>8, <2>1 DEF IInv, Apart
  <2> QED BY <2>2, <2>3
<1>12. ASSUME NEW w \in Workers
       PROVE  Valued(w)' /\ Reading(w)' /\ Swept(w)'
  <2>1. /\ Valued(w) /\ Reading(w) /\ Swept(w) /\ at'[w] = at[w]
        /\ value'[w] = value[w] /\ key'[w] = key[w]
        /\ destructor'[w] = destructor[w] /\ held'[w] = held[w]
        /\ index'[w] = index[w] /\ called'[w] = called[w]
    BY <1>1, <1>3, <1>4 DEF IInv
  <2>2. Valued(w)'
    <3>1. value[w][key[u]] = Nothing
      BY <1>1, <1>5, <2>1 DEF Valued
    <3>2. \A r \in Used' : value'[w][table'[r].key]
                             \in {table'[r].destructor, Nothing}
      BY <1>6, <1>7, <1>8, <2>1, <3>1 DEF Valued
    <3>3. \A v \in Handed' : at'[v] = "enter" => value'[w][key'[v]] = Nothing
      BY <1>3, <1>4, <2>1 DEF Valued
    <3> QED BY <3>2, <3>3 DEF Valued
  <2>3. Reading(w)'
    <3>1. ASSUME at[w] = "fetch", index[w] \in Used' \ exempt'[w]
          PROVE  table'[index[w]].key = key[w]
      <4>1. index[w] \in Used \ exempt[w]
        BY <1>8, <1>9, <3>1
      <4> QED BY <1>8, <2>1, <3>1, <4>1 DEF Reading
    <3> QED BY <2>1, <3>1 DEF Reading
  <2>4. Swept(w)'
    <3>1. ASSUME at[w] # "run", NEW r \in Used' \ exempt'[w]
          PROVE  r \in Used \ exempt[w] /\ table'[r] = table[r]
      BY <1>8, <1>9, <3>1
    <3> QED BY <2>1, <3>1 DEF Swept
  <2> QED BY <2>2, <2>3, <2>4
<1> QED BY <1>3, <1>10, <1>11, <1>12 DEF IInv

LEMMA EnterKeyFailsInv ==
  ASSUME IInv, NEW u \in Users, EnterKeyFails(u)
  PROVE  IInv'
<1>1. /\ at[u] = "enter" /\ Goto(u, "free") /\ UNCHANGED loop
      /\ table' = table /\ allocated' = allocated /\ value' = value
      /\ key' = key /\ destructor' = destructor /\ exempt' = exempt
  BY DEF EnterKeyFails, keys, locals
<1>2. /\ u \in KeyThreads
      /\ at' \in [KeyThreads -> {"run", "enter", "free", "look", "fetch",
                              "destroy", "done"}]
      /\ at'[u] = "free"
      /\ \A w \in Workers : w \in KeyThreads \ {u} /\ at'[w] = at[w]
      /\ Placed' /\ Handed' = Handed \union {u}
      /\ \A v \in Handed \ {u} : v \in KeyThreads \ {u} /\ at'[v] = at[v]
      /\ held' = held /\ pass' = pass /\ index' = index /\ called' = called
  BY <1>1, UserStep
<1>3. Used' = Used /\ Handed' = Handed
  BY <1>1, <1>2 DEF Used, Handed
<1>4. KeysTypeOK' /\ Accounted' /\ Apart'
  BY <1>1, <1>2, <1>3 DEF IInv, KeysTypeOK, Accounted, Apart
<1>5. ASSUME NEW w \in Workers
      PROVE  Valued(w)' /\ Reading(w)' /\ Swept(w)'
  <2>1. Valued(w) /\ Reading(w) /\ Swept(w) /\ at'[w] = at[w]
    BY <1>2 DEF IInv
  <2>2. \A v \in Handed : at'[v] = "enter" => at[v] = "enter"
    BY <1>1, <1>2
  <2> QED BY <1>1, <1>2, <1>3, <2>1, <2>2 DEF Valued, Reading, Swept
<1> QED BY <1>2, <1>4, <1>5 DEF IInv

LEMMA FreeKeyInv ==
  ASSUME IInv, NEW u \in Users, FreeKey(u)
  PROVE  IInv'
<1>1. /\ at[u] = "free" /\ Goto(u, "run") /\ UNCHANGED loop
      /\ allocated' = allocated \ {key[u]} /\ Forget(u)
      /\ table' = table /\ value' = value /\ exempt' = exempt
  BY DEF FreeKey
<1>2. /\ u \in KeyThreads
      /\ at' \in [KeyThreads -> {"run", "enter", "free", "look", "fetch",
                              "destroy", "done"}]
      /\ at'[u] = "run"
      /\ \A w \in Workers : w \in KeyThreads \ {u} /\ at'[w] = at[w]
      /\ Placed' /\ Handed' = Handed \ {u}
      /\ \A v \in Handed \ {u} : v \in KeyThreads \ {u} /\ at'[v] = at[v]
      /\ held' = held /\ pass' = pass /\ index' = index /\ called' = called
  BY <1>1, UserStep
<1>3. /\ key' \in [KeyThreads -> Keys \union {Nothing}]
      /\ destructor' \in [KeyThreads -> Destructors \union {Nothing}]
      /\ \A t \in KeyThreads \ {u} : /\ key'[t] = key[t]
                                  /\ destructor'[t] = destructor[t]
  BY <1>1, <1>2 DEF Forget, IInv, KeysTypeOK
<1>4. /\ u \in Handed /\ Used' = Used
      /\ \A v \in Handed' : v \in Handed /\ v # u /\ key'[v] = key[v]
      /\ \A v \in Handed : v # u => v \in Handed'
  BY <1>1, <1>2, <1>3 DEF Handed, Used
<1>5. KeysTypeOK'
  BY <1>1, <1>2, <1>3 DEF IInv, KeysTypeOK
<1>6. Accounted' /\ Apart'
  <2>1. Apart'
    BY <1>1, <1>4 DEF IInv, Apart
  <2>2. ASSUME NEW k \in Keys
        PROVE  k \in allocated' <=>
                 \/ \E s \in Used : table[s].key = k
                 \/ \E v \in Handed' : key'[v] = k
    BY <1>1, <1>4 DEF IInv, Accounted, Apart
  <2> QED BY <1>1, <1>4, <2>1, <2>2 DEF IInv, Accounted
<1>7. ASSUME NEW w \in Workers
      PROVE  Valued(w)' /\ Reading(w)' /\ Swept(w)'
  <2>1. /\ Valued(w) /\ Reading(w) /\ Swept(w) /\ at'[w] = at[w]
        /\ key'[w] = key[w] /\ destructor'[w] = destructor[w]
    BY <1>2, <1>3 DEF IInv
  <2> QED BY <1>1, <1>2, <1>4, <2>1 DEF Valued, Reading, Swept
<1> QED BY <1>2, <1>5, <1>6, <1>7 DEF IInv

LEMMA DeleteKeyInv ==
  ASSUME IInv, NEW u \in Users, NEW k \in Keys, DeleteKey(u, k)
  PROVE  IInv'
<1>1. /\ at[u] = "run" /\ Goto(u, "free") /\ UNCHANGED loop
      /\ key' = [key EXCEPT ![u] = k]
      /\ allocated' = allocated /\ value' = value
      /\ destructor' = destructor /\ exempt' = exempt
  BY DEF DeleteKey
<1>2. PICK s \in Used :
        /\ table[s].key = k
        /\ table' = [table EXCEPT ![s].used = FALSE, ![s].destructor = Nothing]
  BY DEF DeleteKey
<1>3. /\ u \in KeyThreads
      /\ at' \in [KeyThreads -> {"run", "enter", "free", "look", "fetch",
                              "destroy", "done"}]
      /\ at'[u] = "free"
      /\ \A w \in Workers : w \in KeyThreads \ {u} /\ at'[w] = at[w]
      /\ Placed' /\ Handed' = Handed \union {u}
      /\ \A v \in Handed \ {u} : v \in KeyThreads \ {u} /\ at'[v] = at[v]
      /\ held' = held /\ pass' = pass /\ index' = index /\ called' = called
  BY <1>1, UserStep
<1>4. /\ key' \in [KeyThreads -> Keys \union {Nothing}] /\ key'[u] = k
      /\ \A t \in KeyThreads \ {u} : key'[t] = key[t]
  BY <1>1, <1>3 DEF IInv, KeysTypeOK
<1>5. /\ table' \in [KeySlots -> Entry] /\ ~table'[s].used
      /\ \A r \in KeySlots \ {s} : table'[r] = table[r]
  <2>1. table \in [KeySlots -> Entry] /\ s \in KeySlots
    BY DEF IInv, KeysTypeOK, Used
  <2> DEFINE e == table[s]
             e1 == [e EXCEPT !.used = FALSE]
             e2 == [e1 EXCEPT !.destructor = Nothing]
  <2>2. table' = [table EXCEPT ![s] = e2]
    BY <1>2, <2>1
  <2>3. e \in Entry
    BY <2>1
  <2> HIDE DEF e
  <2>4. e1 \in Entry /\ ~e1.used
    BY <2>3 DEF Entry
  <2> HIDE DEF e1
  <2>5. e2 \in Entry /\ ~e2.used
    BY <2>4 DEF Entry
  <2> HIDE DEF e2
  <2> QED BY <2>1, <2>2, <2>5
<1>6. /\ Used' = Used \ {s}
      /\ \A r \in Used \ {s} : table'[r] = table[r]
  BY <1>5 DEF Used
<1>7. u \notin Handed /\ \A v \in Handed : key'[v] = key[v] /\ at'[v] = at[v]
  BY <1>1, <1>3, <1>4 DEF Handed
<1>8. KeysTypeOK'
  BY <1>1, <1>3, <1>4, <1>5 DEF IInv, KeysTypeOK
<1>9. Accounted' /\ Apart'
  <2>1. ASSUME NEW j \in Keys
        PROVE  j \in allocated' <=>
                 \/ \E r \in Used' : table'[r].key = j
                 \/ \E v \in Handed' : key'[v] = j
    <3>1. (\E r \in Used : table[r].key = j) <=>
            j = k \/ \E r \in Used' : table'[r].key = j
      BY <1>2, <1>6
    <3>2. (\E v \in Handed' : key'[v] = j) <=>
            j = k \/ \E v \in Handed : key[v] = j
      BY <1>3, <1>4, <1>7
    <3> QED BY <1>1, <3>1, <3>2 DEF IInv, Accounted
  <2>2. Accounted'
    BY <1>3, <1>4, <1>6, <1>7, <2>1 DEF IInv, Accounted
  <2>3. Apart'
    <3>1. Apart /\ \A v \in Handed : key[v] # k
      BY <1>2 DEF IInv, Apart
    <3>2. \A r \in Used' : r \in Used /\ r # s /\ table'[r].key # k
      BY <1>2, <1>6, <3>1 DEF Apart
    <3>3. \A v \in Handed' : v \in Handed \/ v = u
      BY <1>3
    <3>4. \A r, q \in Used' : table'[r].key = table'[q].key => r = q
      BY <1>6, <3>1 DEF Apart
    <3>5. \A v, x \in Handed' : key'[v] = key'[x] => v = x
      BY <1>4, <1>7, <3>1, <3>3 DEF Apart
    <3>6. ASSUME NEW r \in Used', NEW v \in Handed'
          PROVE  table'[r].key # key'[v]
      BY <1>4, <1>6, <1>7, <3>1, <3>2, <3>3 DEF Apart
    <3> QED BY <3>4, <3>5, <3>6 DEF Apart
  <2> QED BY <2>2, <2>3
<1>10. ASSUME NEW w \in Workers
       PROVE  Valued(w)' /\ Reading(w)' /\ Swept(w)'
  <2>1. /\ Valued(w) /\ Reading(w) /\ Swept(w) /\ at'[w] = at[w]
        /\ key'[w] = key[w]
    BY <1>3, <1>4 DEF IInv
  <2>2. Valued(w)'
    BY <1>1, <1>3, <1>6, <1>7, <2>1 DEF Valued
  <2>3. Reading(w)' /\ Swept(w)'
    BY <1>1, <1>3, <1>6, <2>1 DEF Reading, Swept
  <2> QED BY <2>2, <2>3
<1> QED BY <1>3, <1>8, <1>9, <1>10 DEF IInv

-----------------------------------------------------------------------------
(* The theorems. *)

LEMMA InitInv == KeysInit => IInv
<1> SUFFICES ASSUME KeysInit PROVE IInv
  OBVIOUS
<1>1. 1 \in 1..Passes /\ 1 \in KeySlots
  BY ThreadKeysAssumption DEF KeySlots
<1>2. /\ Used = {} /\ Handed = {} /\ \A t \in KeyThreads : at[t] = "run"
      /\ \A w \in Workers : w \in KeyThreads /\ index[w] = 1
  BY DEF KeysInit, Used, Handed, KeyThreads
<1>3. KeysTypeOK
  <2>1. table \in [KeySlots -> Entry]
    BY DEF KeysInit, Entry
  <2> QED BY <1>1, <2>1 DEF KeysInit, KeysTypeOK
<1>4. Placed
  BY <1>2 DEF Placed, KeyThreads
<1>5. Accounted /\ Apart
  BY <1>2 DEF KeysInit, Accounted, Apart
<1>6. \A w \in Workers : Valued(w) /\ Reading(w) /\ Swept(w)
  BY <1>2 DEF Valued, Reading, Swept
<1> QED BY <1>3, <1>4, <1>5, <1>6 DEF IInv

LEMMA NextInv ==
  ASSUME IInv, [KeysNext]_keyvars
  PROVE  IInv'
<1>1. CASE UNCHANGED keyvars
  BY <1>1 DEF keyvars, keys, locals, loop, IInv, KeysTypeOK, Placed, Accounted, Apart,
              Valued, Reading, Swept, Used, Handed
<1>2. ASSUME NEW u \in Users, NEW d \in Destructors \union {Nothing},
             AllocateKey(u, d)
      PROVE  IInv'
  BY <1>2, AllocateKeyInv
<1>3. ASSUME NEW u \in Users, EnterKey(u) \/ EnterKeyFails(u) \/ FreeKey(u)
      PROVE  IInv'
  BY <1>3, EnterKeyInv, EnterKeyFailsInv, FreeKeyInv
<1>4. ASSUME NEW u \in Users, NEW k \in Keys, DeleteKey(u, k)
      PROVE  IInv'
  BY <1>4, DeleteKeyInv
<1>5. ASSUME NEW w \in Workers, NEW k \in Keys,
             NEW v \in Destructors \union {Nothing}, Set(w, k, v)
      PROVE  IInv'
  BY <1>5, SetInv
<1>6. ASSUME NEW w \in Workers,
             End(w) \/ Skip(w) \/ Look(w) \/ Fetch(w) \/ Destroy(w)
      PROVE  IInv'
  BY <1>6, EndInv, SkipInv, LookInv, FetchInv, DestroyInv
<1> QED BY <1>1, <1>2, <1>3, <1>4, <1>5, <1>6 DEF KeysNext

THEOREM ThreadKeysInvariant == KeysSpec => []IInv
<1>1. KeysInit => IInv
  BY InitInv
<1>2. IInv /\ [KeysNext]_keyvars => IInv'
  BY NextInv
<1> QED BY <1>1, <1>2, PTL DEF KeysSpec

(* The image of a finite set under a map that keeps its elements apart has
   as many elements as the set. *)
LEMMA SameCount ==
  ASSUME NEW S, NEW T, NEW f \in [S -> T], IsFiniteSet(T),
         \A x, y \in S : f[x] = f[y] => x = y,
         \A z \in T : \E x \in S : f[x] = z
  PROVE  IsFiniteSet(S) /\ Cardinality(S) = Cardinality(T)
<1>1. f \in Injection(S, T) /\ f \in Surjection(S, T)
  BY DEF Injection, Surjection, IsInjective
<1> QED BY <1>1, FS_Injection

(* The kernel's slots are those of the table and those in the hands of a
   call, each once, whatever is created, deleted, refused or full
   (pthread_key_create, pthread_key_delete): none leaks and no key has two
   entries. *)
THEOREM SlotsAlwaysAccounted == KeysSpec => []SlotsAccounted
<1>1. ASSUME IInv
      PROVE  SlotsAccounted
  <2> DEFINE inTable == {table[s].key : s \in Used}
             inHand == {key[u] : u \in Handed}
             entryKey == [s \in Used |-> table[s].key]
             callKey == [u \in Handed |-> key[u]]
  <2>1. inTable \subseteq Keys /\ inHand \subseteq Keys
    BY <1>1 DEF IInv, Accounted
  <2>2. allocated = inTable \union inHand
    <3>1. allocated \subseteq Keys
      BY <1>1 DEF IInv, KeysTypeOK
    <3> QED BY <1>1, <2>1, <3>1 DEF IInv, Accounted
  <2>3. inTable \intersect inHand = {}
    BY <1>1 DEF IInv, Apart
  <2>4. IsFiniteSet(inTable) /\ IsFiniteSet(inHand)
    BY <2>1, FS_Subset, ThreadKeysAssumption
  <2>5. Cardinality(Used) = Cardinality(inTable)
    <3>1. /\ entryKey \in [Used -> inTable]
          /\ \A r, s \in Used : entryKey[r] = entryKey[s] => r = s
          /\ \A k \in inTable : \E s \in Used : entryKey[s] = k
      BY <1>1 DEF IInv, Apart
    <3> HIDE DEF entryKey, inTable
    <3> QED BY <2>4, <3>1, SameCount
  <2>6. Cardinality(Handed) = Cardinality(inHand)
    <3>1. /\ callKey \in [Handed -> inHand]
          /\ \A u, v \in Handed : callKey[u] = callKey[v] => u = v
          /\ \A k \in inHand : \E u \in Handed : callKey[u] = k
      BY <1>1 DEF IInv, Apart
    <3> HIDE DEF callKey, inHand
    <3> QED BY <2>4, <3>1, SameCount
  <2> HIDE DEF inTable, inHand, entryKey, callKey
  <2>7. Cardinality(inTable \union inHand)
          = Cardinality(inTable) + Cardinality(inHand)
    <3>1. /\ Cardinality(inTable) \in Nat /\ Cardinality(inHand) \in Nat
          /\ Cardinality(inTable \intersect inHand) = 0
      BY <2>3, <2>4, FS_CardinalityType, FS_EmptySet
    <3>2. Cardinality(inTable \union inHand)
            = Cardinality(inTable) + Cardinality(inHand)
                - Cardinality(inTable \intersect inHand)
      BY <2>4, FS_Union
    <3> HIDE DEF Handed
    <3> QED BY <3>1, <3>2
  <2>8. Cardinality(allocated) = Cardinality(Used) + Cardinality(Handed)
    BY <2>2, <2>5, <2>6, <2>7
  <2>9. KeysTypeOK
    BY <1>1 DEF IInv
  <2> QED BY <2>2, <2>8, <2>9 DEF SlotsAccounted, Handed, inTable, inHand
<1> QED BY <1>1, ThreadKeysInvariant, PTL

(* wcrt_finish_thread calls a destructor only with a value set under its own
   key, however keys are deleted and created between its reading of the
   entry under the lock and its use of the value. *)
THEOREM DestructorAlwaysGetsItsOwn == KeysSpec => []DestructorGetsItsOwn
<1>1. IInv => DestructorGetsItsOwn
  BY DEF IInv, Reading, DestructorGetsItsOwn
<1> QED BY <1>1, ThreadKeysInvariant, PTL

(* A thread whose last pass called no destructor has left no value under a
   key with a destructor, unless the key is younger than the pass or its
   entry could not be read. *)
THEOREM AlwaysLeavesNothing == KeysSpec => []LeavesNothing
<1>1. IInv => LeavesNothing
  BY DEF IInv, Swept, LeavesNothing
<1> QED BY <1>1, ThreadKeysInvariant, PTL

=============================================================================
