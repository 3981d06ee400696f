-------------------------- MODULE StreamTableProofs --------------------------
(***************************************************************************)
(* Theorems about StreamTable, for any number of threads, slots and        *)
(* handles: the invariants TableExact and HandlesAccounted.                *)
(***************************************************************************)
EXTENDS StreamTable, TLAPS, FiniteSetTheorems, WellFoundedInduction

-----------------------------------------------------------------------------
(* The inductive invariant. *)

One == {<<s>> : s \in Slots}
Two == {<<r, s>> : r \in Slots, s \in Slots}

(* A call at a place works on as many different slots as the place says, and
   knows the slot it duplicates when it needs it. *)
Fitting(place, slots, from) ==
  /\ place = "user" => slots = <<>>
  /\ place \in {"opening", "naming", "claiming", "duplicating"} => slots \in One
  /\ place = "piping" => slots \in Two
  /\ place = "releasing" => slots \in One \union Two
  /\ slots \in Two => slots[1] # slots[2]
  /\ place \in {"naming", "claiming", "duplicating"} => from \in Slots

Handy == \A t \in Threads : Fitting(pc[t], hand[t], source[t])

(* The slots a call has claimed and not opened yet, or is about to give back,
   belong to nobody. *)
Prepared ==
  \A t \in Threads : pc[t] \in {"opening", "piping", "releasing"} =>
    \A s \in ToSet(hand[t]) \ harmed : s \notin owns[t]

(* A slot that is not harmed has one holder at most, is claimed while it has
   one, and is open while it is owned. *)
Exclusive ==
  \A s \in Slots \ harmed : \A t, u \in Threads :
    s \in Holds(t) /\ s \in Holds(u) => t = u
Marked ==
  \A s \in Slots \ harmed : s \in used <=> \E t \in Threads : s \in Holds(t)
Opened ==
  \A s \in Slots \ harmed : IsOpen(s) <=> \E t \in Threads : s \in owns[t]

(* A stream with a handle has its descriptor. *)
Named == \A s \in Slots : handle[s] # None => s \in bound

IInv ==
  /\ TypeOK /\ Handy /\ Prepared
  /\ Exclusive /\ Marked /\ Opened
  /\ Named /\ HandlesAccounted

-----------------------------------------------------------------------------
(* Min, and the slots of a call. *)

(* The scan finds a slot if there is one. *)
LEMMA MinMember ==
  ASSUME NEW S \in SUBSET Slots, S # {}
  PROVE  Min(S) \in S
<1> DEFINE R == OpToRel(<, Nat)
<1>1. S \subseteq Nat
  BY StreamTableAssumption DEF Slots
<1>2. \A x, y \in Nat : y < x => <<y, x>> \in R
  BY DEF OpToRel
<1>3. IsWellFoundedOn(R, Nat)
  BY NatLessThanWellFounded
<1> HIDE DEF R
<1>4. \E x \in S : \A y \in S : ~ (<<y, x>> \in R)
  BY <1>1, <1>3, WFMin
<1>5. \E x \in S : \A y \in S : x <= y
  <2>1. PICK x \in S : \A y \in S : ~ (<<y, x>> \in R)
    BY <1>4
  <2>2. ASSUME NEW y \in S PROVE x <= y
    <3>1. x \in Nat /\ y \in Nat
      BY <1>1
    <3>2. ~ (y < x)
      BY <1>2, <2>1, <3>1
    <3> QED BY <3>1, <3>2
  <2> QED BY <2>2
<1> QED BY <1>5 DEF Min

(* The slots of a call, as a set. *)
LEMMA Hands ==
  /\ ToSet(<<>>) = {} /\ <<>> \in Seq(Slots)
  /\ \A r \in Slots :
       ToSet(<<r>>) = {r} /\ <<r>> \in Seq(Slots) /\ <<r>> \in One
  /\ \A r, s \in Slots :
       ToSet(<<r, s>>) = {r, s} /\ <<r, s>> \in Seq(Slots) /\ <<r, s>> \in Two
  /\ One \intersect Two = {} /\ <<>> \notin One \union Two
<1>1. ToSet(<<>>) = {} /\ <<>> \in Seq(Slots)
  BY DEF ToSet
<1>2. ASSUME NEW r \in Slots
      PROVE  ToSet(<<r>>) = {r} /\ <<r>> \in Seq(Slots) /\ <<r>> \in One
  BY DEF ToSet, One
<1>3. ASSUME NEW r \in Slots, NEW s \in Slots
      PROVE  ToSet(<<r, s>>) = {r, s} /\ <<r, s>> \in Seq(Slots) /\ <<r, s>> \in Two
  BY DEF ToSet, Two
<1>4. One \intersect Two = {} /\ <<>> \notin One \union Two
  BY DEF One, Two
<1> QED BY <1>1, <1>2, <1>3, <1>4

LEMMA OneSlot ==
  ASSUME NEW slots \in One
  PROVE  /\ slots[1] \in Slots /\ slots = <<slots[1]>> /\ slots \in Seq(Slots)
         /\ ToSet(slots) = {slots[1]} /\ Len(slots) = 1 /\ slots \notin Two
<1>1. PICK s \in Slots : slots = <<s>>
  BY DEF One
<1>2. slots[1] = s /\ Len(slots) = 1
  BY <1>1
<1> QED BY <1>1, <1>2, Hands

LEMMA TwoSlots ==
  ASSUME NEW slots \in Two
  PROVE  /\ slots[1] \in Slots /\ slots[2] \in Slots
         /\ slots = <<slots[1], slots[2]>> /\ slots \in Seq(Slots)
         /\ ToSet(slots) = {slots[1], slots[2]}
         /\ Len(slots) = 2 /\ Tail(slots) = <<slots[2]>>
<1>1. PICK r \in Slots, s \in Slots : slots = <<r, s>>
  BY DEF Two
<1>2. slots[1] = r /\ slots[2] = s /\ Len(slots) = 2 /\ Tail(slots) = <<s>>
  BY <1>1
<1> QED BY <1>1, <1>2, Hands

(* Unused slots belong to nobody, unless they are harmed. *)
LEMMA UnusedFree ==
  ASSUME IInv, NEW s \in Unused, s \notin harmed
  PROVE  /\ \A u \in Threads : s \notin Holds(u) /\ s \notin owns[u]
         /\ ~IsOpen(s)
<1>1. s \in Slots /\ s \notin used
  BY DEF Unused
<1>2. \A u \in Threads : s \notin Holds(u)
  BY <1>1 DEF IInv, Marked
<1>3. \A u \in Threads : s \notin owns[u]
  BY <1>2 DEF Holds
<1> QED BY <1>1, <1>2, <1>3 DEF IInv, Opened

-----------------------------------------------------------------------------
(* What one thread's step leaves alone. *)

Others(t) ==
  \A u \in Threads \ {t} :
    /\ pc'[u] = pc[u] /\ hand'[u] = hand[u] /\ owns'[u] = owns[u]
    /\ source'[u] = source[u] /\ Holds(u)' = Holds(u)

(* Holds of the thread that moves. *)
LEMMA EnterHolds ==
  ASSUME TypeOK, NEW t \in Threads, NEW place, NEW slots, Enter(t, place, slots),
         source' \in [Threads -> Slots \union {None}],
         owns' \in [Threads -> SUBSET Slots],
         \A u \in Threads \ {t} : owns'[u] = owns[u] /\ source'[u] = source[u]
  PROVE  /\ pc'[t] = place /\ hand'[t] = slots
         /\ Others(t)
         /\ place = "naming" => Holds(t)' = owns'[t]
         /\ place # "naming" => Holds(t)' = owns'[t] \union ToSet(slots)
<1>1. /\ pc'[t] = place /\ hand'[t] = slots
      /\ \A u \in Threads \ {t} : pc'[u] = pc[u] /\ hand'[u] = hand[u]
  BY DEF Enter, TypeOK
<1>2. ASSUME NEW u \in Threads \ {t}
      PROVE  Holds(u)' = Holds(u)
  BY <1>1, Zenon DEF Holds
<1>3. Others(t)
  BY <1>1, <1>2, Zenon DEF Others
<1>4. /\ place = "naming" => Holds(t)' = owns'[t]
      /\ place # "naming" => Holds(t)' = owns'[t] \union ToSet(slots)
  BY <1>1 DEF Holds
<1> QED BY <1>1, <1>3, <1>4

(* A step into a fitting place keeps the places fitting. *)
LEMMA EnterFits ==
  ASSUME TypeOK, Handy, NEW t \in Threads, NEW place \in Places,
         NEW slots \in Seq(Slots), Enter(t, place, slots),
         \A u \in Threads \ {t} : source'[u] = source[u],
         Fitting(place, slots, source'[t])
  PROVE  /\ pc' \in [Threads -> Places] /\ hand' \in [Threads -> Seq(Slots)]
         /\ Handy'
<1>1. /\ pc' \in [Threads -> Places] /\ hand' \in [Threads -> Seq(Slots)]
      /\ pc'[t] = place /\ hand'[t] = slots
      /\ \A u \in Threads \ {t} : pc'[u] = pc[u] /\ hand'[u] = hand[u]
  BY DEF Enter, TypeOK
<1>2. ASSUME NEW u \in Threads
      PROVE  Fitting(pc'[u], hand'[u], source'[u])
  <2>1. CASE u = t
    BY <1>1, <2>1
  <2>2. CASE u # t
    BY <1>1, <2>2 DEF Handy
  <2> QED BY <2>1, <2>2
<1> QED BY <1>1, <1>2 DEF Handy

(* A step of t keeps the table exact if it takes only slots nobody else
   holds, marks what it holds and nothing it lets go, and owns what it
   leaves open. *)
LEMMA Exactness ==
  ASSUME IInv, NEW t \in Threads, harmed \subseteq harmed', Others(t),
         \A s \in Slots \ harmed' :
           /\ s \in Holds(t)' /\ s \notin Holds(t) =>
                \A u \in Threads \ {t} : s \notin Holds(u)
           /\ s \in used' <=> (s \in used /\ s \notin Holds(t)) \/ s \in Holds(t)'
           /\ IsOpen(s)' <=> (IsOpen(s) /\ s \notin owns[t]) \/ s \in owns'[t]
  PROVE  Exclusive' /\ Marked' /\ Opened'
<1> USE DEF IInv
<1>1. \A u \in Threads : owns[u] \subseteq Holds(u)
  BY DEF Holds
<1>2. Exclusive'
  BY DEF Exclusive, Others
<1>3. Marked'
  BY DEF Exclusive, Marked, Others
<1>4. Opened'
  <2>1. ASSUME NEW s \in Slots \ harmed'
        PROVE  IsOpen(s)' <=> \E u \in Threads : s \in owns'[u]
    <3>1. IsOpen(s) <=> \E u \in Threads : s \in owns[u]
      BY DEF Opened
    <3>2. \A u \in Threads \ {t} : s \in owns[u] => s \notin owns[t]
      BY <1>1 DEF Exclusive
    <3>3. \A u \in Threads \ {t} : owns'[u] = owns[u]
      BY DEF Others
    <3> QED BY <3>1, <3>2, <3>3
  <2> QED BY <2>1 DEF Opened
<1> QED BY <1>2, <1>3, <1>4

(* The slots being prepared by other threads stay theirs alone. *)
LEMMA PreparedStep ==
  ASSUME Prepared, NEW t \in Threads, harmed \subseteq harmed', Others(t),
         pc'[t] \in {"opening", "piping", "releasing"} =>
           \A s \in ToSet(hand'[t]) \ harmed' : s \notin owns'[t]
  PROVE  Prepared'
BY DEF Prepared, Others

(* Handles that are not touched stay accounted for. *)
LEMMA SameHandles ==
  ASSUME IInv, UNCHANGED streams, harmed \subseteq harmed'
  PROVE  Named' /\ HandlesAccounted'
<1>1. handle' = handle /\ bound' = bound /\ native' = native
  BY DEF streams
<1>2. harmed' = {} => harmed = {}
  OBVIOUS
<1> QED BY <1>1, <1>2 DEF IInv, Named, HandlesAccounted

-----------------------------------------------------------------------------
(* Every action preserves the invariant. *)

(* What a thread outside every call holds. *)
LEMMA UserHolds ==
  ASSUME IInv, NEW t \in Threads, pc[t] = "user"
  PROVE  hand[t] = <<>> /\ Holds(t) = owns[t]
<1>1. hand[t] = <<>>
  BY DEF IInv, Handy, Fitting
<1> QED BY <1>1, Hands DEF Holds

(* A call that claims free slots: fopen and _open, _pipe, _dup. *)
LEMMA ClaimSlots ==
  ASSUME IInv, NEW t \in Threads, pc[t] = "user",
         NEW place \in Places \ {"naming", "user"}, NEW slots \in One \union Two,
         ToSet(slots) \subseteq Unused,
         used' = used \union ToSet(slots), Enter(t, place, slots),
         Fitting(place, slots, source'[t]),
         source' \in [Threads -> Slots \union {None}],
         \A u \in Threads \ {t} : source'[u] = source[u],
         UNCHANGED <<streams, owns, harmed>>
  PROVE  IInv'
<1>1. hand[t] = <<>> /\ Holds(t) = owns[t]
  BY UserHolds
<1>2. slots \in Seq(Slots) /\ ToSet(slots) \subseteq Slots
  BY OneSlot, TwoSlots DEF Unused
<1>3. /\ owns' = owns /\ harmed' = harmed /\ handle' = handle /\ bound' = bound
      /\ native' = native /\ owns' \in [Threads -> SUBSET Slots]
  BY DEF streams, IInv, TypeOK
<1>4. /\ pc'[t] = place /\ hand'[t] = slots /\ Others(t)
      /\ Holds(t)' = owns[t] \union ToSet(slots)
  BY <1>3, EnterHolds DEF IInv
<1>5. /\ pc' \in [Threads -> Places] /\ hand' \in [Threads -> Seq(Slots)]
      /\ Handy'
  BY <1>2, EnterFits DEF IInv
<1>6. TypeOK'
  BY <1>2, <1>3, <1>5 DEF IInv, TypeOK
<1>7. \A s \in ToSet(slots) \ harmed : \A u \in Threads : s \notin Holds(u)
  BY UnusedFree
<1>8. Exclusive' /\ Marked' /\ Opened'
  <2>1. ASSUME NEW s \in Slots \ harmed'
        PROVE  /\ s \in Holds(t)' /\ s \notin Holds(t) =>
                    \A u \in Threads \ {t} : s \notin Holds(u)
               /\ s \in used' <=> (s \in used /\ s \notin Holds(t)) \/ s \in Holds(t)'
               /\ IsOpen(s)' <=> (IsOpen(s) /\ s \notin owns[t]) \/ s \in owns'[t]
    <3>1. s \in owns[t] => s \in used /\ IsOpen(s)
      BY <1>1, <1>3 DEF IInv, Marked, Opened
    <3>2. IsOpen(s)' <=> IsOpen(s)
      BY <1>3 DEF IsOpen
    <3> QED BY <1>1, <1>3, <1>4, <1>7, <3>1, <3>2
  <2> QED BY <1>3, <1>4, <2>1, Exactness
<1>9. Prepared'
  <2>1. \A s \in ToSet(slots) \ harmed : s \notin owns[t]
    BY <1>1, <1>7
  <2> QED BY <1>3, <1>4, <2>1, PreparedStep DEF IInv
<1>10. Named' /\ HandlesAccounted'
  BY <1>3, SameHandles
<1> QED BY <1>5, <1>6, <1>8, <1>9, <1>10 DEF IInv

LEMMA ClaimInv ==
  ASSUME IInv, NEW t \in Threads, Claim(t)
  PROVE  IInv'
<1> DEFINE s == Min(Unused)
<1>1. s \in Slots /\ s \in Unused
  BY MinMember DEF Claim, Unused
<1>2. /\ pc[t] = "user" /\ used' = used \union {s} /\ Enter(t, "opening", <<s>>)
      /\ UNCHANGED <<streams, source, owns, harmed>>
  BY DEF Claim
<1> HIDE DEF s
<1>3. <<s>> \in One /\ ToSet(<<s>>) = {s} /\ <<s>> \notin Two
  BY <1>1, Hands
<1>4. Fitting("opening", <<s>>, source'[t])
  BY <1>3 DEF Fitting
<1>5. source' = source /\ source \in [Threads -> Slots \union {None}]
  BY <1>2 DEF IInv, TypeOK
<1> QED BY <1>1, <1>2, <1>3, <1>4, <1>5, ClaimSlots DEF Places

LEMMA DupInv ==
  ASSUME IInv, NEW t \in Threads, NEW r \in Slots, Dup(t, r)
  PROVE  IInv'
<1> DEFINE s == Min(Unused)
<1>1. s \in Slots /\ s \in Unused
  BY MinMember DEF Dup, Unused
<1>2. /\ pc[t] = "user" /\ used' = used \union {s} /\ Enter(t, "claiming", <<s>>)
      /\ source' = [source EXCEPT ![t] = r]
      /\ UNCHANGED <<streams, owns, harmed>>
  BY DEF Dup
<1> HIDE DEF s
<1>3. <<s>> \in One /\ ToSet(<<s>>) = {s} /\ <<s>> \notin Two
  BY <1>1, Hands
<1>4. /\ source' \in [Threads -> Slots \union {None}] /\ source'[t] = r
      /\ \A u \in Threads \ {t} : source'[u] = source[u]
  BY <1>2 DEF IInv, TypeOK
<1>5. Fitting("claiming", <<s>>, source'[t])
  BY <1>3, <1>4 DEF Fitting
<1> QED BY <1>1, <1>2, <1>3, <1>4, <1>5, ClaimSlots DEF Places

LEMMA ClaimPairInv ==
  ASSUME IInv, NEW t \in Threads, ClaimPair(t)
  PROVE  IInv'
<1> DEFINE r == Min(Unused)
           rest == Unused \ {r}
           s == Min(rest)
<1>1. r \in Slots /\ r \in Unused
  BY MinMember DEF ClaimPair, Unused
<1>2. pc[t] = "user" /\ UNCHANGED <<streams, source, owns, harmed>>
  BY DEF ClaimPair
<1>3. source' = source /\ source \in [Threads -> Slots \union {None}]
  BY <1>2 DEF IInv, TypeOK
<1>4. CASE rest = {}
  <2>1. used' = used \union {r} /\ Enter(t, "releasing", <<r>>)
    BY <1>4 DEF ClaimPair
  <2> HIDE DEF r
  <2>2. <<r>> \in One /\ ToSet(<<r>>) = {r} /\ <<r>> \notin Two
    BY <1>1, Hands
  <2>3. Fitting("releasing", <<r>>, source'[t])
    BY <2>2 DEF Fitting
  <2> QED BY <1>1, <1>2, <1>3, <2>1, <2>2, <2>3, ClaimSlots DEF Places
<1>5. CASE rest # {}
  <2>1. used' = used \union {r, s} /\ Enter(t, "piping", <<r, s>>)
    BY <1>5 DEF ClaimPair
  <2>2. s \in rest
    BY <1>5, MinMember DEF Unused
  <2>3. s \in Slots /\ s \in Unused /\ s # r
    BY <2>2 DEF Unused
  <2> HIDE DEF r, s
  <2>4. /\ <<r, s>> \in Two /\ ToSet(<<r, s>>) = {r, s} /\ <<r, s>> \notin One
        /\ <<r, s>>[1] = r /\ <<r, s>>[2] = s
    BY <1>1, <2>3, Hands
  <2>5. Fitting("piping", <<r, s>>, source'[t])
    BY <2>3, <2>4 DEF Fitting
  <2> QED BY <1>1, <1>2, <1>3, <2>1, <2>3, <2>4, <2>5, ClaimSlots DEF Places
<1> QED BY <1>4, <1>5

(* What a call that prepares or closes a slot holds. *)
LEMMA CallHolds ==
  ASSUME IInv, NEW t \in Threads, pc[t] \notin {"user", "naming"}
  PROVE  /\ hand[t] \in One \union Two /\ hand[t] \in Seq(Slots)
         /\ hand[t][1] \in Slots /\ hand[t][1] \in ToSet(hand[t])
         /\ ToSet(hand[t]) \subseteq Slots
         /\ Holds(t) = owns[t] \union ToSet(hand[t])
<1>1. pc[t] \in Places
  BY DEF IInv, TypeOK
<1>2. hand[t] \in One \union Two
  BY <1>1 DEF IInv, Handy, Fitting, Places
<1>3. /\ hand[t] \in Seq(Slots) /\ hand[t][1] \in Slots
      /\ hand[t][1] \in ToSet(hand[t]) /\ ToSet(hand[t]) \subseteq Slots
  BY <1>2, OneSlot, TwoSlots
<1> QED BY <1>2, <1>3 DEF Holds

(* A slot a call prepares, unless harmed, has no handle. *)
LEMMA PreparedClosed ==
  ASSUME IInv, NEW t \in Threads, pc[t] \in {"opening", "piping"},
         NEW s \in ToSet(hand[t]) \ harmed
  PROVE  /\ ~IsOpen(s) /\ handle[s] = None
         /\ \A u \in Threads : s \notin owns[u]
<1>1. s \in Slots /\ s \in Holds(t) /\ s \notin owns[t]
  BY CallHolds DEF IInv, Prepared
<1>2. \A u \in Threads \ {t} : s \notin Holds(u)
  BY <1>1 DEF IInv, Exclusive
<1>3. \A u \in Threads : s \notin owns[u]
  BY <1>1, <1>2 DEF Holds
<1>4. ~IsOpen(s)
  BY <1>1, <1>3 DEF IInv, Opened
<1> QED BY <1>1, <1>3, <1>4 DEF IInv, Named, IsOpen

LEMMA OpenSucceedsInv ==
  ASSUME IInv, NEW t \in Threads, OpenSucceeds(t)
  PROVE  IInv'
<1> DEFINE s == hand[t][1]
<1>1. /\ pc[t] = "opening" /\ Enter(t, "user", <<>>)
      /\ used' = used /\ source' = source /\ harmed' = harmed
  BY DEF OpenSucceeds, Return
<1>2. PICK h \in Fresh :
        /\ handle' = [handle EXCEPT ![s] = h]
        /\ native' = native \union {h}
        /\ bound' = bound \union {s}
        /\ owns' = [owns EXCEPT ![t] = @ \union {s}]
  BY DEF OpenSucceeds
<1>3. hand[t] \in One
  BY <1>1 DEF IInv, Handy, Fitting
<1>4. s \in Slots /\ ToSet(hand[t]) = {s} /\ Holds(t) = owns[t] \union {s}
  BY <1>1, <1>3, CallHolds, OneSlot
<1>5. h \in Handles /\ h \notin native /\ h # None
  BY StreamTableAssumption DEF Fresh
<1> HIDE DEF s
<1>6. /\ owns' \in [Threads -> SUBSET Slots] /\ owns'[t] = owns[t] \union {s}
      /\ \A u \in Threads \ {t} : owns'[u] = owns[u] /\ source'[u] = source[u]
      /\ source' \in [Threads -> Slots \union {None}]
  BY <1>1, <1>2, <1>4 DEF IInv, TypeOK
<1>7. /\ handle' \in [Slots -> Handles \union {None}] /\ handle'[s] = h
      /\ \A r \in Slots \ {s} : handle'[r] = handle[r]
  BY <1>2, <1>4, <1>5 DEF IInv, TypeOK
<1>8. pc'[t] = "user" /\ Others(t) /\ Holds(t)' = owns[t] \union {s}
  BY <1>1, <1>6, EnterHolds, Hands DEF IInv
<1>9. Fitting("user", <<>>, source'[t])
  BY Hands DEF Fitting
<1>10. /\ pc' \in [Threads -> Places] /\ hand' \in [Threads -> Seq(Slots)]
       /\ Handy'
  BY <1>1, <1>6, <1>9, EnterFits, Hands DEF IInv, Places
<1>11. TypeOK'
  BY <1>1, <1>2, <1>4, <1>5, <1>6, <1>7, <1>10 DEF IInv, TypeOK
<1>12. Exclusive' /\ Marked' /\ Opened'
  <2>1. ASSUME NEW r \in Slots \ harmed'
        PROVE  /\ r \in Holds(t)' /\ r \notin Holds(t) =>
                    \A u \in Threads \ {t} : r \notin Holds(u)
               /\ r \in used' <=> (r \in used /\ r \notin Holds(t)) \/ r \in Holds(t)'
               /\ IsOpen(r)' <=> (IsOpen(r) /\ r \notin owns[t]) \/ r \in owns'[t]
    <3>1. r \in Holds(t) => r \in used
      BY <1>1 DEF IInv, Marked
    <3>2. r \in owns[t] => IsOpen(r)
      BY <1>1 DEF IInv, Opened
    <3>3. IsOpen(r)' <=> IsOpen(r) \/ r = s
      BY <1>2, <1>5, <1>7 DEF IsOpen
    <3> QED BY <1>1, <1>4, <1>6, <1>8, <3>1, <3>2, <3>3
  <2> QED BY <1>1, <1>8, <2>1, Exactness
<1>13. Prepared'
  BY <1>1, <1>8, PreparedStep DEF IInv
<1>14. Named'
  BY <1>2, <1>7 DEF IInv, Named
<1>15. HandlesAccounted'
  <2>1. harmed = {} => handle[s] = None
    BY <1>1, <1>4, PreparedClosed
  <2>2. \A r \in Slots : handle[r] \in native \/ handle[r] = None
    BY DEF IInv, HandlesAccounted
  <2>3. harmed' = {} => \A g \in native' : \E r \in Slots : handle'[r] = g
    <3>1. SUFFICES ASSUME harmed = {}, NEW g \in native', g # h
                   PROVE  \E r \in Slots : handle'[r] = g
      BY <1>1, <1>4, <1>7
    <3>2. g \in native /\ g # None
      BY <1>2, <3>1, StreamTableAssumption DEF IInv, TypeOK
    <3>3. PICK r \in Slots : handle[r] = g
      BY <3>1, <3>2 DEF IInv, HandlesAccounted
    <3> QED BY <1>7, <2>1, <3>1, <3>2, <3>3
  <2>4. \A r \in Slots : handle'[r] # None => handle'[r] \in native'
    BY <1>2, <1>7, <2>2
  <2>5. \A q, r \in Slots : handle'[q] = handle'[r] /\ q # r => handle'[q] = None
    BY <1>5, <1>7, <2>2 DEF IInv, HandlesAccounted
  <2> QED BY <2>3, <2>4, <2>5 DEF HandlesAccounted
<1> QED BY <1>10, <1>11, <1>12, <1>13, <1>14, <1>15 DEF IInv

LEMMA OpenFailsInv ==
  ASSUME IInv, NEW t \in Threads, OpenFails(t)
  PROVE  IInv'
<1> DEFINE s == hand[t][1]
<1>1. /\ pc[t] = "opening" /\ Enter(t, "releasing", hand[t])
      /\ handle' \in {handle, [handle EXCEPT ![s] = None]}
      /\ used' = used /\ bound' = bound /\ native' = native
      /\ source' = source /\ owns' = owns /\ harmed' = harmed
  BY DEF OpenFails
<1>2. hand[t] \in One
  BY <1>1 DEF IInv, Handy, Fitting
<1>3. /\ s \in Slots /\ ToSet(hand[t]) = {s} /\ Holds(t) = owns[t] \union {s}
      /\ hand[t] \in Seq(Slots) /\ hand[t] \notin Two
  BY <1>1, <1>2, CallHolds, OneSlot
<1> HIDE DEF s
<1>4. /\ owns' \in [Threads -> SUBSET Slots]
      /\ source' \in [Threads -> Slots \union {None}]
      /\ native \subseteq Handles
  BY <1>1 DEF IInv, TypeOK
<1>5. /\ handle' \in [Slots -> Handles \union {None}]
      /\ handle'[s] = handle[s] \/ handle'[s] = None
      /\ \A r \in Slots \ {s} : handle'[r] = handle[r]
  BY <1>1, <1>3 DEF IInv, TypeOK
<1>6. s \notin harmed => handle[s] = None /\ ~IsOpen(s)
  BY <1>1, <1>3, PreparedClosed
<1>7. pc'[t] = "releasing" /\ Others(t) /\ Holds(t)' = owns[t] \union {s}
  BY <1>1, <1>3, <1>4, EnterHolds DEF IInv
<1>8. Fitting("releasing", hand[t], source'[t])
  BY <1>2, <1>3 DEF Fitting
<1>9. /\ pc' \in [Threads -> Places] /\ hand' \in [Threads -> Seq(Slots)]
      /\ Handy'
  BY <1>1, <1>3, <1>8, EnterFits DEF IInv, Places
<1>10. TypeOK'
  BY <1>1, <1>4, <1>5, <1>9 DEF IInv, TypeOK
<1>11. Exclusive' /\ Marked' /\ Opened'
  <2>1. ASSUME NEW r \in Slots \ harmed'
        PROVE  /\ r \in Holds(t)' /\ r \notin Holds(t) =>
                    \A u \in Threads \ {t} : r \notin Holds(u)
               /\ r \in used' <=> (r \in used /\ r \notin Holds(t)) \/ r \in Holds(t)'
               /\ IsOpen(r)' <=> (IsOpen(r) /\ r \notin owns[t]) \/ r \in owns'[t]
    <3>1. r \in Holds(t) => r \in used
      BY <1>1 DEF IInv, Marked
    <3>2. r \in owns[t] => IsOpen(r)
      BY <1>1 DEF IInv, Opened
    <3>3. handle'[r] = handle[r]
      BY <1>1, <1>5, <1>6
    <3>4. IsOpen(r)' <=> IsOpen(r)
      BY <1>1, <3>3 DEF IsOpen
    <3> QED BY <1>1, <1>3, <1>7, <3>1, <3>2, <3>4
  <2> QED BY <1>1, <1>7, <2>1, Exactness
<1>12. Prepared'
  <2>1. hand'[t] = hand[t]
    BY <1>1 DEF Enter, IInv, TypeOK
  <2>2. \A r \in ToSet(hand[t]) \ harmed' : r \notin owns'[t]
    BY <1>1 DEF IInv, Prepared
  <2> QED BY <1>1, <1>7, <2>1, <2>2, PreparedStep DEF IInv
<1>13. Named'
  BY <1>1, <1>5 DEF IInv, Named
<1>14. HandlesAccounted'
  <2>1. harmed' = {} => \A g \in native' : \E r \in Slots : handle'[r] = g
    BY <1>1, <1>5, <1>6 DEF IInv, HandlesAccounted
  <2>2. \A r \in Slots : handle'[r] # None => handle'[r] \in native'
    BY <1>1, <1>5 DEF IInv, HandlesAccounted
  <2>3. \A q, r \in Slots : handle'[q] = handle'[r] /\ q # r => handle'[q] = None
    BY <1>5 DEF IInv, HandlesAccounted
  <2> QED BY <2>1, <2>2, <2>3 DEF HandlesAccounted
<1> QED BY <1>9, <1>10, <1>11, <1>12, <1>13, <1>14 DEF IInv

(* A stream is closed in its slot, which the call keeps: fclose, freopen. *)
LEMMA CloseSlot ==
  ASSUME IInv, NEW t \in Threads, pc[t] = "user", NEW s \in owns[t],
         native' = Without(s), handle' = [handle EXCEPT ![s] = None],
         bound' = bound \ {s}, owns' = [owns EXCEPT ![t] = @ \ {s}],
         NEW place \in {"opening", "releasing"}, Enter(t, place, <<s>>),
         UNCHANGED <<used, source, harmed>>
  PROVE  IInv'
<1>1. s \in Slots /\ owns[t] \subseteq Slots
  BY DEF IInv, TypeOK
<1>2. /\ ToSet(<<s>>) = {s} /\ <<s>> \in One /\ <<s>> \notin Two
      /\ <<s>> \in Seq(Slots)
  BY <1>1, Hands
<1>3. Holds(t) = owns[t]
  BY UserHolds
<1>4. /\ owns' \in [Threads -> SUBSET Slots] /\ owns'[t] = owns[t] \ {s}
      /\ \A u \in Threads \ {t} : owns'[u] = owns[u] /\ source'[u] = source[u]
      /\ source' \in [Threads -> Slots \union {None}]
      /\ native \subseteq Handles /\ bound \subseteq Slots
  BY DEF IInv, TypeOK
<1>5. /\ handle' \in [Slots -> Handles \union {None}] /\ handle'[s] = None
      /\ \A r \in Slots \ {s} : handle'[r] = handle[r]
  BY <1>1 DEF IInv, TypeOK
<1>6. pc'[t] = place /\ hand'[t] = <<s>> /\ Others(t) /\ Holds(t)' = owns[t]
  <2>1. pc'[t] = place /\ hand'[t] = <<s>> /\ Others(t)
        /\ Holds(t)' = owns'[t] \union {s}
    BY <1>2, <1>4, EnterHolds DEF IInv
  <2> QED BY <1>4, <2>1
<1>7. Fitting(place, <<s>>, source'[t])
  BY <1>2 DEF Fitting
<1>8. /\ pc' \in [Threads -> Places] /\ hand' \in [Threads -> Seq(Slots)]
      /\ Handy'
  BY <1>2, <1>4, <1>7, EnterFits DEF IInv, Places
<1>9. TypeOK'
  BY <1>4, <1>5, <1>8 DEF IInv, TypeOK, Without
<1>10. Exclusive' /\ Marked' /\ Opened'
  <2>1. ASSUME NEW r \in Slots \ harmed'
        PROVE  /\ r \in Holds(t)' /\ r \notin Holds(t) =>
                    \A u \in Threads \ {t} : r \notin Holds(u)
               /\ r \in used' <=> (r \in used /\ r \notin Holds(t)) \/ r \in Holds(t)'
               /\ IsOpen(r)' <=> (IsOpen(r) /\ r \notin owns[t]) \/ r \in owns'[t]
    <3>1. r \in Holds(t) => r \in used
      BY DEF IInv, Marked
    <3>2. r \in owns[t] => IsOpen(r)
      BY DEF IInv, Opened
    <3>3. IsOpen(r)' <=> IsOpen(r) /\ r # s
      BY <1>5 DEF IsOpen
    <3> QED BY <1>3, <1>4, <1>6, <3>1, <3>2, <3>3
  <2> QED BY <1>6, <2>1, Exactness
<1>11. Prepared'
  BY <1>2, <1>4, <1>6, PreparedStep DEF IInv
<1>12. Named'
  BY <1>5 DEF IInv, Named
<1>13. HandlesAccounted'
  <2>1. harmed' = {} => \A g \in native' : \E r \in Slots : handle'[r] = g
    BY <1>5 DEF IInv, HandlesAccounted, Without
  <2>2. \A r \in Slots : handle'[r] # None => handle'[r] \in native'
    BY <1>1, <1>5 DEF IInv, HandlesAccounted, Without
  <2>3. \A q, r \in Slots : handle'[q] = handle'[r] /\ q # r => handle'[q] = None
    BY <1>5 DEF IInv, HandlesAccounted
  <2> QED BY <2>1, <2>2, <2>3 DEF HandlesAccounted
<1> QED BY <1>8, <1>9, <1>10, <1>11, <1>12, <1>13 DEF IInv

LEMMA CloseInv ==
  ASSUME IInv, NEW t \in Threads, NEW s \in Slots, Reopen(t, s) \/ Close(t, s)
  PROVE  IInv'
BY CloseSlot DEF Reopen, Close

(* _close refuses only what a harmed slot can be: a slot of its caller that
   is not open. *)
LEMMA CloseRefusedInv ==
  ASSUME IInv, NEW t \in Threads, NEW s \in Slots, CloseRefused(t, s)
  PROVE  IInv'
<1>1. /\ pc[t] = "user" /\ s \in owns[t] /\ ~IsOpen(s)
      /\ owns' = [owns EXCEPT ![t] = @ \ {s}] /\ used' = used
      /\ UNCHANGED streams
      /\ pc' = pc /\ hand' = hand /\ source' = source /\ harmed' = harmed
  BY DEF CloseRefused
<1>2. s \in harmed
  BY <1>1 DEF IInv, Opened
<1>3. hand[t] = <<>> /\ Holds(t) = owns[t]
  BY <1>1, UserHolds
<1>4. Enter(t, "user", <<>>)
  BY <1>1, <1>3 DEF Enter, IInv, TypeOK
<1>5. /\ owns' \in [Threads -> SUBSET Slots] /\ owns'[t] = owns[t] \ {s}
      /\ \A u \in Threads \ {t} : owns'[u] = owns[u] /\ source'[u] = source[u]
      /\ source' \in [Threads -> Slots \union {None}]
  BY <1>1 DEF IInv, TypeOK
<1>6. pc'[t] = "user" /\ Others(t) /\ Holds(t)' = owns[t] \ {s}
  BY <1>4, <1>5, EnterHolds, Hands DEF IInv
<1>7. TypeOK' /\ Handy'
  BY <1>1, <1>5 DEF IInv, TypeOK, Handy, streams
<1>8. Exclusive' /\ Marked' /\ Opened'
  <2>1. ASSUME NEW r \in Slots \ harmed'
        PROVE  /\ r \in Holds(t)' /\ r \notin Holds(t) =>
                    \A u \in Threads \ {t} : r \notin Holds(u)
               /\ r \in used' <=> (r \in used /\ r \notin Holds(t)) \/ r \in Holds(t)'
               /\ IsOpen(r)' <=> (IsOpen(r) /\ r \notin owns[t]) \/ r \in owns'[t]
    <3>1. r \in Holds(t) => r \in used
      BY <1>1 DEF IInv, Marked
    <3>2. r \in owns[t] => IsOpen(r)
      BY <1>1 DEF IInv, Opened
    <3>3. IsOpen(r)' <=> IsOpen(r)
      BY <1>1 DEF IsOpen, streams
    <3> QED BY <1>1, <1>2, <1>3, <1>5, <1>6, <3>1, <3>2, <3>3
  <2> QED BY <1>1, <1>6, <2>1, Exactness
<1>9. Prepared'
  BY <1>1, <1>6, PreparedStep DEF IInv
<1>10. Named' /\ HandlesAccounted'
  BY <1>1, SameHandles
<1> QED BY <1>7, <1>8, <1>9, <1>10 DEF IInv

(* A slot that is given back and is not harmed is nobody's. *)
LEMMA ReleaseInv ==
  ASSUME IInv, NEW t \in Threads, Release(t)
  PROVE  IInv'
<1> DEFINE s == hand[t][1]
<1>1. /\ pc[t] = "releasing" /\ used' = used \ {s}
      /\ UNCHANGED streams /\ source' = source /\ owns' = owns /\ harmed' = harmed
  BY DEF Release
<1>2. /\ hand[t] \in One \union Two /\ s \in Slots /\ s \in ToSet(hand[t])
      /\ Holds(t) = owns[t] \union ToSet(hand[t]) /\ ToSet(hand[t]) \subseteq Slots
  BY <1>1, CallHolds
<1>3. PICK place \in {"user", "releasing"}, slots \in Seq(Slots) :
        /\ Enter(t, place, slots) /\ ToSet(slots) = ToSet(hand[t]) \ {s}
        /\ Fitting(place, slots, source'[t])
  <2>1. CASE hand[t] \in One
    <3>1. Len(hand[t]) = 1 /\ ToSet(hand[t]) = {s}
      BY <2>1, OneSlot
    <3>2. Enter(t, "user", <<>>)
      BY <3>1 DEF Release, Return
    <3>3. ToSet(<<>>) = ToSet(hand[t]) \ {s} /\ Fitting("user", <<>>, source'[t])
      BY <3>1, Hands DEF Fitting
    <3> QED BY <3>2, <3>3, Hands
  <2>2. CASE hand[t] \in Two
    <3>1. /\ hand[t][2] \in Slots /\ ToSet(hand[t]) = {s, hand[t][2]}
          /\ Len(hand[t]) = 2 /\ Tail(hand[t]) = <<hand[t][2]>>
      BY <2>2, TwoSlots
    <3>2. s # hand[t][2]
      BY <2>2 DEF IInv, Handy, Fitting
    <3>3. Enter(t, "releasing", <<hand[t][2]>>)
      <4>1. IF Len(hand[t]) = 1 THEN Return(t)
                                ELSE Enter(t, "releasing", Tail(hand[t]))
        BY DEF Release
      <4>2. ~(Len(hand[t]) = 1)
        BY <3>1
      <4>3. Enter(t, "releasing", Tail(hand[t]))
        BY <4>1, <4>2, Zenon
      <4> QED BY <3>1, <4>3, Zenon
    <3>4. /\ ToSet(<<hand[t][2]>>) = {hand[t][2]} /\ <<hand[t][2]>> \in Seq(Slots)
          /\ <<hand[t][2]>> \in One /\ <<hand[t][2]>> \notin Two
      BY <3>1, Hands
    <3>5. Fitting("releasing", <<hand[t][2]>>, source'[t])
      BY <3>4 DEF Fitting
    <3> QED BY <3>1, <3>2, <3>3, <3>4, <3>5
  <2> QED BY <1>2, <2>1, <2>2
<1> HIDE DEF s
<1>4. /\ owns' \in [Threads -> SUBSET Slots]
      /\ source' \in [Threads -> Slots \union {None}]
      /\ harmed \subseteq harmed' /\ harmed' \subseteq Slots
  BY <1>1, <1>2 DEF IInv, TypeOK
<1>5. /\ pc'[t] = place /\ Others(t)
      /\ Holds(t)' = owns[t] \union (ToSet(hand[t]) \ {s})
  BY <1>1, <1>3, <1>4, EnterHolds DEF IInv
<1>6. /\ pc' \in [Threads -> Places] /\ hand' \in [Threads -> Seq(Slots)]
      /\ Handy'
  BY <1>1, <1>3, EnterFits DEF IInv, Places
<1>7. TypeOK'
  BY <1>1, <1>4, <1>6 DEF IInv, TypeOK, streams
<1>8. Exclusive' /\ Marked' /\ Opened'
  <2>1. ASSUME NEW r \in Slots \ harmed'
        PROVE  /\ r \in Holds(t)' /\ r \notin Holds(t) =>
                    \A u \in Threads \ {t} : r \notin Holds(u)
               /\ r \in used' <=> (r \in used /\ r \notin Holds(t)) \/ r \in Holds(t)'
               /\ IsOpen(r)' <=> (IsOpen(r) /\ r \notin owns[t]) \/ r \in owns'[t]
    <3>1. r \in Holds(t) => r \in used
      BY <1>4 DEF IInv, Marked
    <3>2. r \in owns[t] => IsOpen(r)
      BY <1>4 DEF IInv, Opened
    <3>3. IsOpen(r)' <=> IsOpen(r)
      BY <1>1 DEF IsOpen, streams
    <3>4. r = s => r \notin owns[t]
      BY <1>1, <1>2 DEF IInv, Prepared
    <3> QED BY <1>1, <1>2, <1>5, <3>1, <3>2, <3>3, <3>4
  <2> QED BY <1>4, <1>5, <2>1, Exactness
<1>9. Prepared'
  <2>1. hand'[t] = slots
    BY <1>3, <1>5 DEF Enter, IInv, TypeOK
  <2>2. \A r \in ToSet(slots) \ harmed' : r \notin owns'[t]
    BY <1>1, <1>3 DEF IInv, Prepared
  <2> QED BY <1>4, <1>5, <2>1, <2>2, PreparedStep DEF IInv
<1>10. Named' /\ HandlesAccounted'
  BY <1>1, <1>4, SameHandles
<1> QED BY <1>6, <1>7, <1>8, <1>9, <1>10 DEF IInv

(* A call that fails after claiming goes on to give back what it claimed:
   PipeFails, DuplicateFails. *)
LEMMA FailsInv ==
  ASSUME IInv, NEW t \in Threads, PipeFails(t) \/ DuplicateFails(t)
  PROVE  IInv'
<1>1. /\ pc[t] \in {"piping", "duplicating"} /\ Enter(t, "releasing", hand[t])
      /\ UNCHANGED streams
      /\ used' = used /\ owns' = owns
  BY DEF PipeFails, DuplicateFails
<1>2. /\ hand[t] \in One \union Two /\ hand[t] \in Seq(Slots)
      /\ Holds(t) = owns[t] \union ToSet(hand[t])
  BY <1>1, CallHolds
<1>3. /\ harmed \subseteq harmed' /\ harmed' \subseteq Slots
      /\ \A r \in ToSet(hand[t]) \ harmed' : r \notin owns[t]
  <2>1. CASE PipeFails(t)
    BY <2>1 DEF PipeFails, IInv, TypeOK, Prepared
  <2>2. CASE DuplicateFails(t)
    <3> DEFINE d == hand[t][1]
    <3>1. harmed' = (IF handle[d] # None THEN harmed \union {d} ELSE harmed) /\ d \in Slots
      BY <1>1, <2>2, CallHolds DEF DuplicateFails
    <3>2. ToSet(hand[t]) = {d}
      BY <2>2, OneSlot DEF DuplicateFails, IInv, Handy, Fitting
    <3>3. d \notin harmed' => ~IsOpen(d)
      BY <3>1 DEF IsOpen
    <3>4. d \notin harmed' => d \notin owns[t]
      BY <3>1, <3>3 DEF IInv, Opened
    <3> HIDE DEF d
    <3> QED BY <3>1, <3>2, <3>4 DEF IInv, TypeOK
  <2> QED BY <2>1, <2>2
<1>4. /\ source' \in [Threads -> Slots \union {None}]
      /\ \A u \in Threads \ {t} : source'[u] = source[u]
      /\ owns' \in [Threads -> SUBSET Slots]
  BY <1>1 DEF PipeFails, DuplicateFails, IInv, TypeOK
<1>5. pc'[t] = "releasing" /\ Others(t) /\ Holds(t)' = Holds(t)
  BY <1>1, <1>2, <1>4, EnterHolds DEF IInv
<1>6. Fitting("releasing", hand[t], source'[t])
  BY <1>2 DEF Fitting, IInv, Handy
<1>7. /\ pc' \in [Threads -> Places] /\ hand' \in [Threads -> Seq(Slots)]
      /\ Handy'
  BY <1>1, <1>2, <1>4, <1>6, EnterFits DEF IInv, Places
<1>8. TypeOK'
  BY <1>1, <1>4, <1>7, <1>3 DEF IInv, TypeOK, streams
<1>9. Exclusive' /\ Marked' /\ Opened'
  <2>1. ASSUME NEW r \in Slots \ harmed'
        PROVE  /\ r \in Holds(t)' /\ r \notin Holds(t) =>
                    \A u \in Threads \ {t} : r \notin Holds(u)
               /\ r \in used' <=> (r \in used /\ r \notin Holds(t)) \/ r \in Holds(t)'
               /\ IsOpen(r)' <=> (IsOpen(r) /\ r \notin owns[t]) \/ r \in owns'[t]
    <3>1. r \in Holds(t) => r \in used
      BY <1>1, <1>3 DEF IInv, Marked
    <3>2. r \in owns[t] => IsOpen(r)
      BY <1>1, <1>3 DEF IInv, Opened
    <3>3. IsOpen(r)' <=> IsOpen(r)
      BY <1>1 DEF IsOpen, streams
    <3> QED BY <1>1, <1>5, <3>1, <3>2, <3>3
  <2> QED BY <1>1, <1>5, <1>3, <2>1, Exactness
<1>10. Prepared'
  <2>1. hand'[t] = hand[t]
    BY <1>1 DEF Enter, IInv, TypeOK
  <2> QED BY <1>1, <1>5, <1>3, <2>1, PreparedStep DEF IInv
<1>11. Named' /\ HandlesAccounted'
  BY <1>1, <1>3, SameHandles
<1> QED BY <1>7, <1>8, <1>9, <1>10, <1>11 DEF IInv

LEMMA PipeSucceedsInv ==
  ASSUME IInv, NEW t \in Threads, PipeSucceeds(t)
  PROVE  IInv'
<1> DEFINE p == hand[t][1]
           w == hand[t][2]
<1>1. /\ pc[t] = "piping" /\ Enter(t, "user", <<>>)
      /\ used' = used /\ source' = source /\ harmed' = harmed
  BY DEF PipeSucceeds, Return
<1>2. PICK h \in Fresh : \E k \in Fresh \ {h} :
        /\ handle' = [handle EXCEPT ![p] = h, ![w] = k]
        /\ native' = native \union {h, k}
        /\ bound' = bound \union {p, w}
        /\ owns' = [owns EXCEPT ![t] = @ \union {p, w}]
  BY DEF PipeSucceeds
<1>3. PICK k \in Fresh \ {h} :
        /\ handle' = [handle EXCEPT ![p] = h, ![w] = k]
        /\ native' = native \union {h, k}
        /\ bound' = bound \union {p, w}
        /\ owns' = [owns EXCEPT ![t] = @ \union {p, w}]
  BY <1>2
<1>4. hand[t] \in Two
  BY <1>1 DEF IInv, Handy, Fitting
<1>5. /\ p \in Slots /\ w \in Slots /\ ToSet(hand[t]) = {p, w}
      /\ Holds(t) = owns[t] \union {p, w}
  BY <1>1, <1>4, CallHolds, TwoSlots
<1>6. p # w
  BY <1>4 DEF IInv, Handy, Fitting
<1>7. /\ h \in Handles /\ h \notin native /\ h # None
      /\ k \in Handles /\ k \notin native /\ k # None /\ k # h
  BY StreamTableAssumption DEF Fresh
<1> HIDE DEF p, w
<1>8. /\ owns' \in [Threads -> SUBSET Slots] /\ owns'[t] = owns[t] \union {p, w}
      /\ \A u \in Threads \ {t} : owns'[u] = owns[u] /\ source'[u] = source[u]
      /\ source' \in [Threads -> Slots \union {None}]
  BY <1>1, <1>3, <1>5 DEF IInv, TypeOK
<1>9. /\ handle' \in [Slots -> Handles \union {None}]
      /\ handle'[p] = h /\ handle'[w] = k
      /\ \A r \in Slots \ {p, w} : handle'[r] = handle[r]
  BY <1>3, <1>5, <1>6, <1>7 DEF IInv, TypeOK
<1>10. pc'[t] = "user" /\ Others(t) /\ Holds(t)' = owns[t] \union {p, w}
  BY <1>1, <1>8, EnterHolds, Hands DEF IInv
<1>11. Fitting("user", <<>>, source'[t])
  BY Hands DEF Fitting
<1>12. /\ pc' \in [Threads -> Places] /\ hand' \in [Threads -> Seq(Slots)]
       /\ Handy'
  BY <1>1, <1>8, <1>11, EnterFits, Hands DEF IInv, Places
<1>13. TypeOK'
  BY <1>1, <1>3, <1>5, <1>7, <1>8, <1>9, <1>12 DEF IInv, TypeOK
<1>14. Exclusive' /\ Marked' /\ Opened'
  <2>1. ASSUME NEW r \in Slots \ harmed'
        PROVE  /\ r \in Holds(t)' /\ r \notin Holds(t) =>
                    \A u \in Threads \ {t} : r \notin Holds(u)
               /\ r \in used' <=> (r \in used /\ r \notin Holds(t)) \/ r \in Holds(t)'
               /\ IsOpen(r)' <=> (IsOpen(r) /\ r \notin owns[t]) \/ r \in owns'[t]
    <3>1. r \in Holds(t) => r \in used
      BY <1>1 DEF IInv, Marked
    <3>2. r \in owns[t] => IsOpen(r)
      BY <1>1 DEF IInv, Opened
    <3>3. IsOpen(r)' <=> IsOpen(r) \/ r \in {p, w}
      BY <1>3, <1>7, <1>9 DEF IsOpen
    <3> QED BY <1>1, <1>5, <1>8, <1>10, <3>1, <3>2, <3>3
  <2> QED BY <1>1, <1>10, <2>1, Exactness
<1>15. Prepared'
  BY <1>1, <1>10, PreparedStep DEF IInv
<1>16. Named'
  BY <1>3, <1>9 DEF IInv, Named
<1>17. HandlesAccounted'
  <2>1. harmed = {} => handle[p] = None /\ handle[w] = None
    BY <1>1, <1>5, PreparedClosed
  <2>2. \A r \in Slots : handle[r] \in native \/ handle[r] = None
    BY DEF IInv, HandlesAccounted
  <2>3. harmed' = {} => \A g \in native' : \E r \in Slots : handle'[r] = g
    <3>1. SUFFICES ASSUME harmed = {}, NEW g \in native', g \notin {h, k}
                   PROVE  \E r \in Slots : handle'[r] = g
      BY <1>1, <1>5, <1>9
    <3>2. g \in native /\ g # None
      BY <1>3, <3>1, StreamTableAssumption DEF IInv, TypeOK
    <3>3. PICK r \in Slots : handle[r] = g
      BY <3>1, <3>2 DEF IInv, HandlesAccounted
    <3> QED BY <1>9, <2>1, <3>1, <3>2, <3>3
  <2>4. \A r \in Slots : handle'[r] # None => handle'[r] \in native'
    BY <1>3, <1>9, <2>2
  <2>5. \A q, r \in Slots : handle'[q] = handle'[r] /\ q # r => handle'[q] = None
    BY <1>7, <1>9, <2>2 DEF IInv, HandlesAccounted
  <2> QED BY <2>3, <2>4, <2>5 DEF HandlesAccounted
<1> QED BY <1>12, <1>13, <1>14, <1>15, <1>16, <1>17 DEF IInv

LEMMA Dup2Inv ==
  ASSUME IInv, NEW t \in Threads, NEW s \in Slots, NEW d \in Slots, Dup2(t, s, d)
  PROVE  IInv'
<1>1. /\ pc[t] = "user" /\ source' = [source EXCEPT ![t] = s]
      /\ Enter(t, "naming", <<d>>) /\ UNCHANGED streams
      /\ used' = used /\ owns' = owns /\ harmed' = harmed
  BY DEF Dup2
<1>2. /\ <<d>> \in One /\ <<d>> \notin Two /\ <<d>> \in Seq(Slots)
  BY Hands
<1>3. Holds(t) = owns[t]
  BY <1>1, UserHolds
<1>4. /\ source' \in [Threads -> Slots \union {None}] /\ source'[t] = s
      /\ \A u \in Threads \ {t} : source'[u] = source[u]
      /\ owns' \in [Threads -> SUBSET Slots]
  BY <1>1 DEF IInv, TypeOK
<1>5. pc'[t] = "naming" /\ Others(t) /\ Holds(t)' = Holds(t)
  BY <1>1, <1>3, <1>4, EnterHolds DEF IInv
<1>6. Fitting("naming", <<d>>, source'[t])
  BY <1>2, <1>4 DEF Fitting
<1>7. /\ pc' \in [Threads -> Places] /\ hand' \in [Threads -> Seq(Slots)]
      /\ Handy'
  BY <1>1, <1>2, <1>4, <1>6, EnterFits DEF IInv, Places
<1>8. TypeOK'
  BY <1>1, <1>4, <1>7 DEF IInv, TypeOK, streams
<1>9. Exclusive' /\ Marked' /\ Opened'
  <2>1. ASSUME NEW r \in Slots \ harmed'
        PROVE  /\ r \in Holds(t)' /\ r \notin Holds(t) =>
                    \A u \in Threads \ {t} : r \notin Holds(u)
               /\ r \in used' <=> (r \in used /\ r \notin Holds(t)) \/ r \in Holds(t)'
               /\ IsOpen(r)' <=> (IsOpen(r) /\ r \notin owns[t]) \/ r \in owns'[t]
    <3>1. r \in Holds(t) => r \in used
      BY <1>1 DEF IInv, Marked
    <3>2. r \in owns[t] => IsOpen(r)
      BY <1>1 DEF IInv, Opened
    <3>3. IsOpen(r)' <=> IsOpen(r)
      BY <1>1 DEF IsOpen, streams
    <3> QED BY <1>1, <1>5, <3>1, <3>2, <3>3
  <2> QED BY <1>1, <1>5, <2>1, Exactness
<1>10. Prepared'
  BY <1>1, <1>5, PreparedStep DEF IInv
<1>11. Named' /\ HandlesAccounted'
  BY <1>1, SameHandles
<1> QED BY <1>7, <1>8, <1>9, <1>10, <1>11 DEF IInv

(* _dup2 takes its target from nobody, or the target is harmed. *)
LEMMA ClaimTargetInv ==
  ASSUME IInv, NEW t \in Threads, ClaimTarget(t)
  PROVE  IInv'
<1> DEFINE d == hand[t][1]
           taken == \E u \in Threads \ {t} : d \in Holds(u)
<1>1. /\ pc[t] \in {"naming", "claiming"} /\ Enter(t, "duplicating", hand[t])
      /\ used' = used \union {d}
      /\ harmed' = (IF taken THEN harmed \union {d} ELSE harmed)
      /\ UNCHANGED streams /\ source' = source /\ owns' = owns
  BY DEF ClaimTarget
<1>2. hand[t] \in One /\ source[t] \in Slots
  BY <1>1 DEF IInv, Handy, Fitting
<1>3. /\ d \in Slots /\ ToSet(hand[t]) = {d}
      /\ hand[t] \in Seq(Slots) /\ hand[t] \notin Two
  BY <1>2, OneSlot
<1>4. Holds(t) \subseteq owns[t] \union {d} /\ owns[t] \subseteq Holds(t)
  BY <1>3 DEF Holds
<1> HIDE DEF d
<1>5. /\ owns' \in [Threads -> SUBSET Slots]
      /\ source' \in [Threads -> Slots \union {None}]
      /\ harmed \subseteq harmed' /\ harmed' \subseteq Slots
  BY <1>1, <1>3 DEF IInv, TypeOK
<1>6. pc'[t] = "duplicating" /\ Others(t) /\ Holds(t)' = owns[t] \union {d}
  BY <1>1, <1>3, <1>5, EnterHolds DEF IInv
<1>7. Fitting("duplicating", hand[t], source'[t])
  BY <1>1, <1>2, <1>3 DEF Fitting
<1>8. /\ pc' \in [Threads -> Places] /\ hand' \in [Threads -> Seq(Slots)]
      /\ Handy'
  BY <1>1, <1>3, <1>7, EnterFits DEF IInv, Places
<1>9. TypeOK'
  BY <1>1, <1>3, <1>5, <1>8 DEF IInv, TypeOK, streams
<1>10. d \notin harmed' => \A u \in Threads \ {t} : d \notin Holds(u)
  BY <1>1
<1>11. Exclusive' /\ Marked' /\ Opened'
  <2>1. ASSUME NEW r \in Slots \ harmed'
        PROVE  /\ r \in Holds(t)' /\ r \notin Holds(t) =>
                    \A u \in Threads \ {t} : r \notin Holds(u)
               /\ r \in used' <=> (r \in used /\ r \notin Holds(t)) \/ r \in Holds(t)'
               /\ IsOpen(r)' <=> (IsOpen(r) /\ r \notin owns[t]) \/ r \in owns'[t]
    <3>1. r \in Holds(t) => r \in used
      BY <1>5 DEF IInv, Marked
    <3>2. r \in owns[t] => IsOpen(r)
      BY <1>5 DEF IInv, Opened
    <3>3. IsOpen(r)' <=> IsOpen(r)
      BY <1>1 DEF IsOpen, streams
    <3> QED BY <1>1, <1>4, <1>6, <1>10, <3>1, <3>2, <3>3
  <2> QED BY <1>5, <1>6, <2>1, Exactness
<1>12. Prepared'
  BY <1>5, <1>6, PreparedStep DEF IInv
<1>13. Named' /\ HandlesAccounted'
  BY <1>1, <1>5, SameHandles
<1> QED BY <1>8, <1>9, <1>11, <1>12, <1>13 DEF IInv

LEMMA SourceGoneInv ==
  ASSUME IInv, NEW t \in Threads, SourceGone(t)
  PROVE  IInv'
<1>1. /\ pc[t] = "claiming" /\ Enter(t, "user", <<>>)
      /\ harmed' = harmed \union ToSet(hand[t])
      /\ source' = [source EXCEPT ![t] = None]
      /\ UNCHANGED streams /\ used' = used /\ owns' = owns
  BY DEF SourceGone, Return
<1>2. /\ ToSet(hand[t]) \subseteq Slots
      /\ Holds(t) = owns[t] \union ToSet(hand[t])
  BY <1>1, CallHolds
<1>3. /\ source' \in [Threads -> Slots \union {None}]
      /\ \A u \in Threads \ {t} : source'[u] = source[u]
      /\ owns' \in [Threads -> SUBSET Slots]
      /\ harmed \subseteq harmed' /\ harmed' \subseteq Slots
  BY <1>1, <1>2 DEF IInv, TypeOK
<1>4. pc'[t] = "user" /\ Others(t) /\ Holds(t)' = owns[t]
  <2>1. /\ pc'[t] = "user" /\ Others(t)
        /\ Holds(t)' = owns'[t] \union ToSet(<<>>)
    BY <1>1, <1>3, EnterHolds DEF IInv
  <2>2. ToSet(<<>>) = {} /\ owns'[t] = owns[t]
    BY <1>1, Hands
  <2> QED BY <2>1, <2>2
<1>5. Fitting("user", <<>>, source'[t])
  BY Hands DEF Fitting
<1>6. /\ pc' \in [Threads -> Places] /\ hand' \in [Threads -> Seq(Slots)]
      /\ Handy'
  BY <1>1, <1>3, <1>5, EnterFits, Hands DEF IInv, Places
<1>7. TypeOK'
  BY <1>1, <1>3, <1>6 DEF IInv, TypeOK, streams
<1>8. Exclusive' /\ Marked' /\ Opened'
  <2>1. ASSUME NEW r \in Slots \ harmed'
        PROVE  /\ r \in Holds(t)' /\ r \notin Holds(t) =>
                    \A u \in Threads \ {t} : r \notin Holds(u)
               /\ r \in used' <=> (r \in used /\ r \notin Holds(t)) \/ r \in Holds(t)'
               /\ IsOpen(r)' <=> (IsOpen(r) /\ r \notin owns[t]) \/ r \in owns'[t]
    <3>1. r \in Holds(t) => r \in used
      BY <1>3 DEF IInv, Marked
    <3>2. r \in owns[t] => IsOpen(r)
      BY <1>3 DEF IInv, Opened
    <3>3. IsOpen(r)' <=> IsOpen(r)
      BY <1>1 DEF IsOpen, streams
    <3> QED BY <1>1, <1>2, <1>4, <3>1, <3>2, <3>3
  <2> QED BY <1>3, <1>4, <2>1, Exactness
<1>9. Prepared'
  BY <1>3, <1>4, PreparedStep DEF IInv
<1>10. Named' /\ HandlesAccounted'
  BY <1>1, <1>3, SameHandles
<1> QED BY <1>6, <1>7, <1>8, <1>9, <1>10 DEF IInv

LEMMA DuplicateSucceedsInv ==
  ASSUME IInv, NEW t \in Threads, DuplicateSucceeds(t)
  PROVE  IInv'
<1> DEFINE d == hand[t][1]
<1>1. /\ pc[t] = "duplicating" /\ Enter(t, "user", <<>>)
      /\ source' = [source EXCEPT ![t] = None]
      /\ used' = used /\ harmed' = harmed
  BY DEF DuplicateSucceeds, Return
<1>2. PICK h \in Fresh :
        /\ native' = Without(d) \union {h}
        /\ handle' = [handle EXCEPT ![d] = h]
        /\ bound' = bound \union {d}
        /\ owns' = [owns EXCEPT ![t] = @ \union {d}]
  BY DEF DuplicateSucceeds
<1>3. hand[t] \in One
  BY <1>1 DEF IInv, Handy, Fitting
<1>4. d \in Slots /\ ToSet(hand[t]) = {d} /\ Holds(t) = owns[t] \union {d}
  BY <1>1, <1>3, CallHolds, OneSlot
<1>5. h \in Handles /\ h \notin native /\ h # None
  BY StreamTableAssumption DEF Fresh
<1> HIDE DEF d
<1>6. /\ owns' \in [Threads -> SUBSET Slots] /\ owns'[t] = owns[t] \union {d}
      /\ \A u \in Threads \ {t} : owns'[u] = owns[u] /\ source'[u] = source[u]
      /\ source' \in [Threads -> Slots \union {None}]
  BY <1>1, <1>2, <1>4 DEF IInv, TypeOK
<1>7. /\ handle' \in [Slots -> Handles \union {None}] /\ handle'[d] = h
      /\ \A r \in Slots \ {d} : handle'[r] = handle[r]
  BY <1>2, <1>4, <1>5 DEF IInv, TypeOK
<1>8. pc'[t] = "user" /\ Others(t) /\ Holds(t)' = owns[t] \union {d}
  BY <1>1, <1>6, EnterHolds, Hands DEF IInv
<1>9. Fitting("user", <<>>, source'[t])
  BY Hands DEF Fitting
<1>10. /\ pc' \in [Threads -> Places] /\ hand' \in [Threads -> Seq(Slots)]
       /\ Handy'
  BY <1>1, <1>6, <1>9, EnterFits, Hands DEF IInv, Places
<1>11. TypeOK'
  BY <1>1, <1>2, <1>4, <1>5, <1>6, <1>7, <1>10 DEF IInv, TypeOK, Without
<1>12. Exclusive' /\ Marked' /\ Opened'
  <2>1. ASSUME NEW r \in Slots \ harmed'
        PROVE  /\ r \in Holds(t)' /\ r \notin Holds(t) =>
                    \A u \in Threads \ {t} : r \notin Holds(u)
               /\ r \in used' <=> (r \in used /\ r \notin Holds(t)) \/ r \in Holds(t)'
               /\ IsOpen(r)' <=> (IsOpen(r) /\ r \notin owns[t]) \/ r \in owns'[t]
    <3>1. r \in Holds(t) => r \in used
      BY <1>1 DEF IInv, Marked
    <3>2. r \in owns[t] => IsOpen(r)
      BY <1>1 DEF IInv, Opened
    <3>3. IsOpen(r)' <=> IsOpen(r) \/ r = d
      BY <1>2, <1>5, <1>7 DEF IsOpen
    <3> QED BY <1>1, <1>4, <1>6, <1>8, <3>1, <3>2, <3>3
  <2> QED BY <1>1, <1>8, <2>1, Exactness
<1>13. Prepared'
  BY <1>1, <1>8, PreparedStep DEF IInv
<1>14. Named'
  BY <1>2, <1>7 DEF IInv, Named
<1>15. HandlesAccounted'
  <2>1. \A r \in Slots : handle[r] \in native \/ handle[r] = None
    BY DEF IInv, HandlesAccounted
  <2>2. harmed' = {} => \A g \in native' : \E r \in Slots : handle'[r] = g
    <3>1. SUFFICES ASSUME harmed = {}, NEW g \in native', g # h
                   PROVE  \E r \in Slots : handle'[r] = g
      BY <1>1, <1>4, <1>7
    <3>2. g \in native /\ g # handle[d]
      BY <1>2, <3>1 DEF Without
    <3>3. PICK r \in Slots : handle[r] = g
      BY <3>1, <3>2 DEF IInv, HandlesAccounted
    <3> QED BY <1>7, <3>2, <3>3
  <2>3. \A r \in Slots : handle'[r] # None => handle'[r] \in native'
    BY <1>2, <1>4, <1>7, <2>1 DEF IInv, HandlesAccounted, Without
  <2>4. \A q, r \in Slots : handle'[q] = handle'[r] /\ q # r => handle'[q] = None
    BY <1>5, <1>7, <2>1 DEF IInv, HandlesAccounted
  <2> QED BY <2>2, <2>3, <2>4 DEF HandlesAccounted
<1> QED BY <1>10, <1>11, <1>12, <1>13, <1>14, <1>15 DEF IInv

-----------------------------------------------------------------------------
(* The invariant is inductive. *)

LEMMA InitInv == ASSUME Init PROVE IInv
<1>1. TypeOK
  <2>1. used = {} /\ bound = {} /\ native = {} /\ harmed = {}
    BY DEF Init
  <2>2. /\ handle \in [Slots -> Handles \union {None}]
        /\ pc \in [Threads -> Places] /\ hand \in [Threads -> Seq(Slots)]
        /\ source \in [Threads -> Slots \union {None}]
        /\ owns \in [Threads -> SUBSET Slots]
    BY Hands DEF Init, Places
  <2> QED BY <2>1, <2>2 DEF TypeOK
<1>2. \A t \in Threads :
        /\ pc[t] = "user" /\ hand[t] = <<>> /\ owns[t] = {} /\ Holds(t) = {}
  BY Hands DEF Init, Holds
<1>3. Handy
  BY <1>2, Hands DEF Handy, Fitting
<1>4. Prepared /\ Exclusive
  BY <1>2 DEF Prepared, Exclusive
<1>5. Marked /\ Opened
  BY <1>2 DEF Init, Marked, Opened, IsOpen
<1>6. Named /\ HandlesAccounted
  BY DEF Init, Named, HandlesAccounted
<1> QED BY <1>1, <1>3, <1>4, <1>5, <1>6 DEF IInv

LEMMA IdleInv ==
  ASSUME IInv, UNCHANGED vars
  PROVE  IInv'
<1>1. /\ used' = used /\ handle' = handle /\ bound' = bound /\ native' = native
      /\ pc' = pc /\ hand' = hand /\ source' = source /\ owns' = owns
      /\ harmed' = harmed
  BY DEF vars
<1>2. \A t \in Threads : Holds(t)' = Holds(t)
  BY <1>1 DEF Holds
<1>3. \A s \in Slots : IsOpen(s)' <=> IsOpen(s)
  BY <1>1 DEF IsOpen
<1>4. TypeOK' /\ Handy' /\ Prepared'
  BY <1>1 DEF IInv, TypeOK, Handy, Prepared
<1>5. Exclusive' /\ Marked' /\ Opened'
  BY <1>1, <1>2, <1>3 DEF IInv, Exclusive, Marked, Opened
<1>6. Named' /\ HandlesAccounted'
  BY <1>1 DEF IInv, Named, HandlesAccounted
<1> QED BY <1>4, <1>5, <1>6 DEF IInv

LEMMA NextInv ==
  ASSUME IInv, [Next]_vars
  PROVE  IInv'
<1>1. CASE UNCHANGED vars
  BY <1>1, IdleInv
<1>2. ASSUME NEW t \in Threads,
             \/ Claim(t) \/ OpenSucceeds(t) \/ OpenFails(t) \/ Release(t)
             \/ ClaimPair(t) \/ PipeSucceeds(t) \/ PipeFails(t)
             \/ ClaimTarget(t) \/ SourceGone(t)
             \/ DuplicateSucceeds(t) \/ DuplicateFails(t)
      PROVE  IInv'
  BY <1>2, ClaimInv, OpenSucceedsInv, OpenFailsInv, ReleaseInv, ClaimPairInv,
     PipeSucceedsInv, FailsInv, ClaimTargetInv, SourceGoneInv,
     DuplicateSucceedsInv
<1>3. ASSUME NEW t \in Threads, NEW s \in Slots,
             Reopen(t, s) \/ Close(t, s) \/ CloseRefused(t, s) \/ Dup(t, s)
      PROVE  IInv'
  BY <1>3, CloseInv, CloseRefusedInv, DupInv
<1>4. ASSUME NEW t \in Threads, NEW s \in Slots, NEW d \in Slots, Dup2(t, s, d)
      PROVE  IInv'
  BY <1>4, Dup2Inv
<1> QED BY <1>1, <1>2, <1>3, <1>4 DEF Next

THEOREM StreamTableInvariant == Spec => []IInv
<1>1. Init => IInv
  BY InitInv
<1>2. IInv /\ [Next]_vars => IInv'
  BY NextInv
<1> QED BY <1>1, <1>2, PTL DEF Spec

-----------------------------------------------------------------------------
(* Every slot that no _dup2 has taken from its holder is claimed exactly
   while one thread holds it and open exactly while that thread owns it:
   no path through fopen, freopen, fclose, _pipe, _dup or _dup2, failing or
   not, leaks a slot, shares one or frees one early. *)
THEOREM TableAlwaysExact == Spec => []TableExact
<1>1. ASSUME IInv
      PROVE  TableExact
  <2>1. ASSUME NEW s \in Slots \ harmed
        PROVE  Cardinality({t \in Threads : s \in Holds(t)}) <= 1
    <3> DEFINE holders == {t \in Threads : s \in Holds(t)}
    <3>1. \A v, w \in holders : v = w
      BY <1>1 DEF IInv, Exclusive
    <3> HIDE DEF holders
    <3>2. CASE holders = {}
      <4>1. Cardinality(holders) = 0
        BY <3>2, FS_EmptySet
      <4> QED BY <4>1 DEF holders
    <3>3. CASE holders # {}
      <4>1. PICK v : v \in holders
        BY <3>3
      <4>2. holders = {v}
        BY <3>1, <4>1
      <4>3. Cardinality(holders) = 1
        BY <4>2, FS_Singleton
      <4> QED BY <4>3 DEF holders
    <3> QED BY <3>2, <3>3
  <2>2. ASSUME NEW s \in Slots \ harmed
        PROVE  /\ s \in used <=> {t \in Threads : s \in Holds(t)} # {}
               /\ IsOpen(s) <=> \E t \in Threads : s \in owns[t]
    BY <1>1 DEF IInv, Marked, Opened
  <2>3. TypeOK
    BY <1>1 DEF IInv
  <2> QED BY <2>1, <2>2, <2>3 DEF TableExact
<1> QED BY <1>1, StreamTableInvariant, PTL

(* As long as no _dup2 and no _dup has harmed a slot, no native handle is
   lost: each open one is the handle of a slot.  Harmed or not, no slot keeps
   a handle that is closed and no two have the same. *)
THEOREM HandlesAlwaysAccounted == Spec => []HandlesAccounted
<1>1. IInv => HandlesAccounted
  BY DEF IInv
<1> QED BY <1>1, StreamTableInvariant, PTL

=============================================================================
