-------------------------- MODULE GeneralUtilities --------------------------
(***************************************************************************)
(* The other services of src/stdlib.c with src/platform/windows/heap.c:    *)
(* sorting and searching, the end of the process, the pseudo-random        *)
(* sequence, division, allocation sizes and byte pairs.                    *)
(***************************************************************************)
EXTENDS MultibyteText, FiniteSetsExt, SequencesExt

(* qsort is an insertion sort: the element at `current` moves down while   *)
(* compare says that the one before it is greater.  `rank` stands for the  *)
(* caller's comparison: compare(a, b) has the sign of rank[a] - rank[b].   *)
Exchange(s, i, j) == [s EXCEPT ![i] = s[j], ![j] = s[i]]
RECURSIVE SiftDown(_, _, _)
SiftDown(s, current, rank) ==
  IF current > 1 /\ rank[s[current - 1]] > rank[s[current]]
  THEN SiftDown(Exchange(s, current - 1, current), current - 1, rank)
  ELSE s
RECURSIVE InsertFrom(_, _, _)
InsertFrom(s, index, rank) ==
  IF index > Len(s) THEN s ELSE InsertFrom(SiftDown(s, index, rank), index + 1, rank)
qsort(s, rank) == InsertFrom(s, 2, rank)

(* bsearch halves first .. count - 1, offsets from 0; -1 is NULL.          *)
RECURSIVE Halve(_, _, _, _)
Halve(s, key, first, count) ==
  LET middle == first + (count - first) \div 2
  IN CASE first >= count -> -1
       [] first < count /\ key = s[middle + 1] -> middle
       [] first < count /\ key < s[middle + 1] -> Halve(s, key, first, middle)
       [] OTHER -> Halve(s, key, middle + 1, count)
bsearch(s, key) == Halve(s, key, 0, Len(s))

-----------------------------------------------------------------------------
(* The end of the process: the table of registered functions, what ran so  *)
(* far and the status the process ended with (-1 while it runs).  `does`   *)
(* says what a function does when it is called: nothing, register another  *)
(* one, or call exit itself.                                               *)
Process == [table |-> <<>>, ran |-> <<>>, status |-> -1]

(* Mutation of atexit: one function too many.                              *)
AtexitOneMore(p, f, WCRT_ATEXIT_MAX) ==
  IF Len(p.table) > WCRT_ATEXIT_MAX THEN p ELSE [p EXCEPT !.table = Append(@, f)]

atexit(p, f, WCRT_ATEXIT_MAX) ==
  IF Len(p.table) = WCRT_ATEXIT_MAX THEN p ELSE [p EXCEPT !.table = Append(@, f)]

(* The last function is taken out of the table before it is called; an     *)
(* exit inside it goes on with the rest and does not come back.            *)
RECURSIVE exit(_, _, _, _)
exit(p, status, does, WCRT_ATEXIT_MAX) ==
  LET f == p.table[Len(p.table)]
      taken == [p EXCEPT !.table = SubSeq(@, 1, Len(@) - 1), !.ran = Append(@, f)]
  IN CASE p.table = <<>> -> [p EXCEPT !.status = status]
       [] p.table # <<>> /\ does[f].call = "atexit" ->
            exit(atexit(taken, does[f].of, WCRT_ATEXIT_MAX), status, does, WCRT_ATEXIT_MAX)
       [] p.table # <<>> /\ does[f].call = "exit" ->
            exit(taken, does[f].of, does, WCRT_ATEXIT_MAX)
       [] OTHER -> exit(taken, status, does, WCRT_ATEXIT_MAX)

(* _Exit and abort run nothing.                                            *)
_Exit(p, status) == [p EXCEPT !.status = status]
abort(p) == _Exit(p, 3)

-----------------------------------------------------------------------------
(* Integers.  TLA+ divides towards minus infinity, C towards zero.         *)
abs(n) == IF n < 0 THEN -n ELSE n
div(n, d) ==
  LET quot == (IF (n < 0) = (d < 0) THEN 1 ELSE -1) * (abs(n) \div abs(d))
  IN [quot |-> quot, rem |-> n - quot * d]

(* The pseudo-random step over an unsigned long of `bits` bits; the result *)
(* is its upper half without the highest bit (RAND_MAX is 0x7fff of 32).   *)
rand(state, bits, factor, increment) ==
  LET next == (state * factor + increment) % (2 ^ bits)
  IN [state |-> next, r |-> (next \div 2 ^ (bits \div 2)) % (2 ^ (bits \div 2 - 1))]

(* Sizes: calloc refuses a product that does not fit (0 below), and the    *)
(* heap is never asked for nothing.                                        *)
HeapSize(size) == IF size = 0 THEN 1 ELSE size
calloc(count, size, bits) ==
  IF size # 0 /\ count > (2 ^ bits - 1) \div size THEN 0
  ELSE HeapSize((count * size) % (2 ^ bits))

(* _swab copies complete pairs through two temporaries.                    *)
RECURSIVE SwapPairs(_, _, _, _, _)
SwapPairs(m, s, d, count, index) ==
  IF index >= count - 1 THEN m
  ELSE SwapPairs([[m EXCEPT ![d + index] = m[s + index + 1]] EXCEPT ![d + index + 1] = m[s + index]],
                 s, d, count, index + 2)
_swab(m, s, d, count) == SwapPairs(m, s, d, count, 0)

-----------------------------------------------------------------------------
(* What the services of GeneralUtilities and the conversions of            *)
(* MultibyteText promise (docs/req-0013-stdlib.md).                        *)

(* Sorting: a permutation in order, which also keeps equal elements in     *)
(* theirs (the elements are 1..n, ranked); searching an ordered array      *)
(* finds a key exactly if it is there.                                     *)
SortsAndFinds(ranks) ==
  LET sorted == qsort([i \in DOMAIN ranks |-> i], ranks)
      array == [i \in DOMAIN sorted |-> ranks[sorted[i]]]
  IN /\ ToSet(sorted) = DOMAIN ranks
     /\ \A i, j \in DOMAIN sorted : i < j =>
          \/ array[i] < array[j]
          \/ array[i] = array[j] /\ sorted[i] < sorted[j]
     /\ \A key \in 0..4 :
          LET r == bsearch(array, key)
          IN IF key \in ToSet(array) THEN r \in 0 .. Len(array) - 1 /\ array[r + 1] = key
             ELSE r = -1
     /\ LET whole == Len(ranks) - (Len(ranks) % 2)
            swapped == _swab(ranks, 1, 1, Len(ranks))      \* in place
        IN \A i \in DOMAIN ranks :
             swapped[i] = IF i > whole THEN ranks[i]
                          ELSE ranks[IF i % 2 = 1 THEN i + 1 ELSE i - 1]

-----------------------------------------------------------------------------
(* The end of the process, over the registrations made before exit.        *)
RegisterAll(fs, max) == FoldLeft(LAMBDA p, f : atexit(p, f, max), Process, fs)
Occurrences(f, s) == Cardinality({i \in DOMAIN s : s[i] = f})

(* Every accepted function runs once and nothing else does: later          *)
(* registrations first, one made by a running function next of all.        *)
Expected(fs, does, max) ==
  LET accepted == SubSeq(fs, 1, IF Len(fs) < max THEN Len(fs) ELSE max)
      after(i) == IF does[accepted[i]].call = "atexit"
                  THEN <<accepted[i], does[accepted[i]].of>> ELSE <<accepted[i]>>
  IN FlattenSeq([k \in DOMAIN accepted |-> after(Len(accepted) + 1 - k)])

EndsInOrder(fs, does, max) ==
  LET p == exit(RegisterAll(fs, max), 0, does, max)
      exits == {i \in DOMAIN p.ran : does[p.ran[i]].call = "exit"}
  IN /\ p.ran = Expected(fs, does, max)
     /\ p.table = <<>>
     /\ p.status = IF exits = {} THEN 0 ELSE does[p.ran[Max(exits)]].of
     /\ _Exit(RegisterAll(fs, max), 1).ran = <<>>

-----------------------------------------------------------------------------
(* A text converted piece by piece, each piece continuing at the position  *)
(* the last one left, gives what one conversion of it all gives, up to the *)
(* first unit that does not convert.                                       *)
RECURSIVE Pieces(_, _, _, _)
Pieces(t, i, counts, stored) ==
  LET c == wcsrtombs(t, i, Head(counts))
  IN CASE counts = <<>> -> [stored |-> stored, source |-> i, errno |-> ""]
       [] counts # <<>> /\ (c.source = NULL \/ c.errno # "") ->
            [stored |-> stored \o c.stored, source |-> c.source, errno |-> c.errno]
       [] OTHER -> Pieces(t, c.source, Tail(counts), stored \o c.stored)

Convertible(t) == Min({i \in DOMAIN t : t[i] \notin Bytes} \cup {Len(t) + 1}) - 1

MultibyteCorrect(t) ==
  LET good == SubSeq(t, 1, Convertible(t))
      complete == good = t
  IN /\ \A n, k \in 1..3 :
          LET p == Pieces(t, 0, <<n, k, 9>>, <<>>)
          IN /\ p.stored = IF complete THEN Append(t, 0) ELSE good
             /\ p.errno = IF complete THEN "" ELSE "EILSEQ"
             /\ p.source = IF complete THEN NULL ELSE Len(good)
     /\ \A i \in 0 .. Len(t) :
          LET m == Measured(t, i)
              c == wcsrtombs(t, i, 9)
          IN m.r = c.r /\ m.errno = c.errno
     /\ \A count \in 0..4 :
          LET r == wcstombs(t, count)
          IN /\ Len(r.stored) <= count
             /\ r.r # -1 => /\ Len(r.stored) = IF r.r < count THEN r.r + 1 ELSE count
                            /\ complete \/ count <= Len(good)
                            /\ mbstowcs(SubSeq(t, 1, r.r), count) = r
     /\ \A i \in DOMAIN t : btowc(wctob(t[i])) = IF t[i] \in Bytes THEN t[i] ELSE WEOF

-----------------------------------------------------------------------------
(* The generator visits every state of a narrower type: its factor and     *)
(* increment modulo 2^bits keep the full period.                           *)
RECURSIVE Orbit(_, _, _, _, _)
Orbit(state, seen, bits, factor, increment) ==
  IF state \in seen THEN seen
  ELSE Orbit(rand(state, bits, factor, increment).state, seen \cup {state}, bits, factor, increment)
FullPeriod(bits, factor, increment) ==
  Orbit(1, {}, bits, factor, increment) = 0 .. 2 ^ bits - 1

ArithmeticCorrect(n, d) ==
  /\ d # 0 => LET q == div(n, d)
              IN /\ n = q.quot * d + q.rem /\ abs(q.rem) < abs(d)
                 /\ q.rem # 0 => (q.rem < 0) = (n < 0)
  /\ n >= 0 /\ d >= 0 => calloc(n, d, 4) = IF n * d > 15 THEN 0 ELSE HeapSize(n * d)
=============================================================================
