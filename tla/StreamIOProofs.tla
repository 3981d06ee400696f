--------------------------- MODULE StreamIOProofs ---------------------------
(***************************************************************************)
(* Theorems about StreamIO, for any bytes, texts, counts and files: every  *)
(* way of reading delivers the file in order, positions told lead back,    *)
(* and what is written is read back, however long the file is.             *)
(*                                                                         *)
(* The loops of the code are recursive functions in StreamIO.  That they   *)
(* are functions at all, and what they compute, is shown by induction on   *)
(* the number of turns, as the absence of a least counterexample.          *)
(***************************************************************************)
EXTENDS StreamIO, WellFoundedInduction, SequenceTheorems, FiniteSetTheorems, TLAPS

-----------------------------------------------------------------------------
(* Induction and recursion over the natural numbers.                       *)

(* Every nonempty set of natural numbers has a least element.              *)
LEMMA Least ==
  ASSUME NEW T, T \subseteq Nat, T # {}
  PROVE  \E n \in T : \A k \in T : n <= k
<1> DEFINE R == {ss \in Nat \X Nat : ss[1] < ss[2]}
<1>1. IsWellFoundedOn(R, Nat)
  BY NatLessThanWellFounded DEF OpToRel
<1>2. PICK x \in T : \A y \in T : ~ (<<y, x>> \in R)
  <2> HIDE DEF R
  <2> QED BY <1>1, WFMin
<1>3. \A y \in T : ~(y < x)
  BY <1>2
<1> QED BY <1>3

(* A set that has 0 and with every number the next has every number.       *)
LEMMA Induction ==
  ASSUME NEW T, 0 \in T, \A n \in Nat : n \in T => n + 1 \in T
  PROVE  \A n \in Nat : n \in T
<1> SUFFICES ASSUME NEW k \in Nat, k \notin T PROVE FALSE
  OBVIOUS
<1> DEFINE U == {n \in Nat : n \notin T}
<1>1. PICK n \in U : \A i \in U : n <= i
  BY Least
<1>2. n # 0
  OBVIOUS
<1>3. n - 1 \in Nat /\ n - 1 \notin U
  BY <1>1, <1>2
<1>4. (n - 1) + 1 \in T
  BY <1>3
<1> QED BY <1>4

(* f starts with start and goes on by the steps of D.                      *)
Recursive(f, S, start, D) ==
  /\ f \in [Nat -> S] /\ f[0] = start
  /\ \A n \in Nat : f[n + 1] = D[n + 1][f[n]]

(* A function defined by recursion exists.                                 *)
LEMMA Recursion ==
  ASSUME NEW S, NEW start, NEW D, start \in S, D \in [Nat -> [S -> S]]
  PROVE  \E f : Recursive(f, S, start, D)
<1> DEFINE Part(n, g) == /\ g \in [0..n -> S] /\ g[0] = start
                         /\ \A k \in Nat : k < n => g[k + 1] = D[k + 1][g[k]]
           T == {n \in Nat : \E g : Part(n, g)}
<1>1. 0 \in T
  <2>1. Part(0, [k \in 0..0 |-> start])
    OBVIOUS
  <2> QED BY <2>1
<1>2. ASSUME NEW n \in Nat, n \in T PROVE n + 1 \in T
  <2>1. PICK g : Part(n, g)
    BY <1>2
  <2> DEFINE h == [k \in 0..n + 1 |-> IF k <= n THEN g[k] ELSE D[n + 1][g[n]]]
  <2>2. D[n + 1][g[n]] \in S
    BY <2>1
  <2>3. h \in [0..n + 1 -> S]
    BY <2>1, <2>2
  <2>4. ASSUME NEW k \in Nat, k < n + 1 PROVE h[k + 1] = D[k + 1][h[k]]
    <3>1. CASE k < n
      BY <2>1, <3>1
    <3>2. CASE k = n
      BY <2>1, <3>2
    <3> QED BY <2>4, <3>1, <3>2
  <2>5. h[0] = start
    BY <2>1
  <2>6. Part(n + 1, h)
    BY <2>3, <2>4, <2>5
  <2>7. n + 1 \in Nat
    OBVIOUS
  <2> HIDE DEF Part, h
  <2> QED BY <2>6, <2>7
<1>3. \A n \in Nat : \E g : Part(n, g)
  <2>1. \A n \in Nat : n \in T
    <3> HIDE DEF T
    <3> QED BY <1>1, <1>2, Induction
  <2> QED BY <2>1
<1>4. ASSUME NEW i \in Nat, NEW j \in Nat, i <= j, NEW g, NEW h, Part(i, g), Part(j, h)
      PROVE  \A k \in 0..i : g[k] = h[k]
  <2> DEFINE E == {k \in Nat : k <= i => g[k] = h[k]}
  <2>1. 0 \in E
    BY <1>4
  <2>2. ASSUME NEW k \in Nat, k \in E PROVE k + 1 \in E
    <3> SUFFICES ASSUME k + 1 <= i PROVE g[k + 1] = h[k + 1]
      OBVIOUS
    <3>1. g[k] = h[k]
      BY <2>2
    <3>2. g[k + 1] = D[k + 1][g[k]] /\ h[k + 1] = D[k + 1][h[k]]
      BY <1>4
    <3> QED BY <3>1, <3>2
  <2>3. \A k \in Nat : k \in E
    <3> HIDE DEF E
    <3> QED BY <2>1, <2>2, Induction
  <2> QED BY <2>3
<1> DEFINE G(n) == CHOOSE g : Part(n, g)
           f == [n \in Nat |-> G(n)[n]]
<1>5. \A n \in Nat : Part(n, G(n))
  <2> HIDE DEF Part
  <2> QED BY <1>3
<1> HIDE DEF G
<1>6. f \in [Nat -> S]
  BY <1>5
<1>7. f[0] = start
  BY <1>5
<1>8. ASSUME NEW n \in Nat PROVE f[n + 1] = D[n + 1][f[n]]
  <2>1. G(n + 1)[n + 1] = D[n + 1][G(n + 1)[n]]
    BY <1>5
  <2>2. G(n + 1)[n] = G(n)[n]
    <3>1. Part(n, G(n)) /\ Part(n + 1, G(n + 1))
      BY <1>5
    <3> HIDE DEF Part
    <3>2. \A k \in 0..n : G(n)[k] = G(n + 1)[k]
      BY <3>1, <1>4
    <3> QED BY <3>2
  <2> QED BY <2>1, <2>2
<1>9. Recursive(f, S, start, D)
  BY <1>6, <1>7, <1>8 DEF Recursive
<1> HIDE DEF f
<1> QED BY <1>9

-----------------------------------------------------------------------------
(* The types, and what the orientation says about pushbacks: there is one  *)
(* only where an operation of its kind could leave it.                     *)
Char == Stored \cup {EOF}
Record ==
  [content : Seq(Stored), position : Nat, readable : BOOLEAN, writable : BOOLEAN,
   append : BOOLEAN, binary : BOOLEAN, failing : BOOLEAN, pushback : Char, wide_pushback : Char,
   orientation : {"none", "byte", "wide"}, eof : BOOLEAN, error : BOOLEAN]
Oriented(s) ==
  /\ s.pushback # EOF => s.orientation = "byte"
  /\ s.wide_pushback # EOF => s.orientation = "wide"
Streams == {s \in Record : Oriented(s)}
Outcomes == [m : Streams, r : Char]

LEMMA Characters ==
  ASSUME StreamAssumption
  PROVE
  /\ EOF \notin Stored /\ "wide" # EOF /\ {"CR", "LF", "NUL"} \subseteq Stored /\ Bytes \subseteq Stored
  /\ "CR" # "LF" /\ "CR" # EOF /\ "LF" # EOF
BY DEF StreamAssumption, Stored, EOF

(* What may be changed in a stream without leaving the type.               *)
LEMMA Fields ==
  ASSUME NEW s \in Streams
  PROVE  /\ s \in Record /\ Oriented(s)
         /\ s.content \in Seq(Stored) /\ Len(s.content) \in Nat /\ s.position \in Nat
         /\ s.readable \in BOOLEAN /\ s.writable \in BOOLEAN /\ s.append \in BOOLEAN
         /\ s.binary \in BOOLEAN /\ s.failing \in BOOLEAN /\ s.eof \in BOOLEAN /\ s.error \in BOOLEAN
         /\ s.pushback \in Char /\ s.wide_pushback \in Char
         /\ s.orientation \in {"none", "byte", "wide"}
BY DEF Streams, Record

LEMMA Changes ==
  ASSUME NEW s \in Streams
  PROVE  /\ \A p \in Nat : [s EXCEPT !.position = p] \in Streams
         /\ [s EXCEPT !.error = TRUE] \in Streams
         /\ [s EXCEPT !.eof = TRUE] \in Streams
         /\ [s EXCEPT !.pushback = EOF] \in Streams
         /\ [s EXCEPT !.wide_pushback = EOF] \in Streams
         /\ \A p \in Nat, c \in Seq(Stored) : [s EXCEPT !.position = p, !.content = c] \in Streams
BY DEF Streams, Record, Oriented, Char

(* What follows the first p elements of a sequence, up to the eth.         *)
Part(q, p, e) == SubSeq(q, p + 1, e)

LEMMA Stretch ==
  ASSUME NEW S, NEW q \in Seq(S), NEW p \in Nat, NEW e \in Nat, e <= Len(q)
  PROVE  /\ Part(q, p, e) \in Seq(S)
         /\ Len(Part(q, p, e)) = IF p < e THEN e - p ELSE 0
         /\ \A i \in 1..Len(Part(q, p, e)) : Part(q, p, e)[i] = q[p + i]
<1> DEFINE t == SubSeq(q, p + 1, e)
<1>1. p + 1 \in Int /\ e \in Int /\ \A i \in p + 1 .. e : q[i] \in S
  BY ElementOfSeq, LenProperties
<1>2. PICK k \in Int : k = p + 1
  BY <1>1
<1>3. \A i \in k..e : q[i] \in S
  BY <1>1, <1>2
<1>4. /\ SubSeq(q, k, e) \in Seq(S)
      /\ Len(SubSeq(q, k, e)) = IF k <= e THEN e - k + 1 ELSE 0
      /\ \A i \in 1..e - k + 1 : SubSeq(q, k, e)[i] = q[k + i - 1]
  BY <1>1, <1>3, SubSeqProperties
<1>5. t = SubSeq(q, k, e)
  BY <1>2
<1> HIDE DEF t, Part
<1>6. t \in Seq(S)
  BY <1>4, <1>5
<1>7. Len(t) = IF p < e THEN e - p ELSE 0
  BY <1>2, <1>4, <1>5
<1>8. ASSUME NEW i \in 1..Len(t) PROVE t[i] = q[p + i]
  <2>1. i \in 1..e - k + 1 /\ k + i - 1 = p + i
    BY <1>2, <1>7
  <2> QED BY <1>4, <1>5, <2>1
<1>9. t = Part(q, p, e)
  BY DEF t, Part
<1> QED BY <1>6, <1>7, <1>8, <1>9

(* The bytes of the file from the position on.                             *)
LEMMA FileRead ==
  ASSUME NEW s \in Streams, NEW n \in Nat
  PROVE  LET o == __wcrt_file_read(s, n)
             left == Len(s.content) - s.position
         IN /\ o.r \in Seq(Stored)
            /\ Len(o.r) = IF left <= 0 THEN 0 ELSE IF left <= n THEN left ELSE n
            /\ \A i \in 1..Len(o.r) : o.r[i] = s.content[s.position + i]
            /\ o.m = [s EXCEPT !.position = s.position + Len(o.r)]
            /\ o.m \in Streams
<1> DEFINE end == IF s.position + n < Len(s.content) THEN s.position + n ELSE Len(s.content)
           taken == Part(s.content, s.position, end)
<1>1. /\ s.content \in Seq(Stored) /\ Len(s.content) \in Nat /\ s.position \in Nat
      /\ end \in Nat /\ end <= Len(s.content)
  BY Fields
<1>2. /\ taken \in Seq(Stored) /\ Len(taken) = IF s.position < end THEN end - s.position ELSE 0
      /\ \A i \in 1..Len(taken) : taken[i] = s.content[s.position + i]
  <2> HIDE DEF end
  <2>1. PICK q \in Seq(Stored), p \in Nat, e \in Nat : q = s.content /\ p = s.position /\ e = end
    BY <1>1
  <2>2. e <= Len(q)
    BY <1>1, <2>1
  <2>3. /\ Part(q, p, e) \in Seq(Stored) /\ Len(Part(q, p, e)) = IF p < e THEN e - p ELSE 0
        /\ \A i \in 1..Len(Part(q, p, e)) : Part(q, p, e)[i] = q[p + i]
    BY <2>2, Stretch
  <2> QED BY <2>1, <2>3
<1>3. __wcrt_file_read(s, n) = [m |-> [s EXCEPT !.position = s.position + Len(taken)], r |-> taken]
  BY DEF __wcrt_file_read, Here, Part
<1> HIDE DEF taken
<1>4. Len(taken) \in Nat
  BY <1>2, LenProperties
<1>5. s.position + Len(taken) \in Nat
  BY <1>1, <1>4
<1>6. [s EXCEPT !.position = s.position + Len(taken)] \in Streams
  BY <1>5, Changes
<1>7. Len(taken) = IF Len(s.content) - s.position <= 0 THEN 0
                   ELSE IF Len(s.content) - s.position <= n THEN Len(s.content) - s.position ELSE n
  BY <1>1, <1>2
<1> QED BY <1>2, <1>3, <1>6, <1>7

(* One byte of the file, or none at its end.                               *)
LEMMA ReadOne ==
  ASSUME NEW s \in Streams
  PROVE  /\ s.position >= Len(s.content) => __wcrt_file_read(s, 1) = [m |-> s, r |-> <<>>]
         /\ s.position < Len(s.content) =>
              /\ s.content[s.position + 1] \in Stored
              /\ __wcrt_file_read(s, 1) =
                   [m |-> [s EXCEPT !.position = s.position + 1], r |-> <<s.content[s.position + 1]>>]
<1> DEFINE o == __wcrt_file_read(s, 1)
<1>1. /\ o.r \in Seq(Stored)
      /\ Len(o.r) = IF Len(s.content) - s.position <= 0 THEN 0
                    ELSE IF Len(s.content) - s.position <= 1 THEN Len(s.content) - s.position ELSE 1
      /\ \A i \in 1..Len(o.r) : o.r[i] = s.content[s.position + i]
      /\ o.m = [s EXCEPT !.position = s.position + Len(o.r)]
      /\ o = [m |-> o.m, r |-> o.r]
  BY FileRead DEF __wcrt_file_read
<1>2. /\ s.content \in Seq(Stored) /\ Len(s.content) \in Nat /\ s.position \in Nat
  BY Fields
<1> HIDE DEF o
<1>3. ASSUME s.position >= Len(s.content) PROVE o = [m |-> s, r |-> <<>>]
  <2>1. Len(o.r) = 0
    BY <1>1, <1>2, <1>3
  <2>2. o.r = <<>>
    BY <1>1, <2>1, EmptySeq
  <2>3. [s EXCEPT !.position = s.position + 0] = s
    BY <1>2, Fields DEF Record
  <2> QED BY <1>1, <2>1, <2>2, <2>3
<1>4. ASSUME s.position < Len(s.content)
      PROVE  /\ s.content[s.position + 1] \in Stored
             /\ o = [m |-> [s EXCEPT !.position = s.position + 1], r |-> <<s.content[s.position + 1]>>]
  <2>1. Len(o.r) = 1
    BY <1>1, <1>2, <1>4
  <2>2. o.r[1] = s.content[s.position + 1] /\ o.r[1] \in Stored
    <3>1. 1 \in 1..Len(o.r)
      BY <2>1
    <3>2. o.r[1] = s.content[s.position + 1]
      BY <1>1, <3>1
    <3>3. o.r[1] \in Stored
      BY <1>1, <3>1, ElementOfSeq
    <3> QED BY <3>2, <3>3
  <2>3. o.r = <<o.r[1]>>
    <3>1. PICK q \in Seq(Stored) : q = o.r
      BY <1>1
    <3>2. Len(q) = 1 /\ q[1] \in Stored
      BY <2>1, <2>2, <3>1
    <3>3. q = <<q[1]>>
      BY <3>2
    <3> QED BY <3>1, <3>3
  <2> QED BY <1>1, <2>1, <2>2, <2>3
<1> QED BY <1>3, <1>4 DEF o

-----------------------------------------------------------------------------
(* Every operation leaves a stream of the type.                            *)
Orientations == {"byte", "wide"}

LEMMA Refusals ==
  ASSUME NEW s \in Streams
  PROVE  /\ Err(s) \in Outcomes /\ Err(s).m = [s EXCEPT !.error = TRUE] /\ Err(s).r = EOF
         /\ [m |-> s, r |-> EOF] \in Outcomes
<1>1. EOF \in Char /\ [s EXCEPT !.error = TRUE] \in Streams
  BY Changes DEF Char
<1> QED BY <1>1 DEF Err, Outcomes

(* Binding the orientation changes nothing else, since a stream without    *)
(* one has no pushback to forget.                                          *)
LEMMA Binding ==
  ASSUME NEW s \in Streams, NEW mode \in Orientations
  PROVE  LET o == __wcrt_orient_stream(s, mode)
         IN /\ o \in Streams
            /\ o = [s EXCEPT !.orientation = o.orientation]
            /\ o.orientation = IF s.orientation = "none" THEN mode ELSE s.orientation
            /\ Opposed(o, mode) = Opposed(s, mode)
            /\ ~Opposed(s, mode) => o.orientation = mode
            /\ s.orientation = mode => o = s
            /\ Opposed(s, mode) => o = s /\ s.orientation \in Orientations \ {mode}
<1> DEFINE o == __wcrt_orient_stream(s, mode)
<1>1. s \in Record /\ Oriented(s)
  BY Fields
<1>2. Opposite[mode] \in Orientations \ {mode} /\ mode # "none"
  BY DEF Opposite, Orientations
<1>3. CASE s.orientation = "none"
  <2>1. s.wide_pushback = EOF
    BY <1>1, <1>3 DEF Oriented
  <2>2. o = [[s EXCEPT !.orientation = mode] EXCEPT !.wide_pushback = EOF]
    BY <1>3 DEF __wcrt_orient_stream, __wcrt_reset_stream_conversion
  <2>3. o = [s EXCEPT !.orientation = mode]
    BY <1>1, <2>1, <2>2 DEF Record
  <2>4. [s EXCEPT !.orientation = mode] \in Streams
    BY <1>1, <1>3 DEF Record, Oriented, Orientations, Streams
  <2>5. o.orientation = mode
    BY <1>1, <2>3 DEF Record
  <2> HIDE DEF o
  <2> QED BY <1>2, <1>3, <2>3, <2>4, <2>5 DEF Opposed, Orientations, o
<1>4. CASE s.orientation # "none"
  <2>1. o = s
    BY <1>4 DEF __wcrt_orient_stream
  <2>2. s = [s EXCEPT !.orientation = s.orientation] /\ s.orientation \in Orientations
    BY <1>1, <1>4 DEF Record, Orientations
  <2>3. Opposed(s, mode) => s.orientation # mode
    BY <1>2 DEF Opposed
  <2>4. ~Opposed(s, mode) => s.orientation = mode
    BY <1>2, <2>2 DEF Opposed, Opposite, Orientations
  <2> HIDE DEF o
  <2> QED BY <1>4, <2>1, <2>2, <2>3, <2>4 DEF o
<1> QED BY <1>3, <1>4

LEMMA ungetcType ==
  ASSUME StreamAssumption, NEW s \in Streams, NEW c \in Char
  PROVE  ungetc(c, s) \in Outcomes
<1> DEFINE o == __wcrt_orient_stream(s, "byte")
<1>1. "byte" \in Orientations
  BY DEF Orientations
<1>2. o \in Streams /\ (~Opposed(s, "byte") => o.orientation = "byte")
  BY <1>1, Binding
<1> HIDE DEF o
<1>3. ASSUME ~Opposed(s, "byte")
      PROVE  [m |-> [o EXCEPT !.pushback = c, !.eof = FALSE], r |-> c] \in Outcomes
  BY <1>2, <1>3 DEF Outcomes, Streams, Record, Oriented
<1> QED BY <1>3, Refusals DEF ungetc, o

LEMMA ungetwcType ==
  ASSUME StreamAssumption, NEW s \in Streams, NEW c \in Char \cup {"wide"}
  PROVE  ungetwc(c, s) \in Outcomes
<1> DEFINE o == __wcrt_orient_stream(s, "wide")
<1>1. "wide" \in Orientations
  BY DEF Orientations
<1>2. o \in Streams /\ (~Opposed(o, "wide") => o.orientation = "wide")
  BY <1>1, Binding
<1> HIDE DEF o
<1>3. ASSUME ~Opposed(o, "wide"), c # "wide"
      PROVE  [m |-> [o EXCEPT !.wide_pushback = c, !.eof = FALSE], r |-> c] \in Outcomes
  BY <1>2, <1>3 DEF Outcomes, Streams, Record, Oriented
<1> QED BY <1>2, <1>3, Refusals DEF ungetwc, o

(* What fgetc makes of the byte at a position.                             *)
LEMMA TranslatedType ==
  ASSUME StreamAssumption, NEW s \in Streams, NEW inside \in Outcomes
  PROVE  Translated(__wcrt_file_read(s, 1), inside) \in Outcomes
<1> DEFINE read == __wcrt_file_read(s, 1)
<1>1. ungetc(inside.r, inside.m) \in Outcomes
  BY ungetcType DEF Outcomes
<1>2. "CR" \in Char /\ EOF \in Char /\ Stored \subseteq Char
  BY DEF Char, Stored
<1>3. CASE s.position >= Len(s.content)
  <2>1. read = [m |-> s, r |-> <<>>]
    BY <1>3, ReadOne
  <2>2. [s EXCEPT !.eof = TRUE] \in Streams
    BY Changes
  <2> HIDE DEF read
  <2>3. Translated(read, inside) = [m |-> [s EXCEPT !.eof = TRUE], r |-> EOF]
    BY <2>1 DEF Translated
  <2>4. Translated(read, inside) \in Outcomes
    BY <1>2, <2>2, <2>3 DEF Outcomes
  <2> QED BY <2>4 DEF read
<1>4. CASE s.position < Len(s.content)
  <2> DEFINE c == s.content[s.position + 1]
             after == [s EXCEPT !.position = s.position + 1]
  <2>1. c \in Stored /\ read = [m |-> after, r |-> <<c>>]
    BY <1>4, ReadOne
  <2>2. s.position + 1 \in Nat
    BY Fields
  <2>3. after \in Streams
    BY <2>2, Changes
  <2> HIDE DEF read, c, after
  <2>4. read.r # <<>> /\ read.r[1] = c /\ read.m = after
    BY <2>1
  <2>5. [m |-> after, r |-> c] \in Outcomes
    BY <1>2, <2>1, <2>3 DEF Outcomes
  <2>6. [m |-> ungetc(inside.r, inside.m).m, r |-> "CR"] \in Outcomes
    BY <1>1, <1>2 DEF Outcomes
  <2> QED BY <2>4, <2>5, <2>6 DEF Translated, read
<1>5. s.position \in Nat /\ Len(s.content) \in Nat
  BY Fields
<1> QED BY <1>3, <1>4, <1>5

(* The calls of fgetc inside one another, by how much of the file is left. *)
Inner(s, left) == __wcrt_file_read([s EXCEPT !.position = Len(s.content) - left], 1)
Inside(s) ==
  CHOOSE g : g = [left \in 0..Len(s.content) |-> Translated(Inner(s, left), g[left - 1])]

LEMMA fgetcInside ==
  ASSUME NEW stream \in Streams
  PROVE  LET s == __wcrt_orient_stream(stream, "byte")
             read == __wcrt_file_read(s, 1)
         IN fgetc(stream) = CASE Opposed(s, "byte") \/ ~s.readable -> Err(s)
              [] OTHER ->
                   IF s.pushback # EOF THEN [m |-> [s EXCEPT !.pushback = EOF], r |-> s.pushback]
                   ELSE IF s.failing THEN Err(s)
                   ELSE Translated(read, Inside(s)[Left(read.m)])
BY DEF fgetc, Inside, Inner

LEMMA InnerCalls ==
  ASSUME StreamAssumption, NEW s \in Streams
  PROVE  /\ Inside(s) \in [0..Len(s.content) -> Outcomes]
         /\ \A left \in 0..Len(s.content) :
              Inside(s)[left] = Translated(Inner(s, left), Inside(s)[left - 1])
<1> DEFINE N == Len(s.content)
           start == [m |-> [[s EXCEPT !.position = N] EXCEPT !.eof = TRUE], r |-> EOF]
           D == [n \in Nat |-> [so \in Outcomes |->
                  IF n <= N THEN Translated(Inner(s, n), so) ELSE so]]
<1>1. N \in Nat
  BY Fields
<1>2. \A x : Translated(Inner(s, 0), x) = start
  <2> DEFINE there == [s EXCEPT !.position = N]
  <2>1. there \in Streams /\ there.position = N /\ there.content = s.content
    BY <1>1, Changes, Fields DEF Record
  <2>2. [s EXCEPT !.position = N - 0] = there
    BY <1>1
  <2> HIDE DEF there
  <2>3. Inner(s, 0) = [m |-> there, r |-> <<>>]
    BY <1>1, <2>1, <2>2, ReadOne DEF Inner
  <2>4. ASSUME NEW x PROVE Translated(Inner(s, 0), x) = [m |-> [there EXCEPT !.eof = TRUE], r |-> EOF]
    <3> DEFINE read == Inner(s, 0)
    <3>1. read.r = <<>> /\ read.m = there
      BY <2>3
    <3> HIDE DEF read
    <3>2. Translated(read, x) = [m |-> [there EXCEPT !.eof = TRUE], r |-> EOF]
      BY <3>1 DEF Translated
    <3> QED BY <3>2 DEF read
  <2> QED BY <2>4 DEF there
<1>3. start \in Outcomes
  <2>1. [s EXCEPT !.position = N] \in Streams
    BY <1>1, Changes
  <2>2. [[s EXCEPT !.position = N] EXCEPT !.eof = TRUE] \in Streams
    BY <2>1, Changes
  <2> QED BY <2>2 DEF Outcomes, Char
<1>4. ASSUME NEW n \in Nat, n <= N, NEW so \in Outcomes PROVE Translated(Inner(s, n), so) \in Outcomes
  <2>1. N - n \in Nat
    BY <1>1, <1>4
  <2>2. [s EXCEPT !.position = N - n] \in Streams
    BY <2>1, Changes
  <2> HIDE DEF N
  <2> QED BY <2>2, TranslatedType DEF Inner, N
<1>5. D \in [Nat -> [Outcomes -> Outcomes]]
  BY <1>4
<1> HIDE DEF D
<1>6. PICK r : Recursive(r, Outcomes, start, D)
  <2> HIDE DEF start
  <2> QED BY <1>3, <1>5, Recursion
<1> DEFINE f == [n \in 0..N |-> r[n]]
<1>7. ASSUME NEW n \in 0..N PROVE f[n] \in Outcomes /\ f[n] = Translated(Inner(s, n), f[n - 1])
  <2> HIDE DEF start
  <2>0. r \in [Nat -> Outcomes] /\ r[0] = start /\ \A i \in Nat : r[i + 1] = D[i + 1][r[i]]
    BY <1>6 DEF Recursive
  <2>1. CASE n = 0
    BY <1>1, <1>2, <2>0, <2>1
  <2>2. CASE n # 0
    <3>1. n - 1 \in Nat /\ n <= N /\ n - 1 \in 0..N /\ (n - 1) + 1 = n /\ n \in Nat
      BY <1>1, <2>2
    <3>2. r[n - 1] \in Outcomes /\ r[n] \in Outcomes /\ r[n] = D[n][r[n - 1]]
      BY <2>0, <3>1
    <3>3. D[n][r[n - 1]] = Translated(Inner(s, n), r[n - 1])
      BY <3>1, <3>2 DEF D
    <3>4. f[n] = r[n] /\ f[n - 1] = r[n - 1]
      BY <3>1
    <3> HIDE DEF f
    <3> QED BY <3>2, <3>3, <3>4
  <2> QED BY <2>1, <2>2
<1>8. f = [n \in 0..N |-> Translated(Inner(s, n), f[n - 1])]
  <2>1. f = [n \in 0..N |-> f[n]]
    OBVIOUS
  <2> HIDE DEF f
  <2> QED BY <1>7, <2>1
<1>9. Inside(s) = [n \in 0..N |-> Translated(Inner(s, n), Inside(s)[n - 1])]
  <2> HIDE DEF f
  <2> QED BY <1>8 DEF Inside
<1> HIDE DEF f
<1> DEFINE g == Inside(s)
           T == {n \in Nat : n <= N => g[n] = f[n]}
<1>10. \A n \in 0..N : g[n] = Translated(Inner(s, n), g[n - 1])
  BY <1>9
<1> HIDE DEF g
<1>11. 0 \in T
  BY <1>1, <1>2, <1>7, <1>10
<1>12. ASSUME NEW n \in Nat, n \in T PROVE n + 1 \in T
  <2> SUFFICES ASSUME n + 1 <= N PROVE g[n + 1] = f[n + 1]
    OBVIOUS
  <2>1. n + 1 \in 0..N /\ (n + 1) - 1 = n /\ g[n] = f[n]
    BY <1>1, <1>12
  <2> QED BY <1>7, <1>10, <2>1
<1>13. \A n \in Nat : n \in T
  <2> HIDE DEF T
  <2> QED BY <1>11, <1>12, Induction
<1>14. \A n \in 0..N : g[n] \in Outcomes
  <2>1. \A n \in 0..N : g[n] = f[n]
    BY <1>1, <1>13
  <2> QED BY <1>7, <2>1
<1>15. g \in [0..N -> Outcomes]
  <2>1. g = [n \in 0..N |-> g[n]]
    BY <1>9 DEF g
  <2> QED BY <1>14, <2>1
<1> QED BY <1>10, <1>15 DEF g

(* fgetc and fgetwc give a stream and a character.                         *)
LEMMA fgetcType ==
  ASSUME StreamAssumption, NEW stream \in Streams
  PROVE  fgetc(stream) \in Outcomes
<1> DEFINE s == __wcrt_orient_stream(stream, "byte")
           read == __wcrt_file_read(s, 1)
<1>1. s \in Streams
  BY Binding DEF Orientations
<1> HIDE DEF s
<1>2. [m |-> [s EXCEPT !.pushback = EOF], r |-> s.pushback] \in Outcomes
  BY <1>1, Changes, Fields DEF Outcomes
<1>3. Translated(read, Inside(s)[Left(read.m)]) \in Outcomes
  <2>1. CASE s.position >= Len(s.content)
    <3>1. read = [m |-> s, r |-> <<>>]
      BY <1>1, <2>1, ReadOne
    <3>2. [s EXCEPT !.eof = TRUE] \in Streams
      BY <1>1, Changes
    <3> HIDE DEF read
    <3> QED BY <3>1, <3>2 DEF Translated, Outcomes, Char
  <2>2. CASE s.position < Len(s.content)
    <3>1. read.m = [s EXCEPT !.position = s.position + 1]
      BY <1>1, <2>2, ReadOne
    <3>2. s.position + 1 \in Nat /\ s.position \in Nat /\ Len(s.content) \in Nat
      BY <1>1, Fields
    <3>3. read.m.content = s.content /\ read.m.position = s.position + 1
      BY <1>1, <3>1, Fields DEF Record
    <3> HIDE DEF read
    <3>4. Left(read.m) \in 0..Len(s.content)
      BY <2>2, <3>2, <3>3 DEF Left
    <3>5. Inside(s)[Left(read.m)] \in Outcomes
      BY <1>1, <3>4, InnerCalls
    <3> QED BY <1>1, <3>5, TranslatedType DEF read
  <2> QED BY <1>1, <2>1, <2>2, Fields
<1>4. Err(s) \in Outcomes
  BY <1>1, Refusals
<1>5. fgetc(stream) = IF Opposed(s, "byte") \/ ~s.readable THEN Err(s)
                      ELSE IF s.pushback # EOF THEN [m |-> [s EXCEPT !.pushback = EOF], r |-> s.pushback]
                      ELSE IF s.failing THEN Err(s)
                      ELSE Translated(read, Inside(s)[Left(read.m)])
  BY fgetcInside DEF s
<1> HIDE DEF read
<1> QED BY <1>2, <1>3, <1>4, <1>5

LEMMA WideByteType ==
  ASSUME StreamAssumption, NEW s \in Streams
  PROVE  wcrt_read_wide_byte(s) \in Outcomes
<1>1. CASE s.position >= Len(s.content)
  <2>1. __wcrt_file_read(s, 1) = [m |-> s, r |-> <<>>]
    BY <1>1, ReadOne
  <2>2. [s EXCEPT !.eof = TRUE] \in Streams
    BY Changes
  <2>3. wcrt_read_wide_byte(s) = IF s.failing THEN Err(s) ELSE [m |-> [s EXCEPT !.eof = TRUE], r |-> EOF]
    BY <2>1 DEF wcrt_read_wide_byte
  <2>4. [m |-> [s EXCEPT !.eof = TRUE], r |-> EOF] \in Outcomes
    BY <2>2 DEF Outcomes, Char
  <2> QED BY <2>3, <2>4, Refusals
<1>2. CASE s.position < Len(s.content)
  <2>1. /\ s.content[s.position + 1] \in Stored
        /\ __wcrt_file_read(s, 1) = [m |-> [s EXCEPT !.position = s.position + 1],
                                     r |-> <<s.content[s.position + 1]>>]
    BY <1>2, ReadOne
  <2>2. s.position + 1 \in Nat
    BY Fields
  <2>3. [s EXCEPT !.position = s.position + 1] \in Streams
    BY <2>2, Changes
  <2>4. wcrt_read_wide_byte(s) =
          IF s.failing THEN Err(s)
          ELSE [m |-> [s EXCEPT !.position = s.position + 1], r |-> s.content[s.position + 1]]
    BY <2>1 DEF wcrt_read_wide_byte
  <2>5. [m |-> [s EXCEPT !.position = s.position + 1], r |-> s.content[s.position + 1]] \in Outcomes
    BY <2>1, <2>3 DEF Outcomes, Char
  <2> QED BY <2>4, <2>5, Refusals
<1> QED BY <1>1, <1>2, Fields

LEMMA WideByteKeeps ==
  ASSUME StreamAssumption, NEW s \in Streams
  PROVE  LET o == wcrt_read_wide_byte(s)
         IN /\ o.m.orientation = s.orientation /\ o.m.wide_pushback = s.wide_pushback
            /\ o.m.pushback = s.pushback
<1>0. s \in Record
  BY Fields
<1>1. CASE s.position >= Len(s.content)
  <2>1. __wcrt_file_read(s, 1) = [m |-> s, r |-> <<>>]
    BY <1>1, ReadOne
  <2> QED BY <1>0, <2>1 DEF wcrt_read_wide_byte, Err, Record
<1>2. CASE s.position < Len(s.content)
  <2>1. __wcrt_file_read(s, 1).m = [s EXCEPT !.position = s.position + 1]
    BY <1>2, ReadOne
  <2> QED BY <1>0, <1>2, <2>1, ReadOne DEF wcrt_read_wide_byte, Err, Record
<1> QED BY <1>1, <1>2, Fields

LEMMA fgetwcType ==
  ASSUME StreamAssumption, NEW stream \in Streams
  PROVE  fgetwc(stream) \in Outcomes
<1> DEFINE s == __wcrt_orient_stream(stream, "wide")
           first == wcrt_read_wide_byte(s)
           next == wcrt_read_wide_byte(first.m)
<1>1. s \in Streams /\ (~Opposed(s, "wide") => s.orientation = "wide")
  BY Binding DEF Orientations
<1> HIDE DEF s
<1>2. first \in Outcomes /\ first.m.orientation = s.orientation
  BY <1>1, WideByteType, WideByteKeeps
<1>3. first.m \in Streams
  BY <1>2 DEF Outcomes
<1> HIDE DEF first
<1>4. next \in Outcomes /\ next.m.orientation = s.orientation
  BY <1>2, <1>3, WideByteType, WideByteKeeps
<1>5. next.m \in Streams /\ next.r \in Char /\ "CR" \in Char /\ s.wide_pushback \in Char
  BY <1>1, <1>4, Fields DEF Outcomes, Char, Stored
<1> HIDE DEF next
<1>6. [s EXCEPT !.wide_pushback = EOF] \in Streams
  BY <1>1, Changes
<1>7. ~Opposed(s, "wide") => [next.m EXCEPT !.wide_pushback = next.r] \in Streams
  BY <1>1, <1>4, <1>5 DEF Streams, Record, Oriented
<1>8. [next.m EXCEPT !.eof = @ /\ next.m.error] \in Streams
  BY <1>5 DEF Streams, Record, Oriented
<1>9. fgetwc(stream) =
        IF Opposed(s, "wide") \/ ~s.readable THEN Err(s)
        ELSE IF s.wide_pushback # EOF THEN [m |-> [s EXCEPT !.wide_pushback = EOF], r |-> s.wide_pushback]
        ELSE IF s.binary \/ first.r # "CR" THEN first
        ELSE IF next.r = "LF" THEN next
        ELSE IF next.r # EOF THEN [m |-> [next.m EXCEPT !.wide_pushback = next.r], r |-> "CR"]
        ELSE [m |-> [next.m EXCEPT !.eof = @ /\ next.m.error], r |-> "CR"]
  BY DEF fgetwc, WideTranslated, s, first, next
<1>10. /\ Err(s) \in Outcomes
       /\ [m |-> [s EXCEPT !.wide_pushback = EOF], r |-> s.wide_pushback] \in Outcomes
       /\ ~Opposed(s, "wide") => [m |-> [next.m EXCEPT !.wide_pushback = next.r], r |-> "CR"] \in Outcomes
       /\ [m |-> [next.m EXCEPT !.eof = @ /\ next.m.error], r |-> "CR"] \in Outcomes
  BY <1>1, <1>5, <1>6, <1>7, <1>8, Refusals DEF Outcomes
<1> QED BY <1>2, <1>4, <1>9, <1>10

-----------------------------------------------------------------------------
(* The loop of Gather, turn by turn.                                       *)
Gathered == [m : Streams, r : Seq(Stored), more : BOOLEAN]
GatherFrom(s) == [m |-> s, r |-> <<>>, more |-> TRUE]
Gathering(orientation, line, s) ==
  CHOOSE g : g = [n \in Nat |-> IF n = 0 THEN GatherFrom(s) ELSE Turn(orientation, line, g[n - 1])]

LEMMA GetType ==
  ASSUME StreamAssumption, NEW s \in Streams, NEW orientation
  PROVE  /\ Get(orientation, s) \in Outcomes
         /\ Get(orientation, s).m \in Streams /\ Get(orientation, s).r \in Char
BY fgetcType, fgetwcType DEF Get, Outcomes

LEMMA TurnType ==
  ASSUME StreamAssumption, NEW orientation, NEW line, NEW so \in Gathered
  PROVE  Turn(orientation, line, so) \in Gathered
<1> DEFINE o == Get(orientation, so.m)
<1>1. so.m \in Streams /\ so.r \in Seq(Stored)
  BY DEF Gathered
<1>2. o.m \in Streams /\ o.r \in Char
  BY <1>1, GetType
<1> HIDE DEF o
<1>3. [m |-> o.m, r |-> so.r, more |-> FALSE] \in Gathered
  BY <1>1, <1>2 DEF Gathered
<1>4. ASSUME o.r # EOF PROVE [m |-> o.m, r |-> Append(so.r, o.r), more |-> ~(line /\ o.r = "LF")] \in Gathered
  <2>1. o.r \in Stored
    BY <1>2, <1>4 DEF Char
  <2>2. Append(so.r, o.r) \in Seq(Stored)
    BY <1>1, <2>1, AppendProperties
  <2> QED BY <1>2, <2>2 DEF Gathered
<1> QED BY <1>3, <1>4 DEF Turn, Took, o

LEMMA GatherTurns ==
  ASSUME StreamAssumption, NEW orientation, NEW line, NEW s \in Streams
  PROVE  LET g == Gathering(orientation, line, s)
         IN /\ g \in [Nat -> Gathered]
            /\ g[0] = GatherFrom(s)
            /\ \A n \in Nat : g[n + 1] = Turn(orientation, line, g[n])
            /\ \A n \in Nat : Gather(orientation, line, n, s) = g[n]
<1> DEFINE start == GatherFrom(s)
           Step(so) == Turn(orientation, line, so)
           D == [n \in Nat |-> [so \in Gathered |-> Step(so)]]
           g == Gathering(orientation, line, s)
<1>1. start \in Gathered
  BY DEF Gathered, GatherFrom
<1>2. \A so \in Gathered : Step(so) \in Gathered
  BY TurnType
<1> HIDE DEF start, Step
<1>3. D \in [Nat -> [Gathered -> Gathered]]
  BY <1>2
<1> HIDE DEF D
<1>4. PICK f : Recursive(f, Gathered, start, D)
  BY <1>1, <1>3, Recursion
<1>5. f \in [Nat -> Gathered] /\ f[0] = start /\ \A n \in Nat : f[n + 1] = D[n + 1][f[n]]
  BY <1>4 DEF Recursive
<1>6. ASSUME NEW n \in Nat PROVE f[n] = IF n = 0 THEN start ELSE Step(f[n - 1])
  <2>1. CASE n = 0
    BY <1>5, <2>1
  <2>2. CASE n # 0
    <3>1. n - 1 \in Nat /\ (n - 1) + 1 = n
      BY <2>2
    <3>2. f[n - 1] \in Gathered /\ f[n] = D[n][f[n - 1]]
      BY <1>5, <3>1
    <3> QED BY <2>2, <3>2 DEF D
  <2> QED BY <2>1, <2>2
<1>7. f = [n \in Nat |-> IF n = 0 THEN start ELSE Step(f[n - 1])]
  <2>1. f = [n \in Nat |-> f[n]]
    BY <1>5
  <2> QED BY <1>6, <2>1
<1>8. g = [n \in Nat |-> IF n = 0 THEN start ELSE Step(g[n - 1])]
  BY <1>7 DEF Gathering, Step, start
<1> HIDE DEF g
<1>9. g[0] = start /\ \A n \in Nat : g[n + 1] = Step(g[n])
  <2>1. g[0] = start
    BY <1>8
  <2>2. ASSUME NEW n \in Nat PROVE g[n + 1] = Step(g[n])
    <3>1. n + 1 \in Nat /\ n + 1 # 0 /\ (n + 1) - 1 = n
      OBVIOUS
    <3> QED BY <1>8, <3>1
  <2> QED BY <2>1, <2>2
<1>10. \A n \in Nat : g[n] \in Gathered
  <2> DEFINE T == {n \in Nat : g[n] \in Gathered}
  <2>1. 0 \in T
    BY <1>1, <1>9
  <2>2. \A n \in Nat : n \in T => n + 1 \in T
    BY <1>2, <1>9
  <2>3. \A n \in Nat : n \in T
    <3> HIDE DEF T
    <3> QED BY <2>1, <2>2, Induction
  <2> QED BY <2>3
<1>11. g \in [Nat -> Gathered]
  <2>1. g = [n \in Nat |-> g[n]]
    BY <1>8
  <2> QED BY <1>10, <2>1
<1>12. \A n \in Nat : Gather(orientation, line, n, s) = g[n]
  BY DEF Gather, g, Gathering, GatherFrom
<1> QED BY <1>9, <1>11, <1>12 DEF g, start, Step

LEMMA GatherType ==
  ASSUME StreamAssumption, NEW orientation, NEW line, NEW s \in Streams, NEW n \in Nat
  PROVE  /\ Gather(orientation, line, n, s) \in Gathered
         /\ Gather(orientation, line, n, s).m \in Streams
         /\ Gather(orientation, line, n, s).r \in Seq(Stored)
<1> DEFINE g == Gathering(orientation, line, s)
<1>1. g \in [Nat -> Gathered] /\ Gather(orientation, line, n, s) = g[n]
  BY GatherTurns
<1> HIDE DEF g
<1>2. Gather(orientation, line, n, s) \in Gathered
  BY <1>1
<1> QED BY <1>2 DEF Gathered

LEMMA ReadType ==
  ASSUME StreamAssumption, NEW s \in Streams, NEW n \in Nat
  PROVE  /\ \A garbage : fgets(s, n + 1, garbage).m \in Streams
         /\ fgetws(s, n + 1).m \in Streams
<1>1. (n + 1) - 1 = n
  OBVIOUS
<1> QED BY <1>1, GatherType DEF fgets, fgetws

LEMMA freadType ==
  ASSUME StreamAssumption, NEW stream \in Streams, NEW size \in Nat, NEW count \in Nat
  PROVE  fread(stream, size, count).m \in Streams
<1> DEFINE s == __wcrt_orient_stream(stream, "byte")
           total == size * count
           pushed == IF s.pushback = EOF THEN <<>> ELSE <<s.pushback>>
           read == __wcrt_file_read([s EXCEPT !.pushback = EOF], total - Len(pushed))
           got == pushed \o (IF s.failing THEN <<>> ELSE read.r)
           after == [read.m EXCEPT !.position = IF s.failing THEN s.position ELSE @,
                                   !.error = @ \/ (s.failing /\ Len(got) < total),
                                   !.eof = @ \/ (~s.failing /\ Len(got) < total)]
<1>1. s \in Streams
  BY Binding DEF Orientations
<1>2. fread(stream, size, count).m =
        IF total = 0 THEN stream
        ELSE IF Opposed(s, "byte") \/ ~s.readable THEN Err(s).m
        ELSE IF ~s.binary THEN Gather("byte", FALSE, total, s).m
        ELSE after
  BY DEF fread
<1>3. total \in Nat
  OBVIOUS
<1>4. Gather("byte", FALSE, total, s).m \in Streams
  BY <1>1, <1>3, GatherType
<1>5. ASSUME total # 0 PROVE after \in Streams
  <2>1. Len(pushed) \in 0..1
    <3> HIDE DEF s
    <3> QED OBVIOUS
  <2>2. total - Len(pushed) \in Nat
    BY <1>3, <1>5, <2>1
  <2>3. [s EXCEPT !.pushback = EOF] \in Streams
    BY <1>1, Changes
  <2>4. read.m \in Streams
    BY <2>2, <2>3, FileRead
  <2>5. s.position \in Nat
    BY <1>1, Fields
  <2> HIDE DEF read, got, total, s
  <2> QED BY ZenonT(60), <2>4, <2>5 DEF Streams, Record, Oriented
<1>6. Err(s).m \in Streams
  BY <1>1, Refusals DEF Outcomes
<1> HIDE DEF after, s, total
<1> QED BY <1>2, <1>4, <1>5, <1>6

-----------------------------------------------------------------------------
(* Writing.                                                                *)

(* A byte written at the position, or at the end: it stands there, the     *)
(* others stay, and zeros fill what lies between.                          *)
LEMMA FileWrite ==
  ASSUME StreamAssumption, NEW s \in Streams, NEW c \in Stored
  PROVE  LET o == __wcrt_file_write(s, c)
         IN /\ o \in Streams
            /\ o = [s EXCEPT !.position = o.position, !.content = o.content]
            /\ o.position = At(s) + 1
            /\ Len(o.content) = IF At(s) < Len(s.content) THEN Len(s.content) ELSE At(s) + 1
            /\ At(s) + 1 \in 1..Len(o.content) /\ o.content[At(s) + 1] = c
            /\ \A i \in 1..Len(s.content) :
                 i \in 1..Len(o.content) /\ (i # At(s) + 1 => o.content[i] = s.content[i])
<1> DEFINE o == __wcrt_file_write(s, c)
           size == IF At(s) < Len(s.content) THEN Len(s.content) ELSE At(s) + 1
           q == [i \in 1..size |-> IF i = At(s) + 1 THEN c
                                   ELSE IF i <= Len(s.content) THEN s.content[i] ELSE "NUL"]
<1>1. /\ s \in Record /\ s.content \in Seq(Stored) /\ Len(s.content) \in Nat /\ s.position \in Nat
      /\ \A i \in 1..Len(s.content) : s.content[i] \in Stored
  BY Fields, ElementOfSeq
<1>2. At(s) \in Nat
  BY <1>1 DEF At
<1>3. size \in Nat /\ At(s) + 1 <= size /\ Len(s.content) <= size
  BY <1>1, <1>2
<1>4. o = [s EXCEPT !.position = At(s) + 1, !.content = q]
  BY <1>1 DEF __wcrt_file_write, At
<1> HIDE DEF size, o
<1>5. \A i \in 1..size : q[i] \in Stored
  BY <1>1 DEF Stored
<1>6. q \in Seq(Stored) /\ Len(q) = size
  <2>1. q \in [1..size -> Stored]
    BY <1>5
  <2> HIDE DEF q
  <2> QED BY <1>3, <2>1, IsASeq, LenProperties
<1>7. /\ q[At(s) + 1] = c
      /\ \A i \in 1..Len(s.content) : i \in 1..size /\ (i # At(s) + 1 => q[i] = s.content[i])
  BY <1>1, <1>2, <1>3
<1> HIDE DEF q
<1>8. At(s) + 1 \in Nat
  BY <1>2
<1>9. o \in Streams
  BY <1>4, <1>6, <1>8, Changes
<1>10. o.position = At(s) + 1 /\ o.content = q
  BY <1>1, <1>4 DEF Record
<1>11. o = [s EXCEPT !.position = o.position, !.content = o.content]
  BY <1>4, <1>10
<1> QED BY <1>2, <1>3, <1>6, <1>7, <1>9, <1>10, <1>11 DEF o, size

(* A character written: in text mode a line feed follows a carriage        *)
(* return.  Afterwards the next byte goes where the position is.           *)
(* o is s, with w bytes of c at the place where s writes.                  *)
Rewrites(s, o) == o = [s EXCEPT !.position = o.position, !.content = o.content]
Wrote(s, o, w, c) ==
  /\ o \in Streams /\ Rewrites(s, o)
  /\ o.position = At(s) + w /\ At(o) = o.position
  /\ At(s) + w \in 1..Len(o.content) /\ o.content[At(s) + w] = c
  /\ w = 2 => At(s) + 1 \in 1..Len(o.content) /\ o.content[At(s) + 1] = "CR"
  /\ \A i \in 1..Len(s.content) :
       i \in 1..Len(o.content) /\ (i \notin At(s) + 1..At(s) + w => o.content[i] = s.content[i])

LEMMA Rewritten ==
  ASSUME NEW s \in Record, NEW u, Rewrites(s, u), NEW o, Rewrites(u, o)
  PROVE  Rewrites(s, o) /\ o.append = s.append /\ o.binary = s.binary /\ o.failing = s.failing
<1>1. PICK p, q, r, t : p = u.position /\ q = u.content /\ r = o.position /\ t = o.content
  OBVIOUS
<1>2. u = [s EXCEPT !.position = p, !.content = q] /\ o = [u EXCEPT !.position = r, !.content = t]
  BY <1>1 DEF Rewrites
<1>3. o = [[s EXCEPT !.position = p, !.content = q] EXCEPT !.position = r, !.content = t]
  BY <1>2
<1>4. /\ o = [s EXCEPT !.position = r, !.content = t]
      /\ o.append = s.append /\ o.binary = s.binary /\ o.failing = s.failing
  BY <1>3 DEF Record
<1> QED BY <1>1, <1>4 DEF Rewrites

LEMMA PutOne ==
  ASSUME StreamAssumption, NEW s \in Streams, NEW c \in Stored
  PROVE  Wrote(s, Put(s, c), Width(s, c), c)
<1>0. s \in Record /\ Len(s.content) \in Nat /\ s.position \in Nat /\ "CR" \in Stored
  BY Fields DEF Stored
<1>1. At(s) \in Nat
  BY <1>0 DEF At
<1>2. CASE ~s.binary /\ c = "LF"
  <2> DEFINE u == __wcrt_file_write(s, "CR")
             o == __wcrt_file_write(u, c)
  <2>1. /\ u \in Streams
        /\ u = [s EXCEPT !.position = u.position, !.content = u.content]
        /\ u.position = At(s) + 1
        /\ Len(u.content) = IF At(s) < Len(s.content) THEN Len(s.content) ELSE At(s) + 1
        /\ At(s) + 1 \in 1..Len(u.content) /\ u.content[At(s) + 1] = "CR"
        /\ \A i \in 1..Len(s.content) :
             i \in 1..Len(u.content) /\ (i # At(s) + 1 => u.content[i] = s.content[i])
    BY <1>0, FileWrite
  <2> HIDE DEF u
  <2>2. /\ o \in Streams
        /\ o = [u EXCEPT !.position = o.position, !.content = o.content]
        /\ o.position = At(u) + 1
        /\ Len(o.content) = IF At(u) < Len(u.content) THEN Len(u.content) ELSE At(u) + 1
        /\ At(u) + 1 \in 1..Len(o.content) /\ o.content[At(u) + 1] = c
        /\ \A i \in 1..Len(u.content) :
             i \in 1..Len(o.content) /\ (i # At(u) + 1 => o.content[i] = u.content[i])
    BY <2>1, FileWrite
  <2>3. u.append = s.append
    BY <1>0, <2>1 DEF Record
  <2>4. At(u) = At(s) + 1
    BY <1>0, <2>1, <2>3 DEF At
  <2> HIDE DEF o
  <2>5. o.append = s.append /\ Rewrites(s, o)
    <3>1. Rewrites(s, u) /\ Rewrites(u, o)
      BY <2>1, <2>2 DEF Rewrites
    <3> QED BY <1>0, <3>1, Rewritten
  <2>6. Width(s, c) = 2 /\ Put(s, c) = o
    <3>1. Width(s, c) = 2
      BY <1>2 DEF Width
    <3> QED BY <3>1 DEF Put, o, u
  <2>7. At(s) + 1 + 1 = At(s) + 2 /\ At(s) + 2 \in 1..Len(o.content)
    BY <1>1, <2>2, <2>4
  <2>8. At(o) = o.position
    BY <1>0, <1>1, <2>1, <2>2, <2>4, <2>5 DEF At
  <2>9. At(s) + 1 \in 1..Len(o.content) /\ o.content[At(s) + 1] = "CR"
    BY <1>1, <2>1, <2>2, <2>4
  <2>10. ASSUME NEW i \in 1..Len(s.content)
         PROVE  /\ i \in 1..Len(o.content)
                /\ i \notin At(s) + 1..At(s) + 2 => o.content[i] = s.content[i]
    BY <1>0, <1>1, <2>1, <2>2, <2>4
  <2>11. o.position = At(s) + 2 /\ o.content[At(s) + 2] = c
    BY <1>1, <2>2, <2>4, <2>7
  <2>12. Wrote(s, o, 2, c)
    BY <2>2, <2>5, <2>7, <2>8, <2>9, <2>10, <2>11 DEF Wrote
  <2> QED BY <2>6, <2>12
<1>3. CASE ~(~s.binary /\ c = "LF")
  <2> DEFINE o == __wcrt_file_write(s, c)
  <2>1. /\ o \in Streams
        /\ o = [s EXCEPT !.position = o.position, !.content = o.content]
        /\ o.position = At(s) + 1
        /\ Len(o.content) = IF At(s) < Len(s.content) THEN Len(s.content) ELSE At(s) + 1
        /\ At(s) + 1 \in 1..Len(o.content) /\ o.content[At(s) + 1] = c
        /\ \A i \in 1..Len(s.content) :
             i \in 1..Len(o.content) /\ (i # At(s) + 1 => o.content[i] = s.content[i])
    BY FileWrite
  <2> HIDE DEF o
  <2>2. Width(s, c) = 1 /\ Put(s, c) = o
    <3>1. Width(s, c) = 1
      BY <1>3 DEF Width
    <3> QED BY <3>1 DEF Put, o
  <2>3. o.append = s.append
    BY <1>0, <2>1 DEF Record
  <2>4. At(o) = o.position
    BY <1>0, <1>1, <2>1, <2>3 DEF At
  <2>5. ASSUME NEW i \in 1..Len(s.content)
        PROVE  /\ i \in 1..Len(o.content)
               /\ i \notin At(s) + 1..At(s) + 1 => o.content[i] = s.content[i]
    BY <1>0, <1>1, <2>1
  <2>6. Wrote(s, o, 1, c)
    BY <2>1, <2>4, <2>5 DEF Wrote, Rewrites
  <2> QED BY <2>2, <2>6
<1> QED BY <1>2, <1>3

(* A character the device refuses: at most its carriage return is written, *)
(* where the stream writes, and the stream stands after it.                *)
Half(s, c, taken) == IF taken = "half" /\ Width(s, c) = 2 THEN 1 ELSE 0
Stopped(s, o, h) ==
  /\ o \in Streams /\ Rewrites(s, o) /\ o.position = At(s) + h
  /\ \A i \in 1..Len(s.content) :
       i \in 1..Len(o.content) /\ (i # At(s) + 1 \/ h = 0 => o.content[i] = s.content[i])

LEMMA CutOne ==
  ASSUME StreamAssumption, NEW s \in Streams, NEW c, NEW taken
  PROVE  Stopped(s, Cut(s, c, taken), Half(s, c, taken))
<1>0. s \in Record /\ Len(s.content) \in Nat /\ s.position \in Nat /\ "CR" \in Stored
  BY Fields DEF Stored
<1>1. At(s) \in Nat
  BY <1>0 DEF At
<1>2. CASE taken = "half" /\ Width(s, c) = 2
  <2> DEFINE u == __wcrt_file_write(s, "CR")
  <2>1. /\ u \in Streams
        /\ u = [s EXCEPT !.position = u.position, !.content = u.content]
        /\ u.position = At(s) + 1
        /\ Len(u.content) = IF At(s) < Len(s.content) THEN Len(s.content) ELSE At(s) + 1
        /\ \A i \in 1..Len(s.content) :
             i \in 1..Len(u.content) /\ (i # At(s) + 1 => u.content[i] = s.content[i])
    BY <1>0, FileWrite
  <2> HIDE DEF u
  <2>2. u.append = s.append /\ u \in Record
    BY <1>0, <2>1, Fields DEF Record
  <2>3. At(u) = u.position
    BY <1>0, <1>1, <2>1, <2>2 DEF At
  <2>4. [u EXCEPT !.position = At(u)] = u
    BY <2>2, <2>3 DEF Record
  <2>5. Cut(s, c, taken) = u /\ Half(s, c, taken) = 1
    BY <1>2, <2>4 DEF Cut, Half, u
  <2>6. Stopped(s, u, 1)
    BY <2>1 DEF Stopped, Rewrites
  <2> QED BY <2>5, <2>6
<1>3. CASE ~(taken = "half" /\ Width(s, c) = 2)
  <2>1. PICK o : o = [s EXCEPT !.position = At(s)]
    OBVIOUS
  <2>2. Cut(s, c, taken) = o /\ Half(s, c, taken) = 0
    BY <1>3, <2>1 DEF Cut, Half
  <2>3. o \in Streams
    BY <1>1, <2>1, Changes
  <2>4. o.content = s.content /\ o.position = At(s) /\ Rewrites(s, o)
    BY <1>0, <2>1 DEF Record, Rewrites
  <2> QED BY <1>1, <2>2, <2>3, <2>4 DEF Stopped
<1> QED BY <1>2, <1>3

LEMMA WrittenOne ==
  ASSUME StreamAssumption, NEW s \in Streams, NEW c \in Stored, NEW taken
  PROVE  Written(s, c, taken).m \in Streams
<1>1. Put(s, c) \in Streams /\ Cut(s, c, taken) \in Streams
  BY PutOne, CutOne DEF Wrote, Stopped
<1>2. Err(Cut(s, c, taken)).m \in Streams
  BY <1>1, Refusals DEF Outcomes
<1> QED BY <1>1, <1>2 DEF Written

(* fputc and fputwc write the character as far as the device takes it, or  *)
(* refuse it and change nothing but the orientation and the error          *)
(* indicator.                                                              *)
CanWrite(orientation, c, s) ==
  ~Opposed(s, orientation) /\ s.writable /\ ~s.failing /\ (orientation = "wide" => c # "wide")

LEMMA GiveOne ==
  ASSUME StreamAssumption, NEW stream \in Streams, NEW orientation \in Orientations,
         NEW c \in Stored \cup {"wide"}, NEW taken
  PROVE  LET s == __wcrt_orient_stream(stream, orientation)
             o == Give(orientation, c, stream, taken)
         IN /\ o = IF CanWrite(orientation, c, stream) THEN Written(s, c, taken) ELSE Err(s)
            /\ (orientation = "byte" /\ c = "wide") \/ o.m \in Streams
<1> DEFINE s == __wcrt_orient_stream(stream, orientation)
           o == Give(orientation, c, stream, taken)
<1>1. /\ s \in Streams /\ Opposed(s, orientation) = Opposed(stream, orientation)
      /\ s = [stream EXCEPT !.orientation = s.orientation]
  BY Binding
<1>2. s.writable = stream.writable /\ s.failing = stream.failing
  <2>1. stream \in Record
    BY Fields
  <2> HIDE DEF s
  <2> QED BY <1>1, <2>1 DEF Record
<1>3. o = IF CanWrite(orientation, c, stream) THEN Written(s, c, taken) ELSE Err(s)
  <2>1. CASE orientation = "byte"
    <3>1. o = fputc(c, stream, taken) /\ s = __wcrt_orient_stream(stream, "byte")
      BY <2>1 DEF Give
    <3>2. CanWrite(orientation, c, stream) = ~(Opposed(s, "byte") \/ ~s.writable \/ s.failing)
      BY <1>1, <1>2, <2>1 DEF CanWrite
    <3> QED BY <3>1, <3>2 DEF fputc
  <2>2. CASE orientation = "wide"
    <3>1. o = fputwc(c, stream, taken) /\ s = __wcrt_orient_stream(stream, "wide")
      BY <2>2 DEF Give
    <3>2. CanWrite(orientation, c, stream) = ~(Opposed(s, "wide") \/ ~s.writable \/ c = "wide" \/ s.failing)
      BY <1>1, <1>2, <2>2 DEF CanWrite
    <3> QED BY <3>1, <3>2 DEF fputwc
  <2> QED BY <2>1, <2>2 DEF Orientations
<1>4. ASSUME ~(orientation = "byte" /\ c = "wide") PROVE o.m \in Streams
  <2>1. Err(s).m \in Streams
    BY <1>1, Refusals DEF Outcomes
  <2>2. CanWrite(orientation, c, stream) => c \in Stored
    BY <1>4 DEF CanWrite, Orientations
  <2>3. CanWrite(orientation, c, stream) => Written(s, c, taken).m \in Streams
    BY <1>1, <2>2, WrittenOne
  <2> HIDE DEF o, s
  <2> QED BY <1>3, <2>1, <2>3
<1> QED BY <1>3, <1>4

(* The loop of Spread, turn by turn.                                       *)
Spreads == [m : Streams, r : Nat]
SpreadFrom(s) == [m |-> s, r |-> 0]
SpreadTurn(orientation, text, whole, rest, n, so) ==
  LET o == Give(orientation, text[n], so.m, Share(n, whole, rest))
  IN IF so.r < n - 1 THEN so
     ELSE [m |-> o.m, r |-> IF o.r = EOF THEN so.r ELSE n]
Spreading(orientation, text, s, whole, rest) ==
  CHOOSE g : g = [n \in 0..Len(text) |->
                    IF n = 0 THEN SpreadFrom(s) ELSE SpreadTurn(orientation, text, whole, rest, n, g[n - 1])]

LEMMA TextCharacters ==
  ASSUME StreamAssumption, NEW text \in Seq(Bytes)
  PROVE  /\ Len(text) \in Nat
         /\ \A n \in 1..Len(text) : text[n] \in Bytes /\ text[n] \in Stored /\ text[n] # EOF /\ text[n] # "wide"
<1>1. \A n \in 1..Len(text) : text[n] \in Bytes
  BY ElementOfSeq
<1> QED BY <1>1 DEF StreamAssumption, Stored

LEMMA SpreadTurnType ==
  ASSUME StreamAssumption, NEW orientation \in Orientations, NEW text \in Seq(Bytes),
         NEW whole, NEW rest, NEW n \in 1..Len(text), NEW so \in Spreads
  PROVE  SpreadTurn(orientation, text, whole, rest, n, so) \in Spreads
<1>1. text[n] \in Stored /\ text[n] # "wide" /\ n \in Nat
  BY TextCharacters
<1>2. so.m \in Streams /\ so.r \in Nat
  BY DEF Spreads
<1>3. Give(orientation, text[n], so.m, Share(n, whole, rest)).m \in Streams
  BY <1>1, <1>2, GiveOne
<1> QED BY <1>1, <1>2, <1>3 DEF SpreadTurn, Spreads

LEMMA SpreadTurns ==
  ASSUME StreamAssumption, NEW orientation \in Orientations, NEW text \in Seq(Bytes), NEW s \in Streams,
         NEW whole, NEW rest
  PROVE  LET g == Spreading(orientation, text, s, whole, rest)
         IN /\ \A n \in 0..Len(text) : g[n] \in Spreads
            /\ g[0] = SpreadFrom(s)
            /\ \A n \in 1..Len(text) : g[n] = SpreadTurn(orientation, text, whole, rest, n, g[n - 1])
            /\ Spread(orientation, text, s, whole, rest) = g[Len(text)]
<1> DEFINE N == Len(text)
           start == SpreadFrom(s)
           Step(n, so) == SpreadTurn(orientation, text, whole, rest, n, so)
           D == [n \in Nat |-> [so \in Spreads |-> IF n \in 1..N THEN Step(n, so) ELSE so]]
           g == Spreading(orientation, text, s, whole, rest)
<1>0. N \in Nat
  BY TextCharacters
<1>1. start \in Spreads
  BY DEF Spreads, SpreadFrom
<1>2. \A n \in 1..N, so \in Spreads : Step(n, so) \in Spreads
  BY SpreadTurnType
<1> HIDE DEF start, Step, N
<1>3. D \in [Nat -> [Spreads -> Spreads]]
  BY <1>2
<1> HIDE DEF D
<1>4. PICK r : Recursive(r, Spreads, start, D)
  BY <1>1, <1>3, Recursion
<1>5. r \in [Nat -> Spreads] /\ r[0] = start /\ \A n \in Nat : r[n + 1] = D[n + 1][r[n]]
  BY <1>4 DEF Recursive
<1> DEFINE f == [n \in 0..N |-> r[n]]
<1>6. ASSUME NEW n \in 0..N PROVE f[n] = IF n = 0 THEN start ELSE Step(n, f[n - 1])
  <2>1. CASE n = 0
    BY <1>0, <1>5, <2>1
  <2>2. CASE n # 0
    <3>1. n - 1 \in Nat /\ n - 1 \in 0..N /\ (n - 1) + 1 = n /\ n \in Nat /\ n \in 1..N
      BY <1>0, <2>2
    <3>2. r[n - 1] \in Spreads /\ r[n] = D[n][r[n - 1]]
      BY <1>5, <3>1
    <3>3. D[n][r[n - 1]] = Step(n, r[n - 1])
      BY <3>1, <3>2 DEF D
    <3>4. f[n] = r[n] /\ f[n - 1] = r[n - 1]
      BY <3>1
    <3> HIDE DEF f
    <3> QED BY <2>2, <3>2, <3>3, <3>4
  <2> QED BY <2>1, <2>2
<1>7. f = [n \in 0..N |-> IF n = 0 THEN start ELSE Step(n, f[n - 1])]
  <2>1. f = [n \in 0..N |-> f[n]]
    OBVIOUS
  <2> HIDE DEF f
  <2> QED BY <1>6, <2>1
<1> HIDE DEF f
<1>8. g = [n \in 0..N |-> IF n = 0 THEN start ELSE Step(n, g[n - 1])]
  BY <1>7 DEF Spreading, Step, start, N
<1> HIDE DEF g
<1>9. g[0] = start /\ \A n \in 1..N : g[n] = Step(n, g[n - 1])
  BY <1>0, <1>8
<1>10. \A n \in 0..N : g[n] \in Spreads
  <2> DEFINE T == {n \in Nat : n <= N => g[n] \in Spreads}
  <2>1. 0 \in T
    BY <1>1, <1>9
  <2>2. ASSUME NEW n \in Nat, n \in T PROVE n + 1 \in T
    <3> SUFFICES ASSUME n + 1 <= N PROVE g[n + 1] \in Spreads
      OBVIOUS
    <3>1. n + 1 \in 1..N /\ (n + 1) - 1 = n /\ g[n] \in Spreads
      BY <1>0, <2>2
    <3> QED BY <1>2, <1>9, <3>1
  <2>3. \A n \in Nat : n \in T
    <3> HIDE DEF T
    <3> QED BY <2>1, <2>2, Induction
  <2> QED BY <1>0, <2>3
<1>11. Spread(orientation, text, s, whole, rest) = g[N]
  BY DEF Spread, g, Spreading, SpreadFrom, SpreadTurn, N
<1> QED BY <1>9, <1>10, <1>11 DEF g, start, Step, N

LEMMA SpreadType ==
  ASSUME StreamAssumption, NEW orientation \in Orientations, NEW text \in Seq(Bytes), NEW s \in Streams,
         NEW whole, NEW rest
  PROVE  Spread(orientation, text, s, whole, rest).m \in Streams /\ Spread(orientation, text, s, whole, rest).r \in Nat
<1> DEFINE g == Spreading(orientation, text, s, whole, rest)
<1>1. g[Len(text)] \in Spreads /\ Spread(orientation, text, s, whole, rest) = g[Len(text)]
  <2>1. Len(text) \in 0..Len(text)
    BY TextCharacters
  <2> QED BY <2>1, SpreadTurns
<1> HIDE DEF g
<1> QED BY <1>1 DEF Spreads

-----------------------------------------------------------------------------
(* Positions, sizes and modes.                                             *)
Origins == {"SEEK_SET", "SEEK_CUR", "SEEK_END"}

LEMMA SeekTarget ==
  ASSUME NEW s \in Streams, NEW offset \in Int
  PROVE  /\ __wcrt_file_seek(s, offset, "SEEK_SET") = IF s.failing \/ offset < 0 THEN -1 ELSE offset
         /\ __wcrt_file_seek(s, offset, "SEEK_CUR") =
              IF s.failing \/ offset + s.position < 0 THEN -1 ELSE offset + s.position
         /\ __wcrt_file_seek(s, offset, "SEEK_END") =
              IF s.failing \/ offset + Len(s.content) < 0 THEN -1 ELSE offset + Len(s.content)
         /\ \A origin \in Origins : __wcrt_file_seek(s, offset, origin) \in Nat \cup {-1}
<1>1. s.position \in Nat /\ Len(s.content) \in Nat
  BY Fields
<1>2. \A origin : __wcrt_file_seek(s, offset, origin) =
        LET target == offset + CASE origin = "SEEK_SET" -> 0
                                 [] origin = "SEEK_CUR" -> s.position
                                 [] origin = "SEEK_END" -> Len(s.content)
        IN IF s.failing \/ target < 0 THEN -1 ELSE target
  BY DEF __wcrt_file_seek
<1>3. __wcrt_file_seek(s, offset, "SEEK_SET") = IF s.failing \/ offset < 0 THEN -1 ELSE offset
  BY <1>1 DEF __wcrt_file_seek
<1>4. __wcrt_file_seek(s, offset, "SEEK_CUR") =
        IF s.failing \/ offset + s.position < 0 THEN -1 ELSE offset + s.position
  BY <1>1 DEF __wcrt_file_seek
<1>5. __wcrt_file_seek(s, offset, "SEEK_END") =
        IF s.failing \/ offset + Len(s.content) < 0 THEN -1 ELSE offset + Len(s.content)
  BY <1>1 DEF __wcrt_file_seek
<1> QED BY <1>1, <1>3, <1>4, <1>5 DEF Origins

LEMMA MovedType ==
  ASSUME NEW s \in Streams, NEW p \in Nat
  PROVE  /\ Moved(s, p) \in Streams
         /\ Moved(s, p) = [s EXCEPT !.position = p, !.eof = FALSE, !.pushback = EOF, !.wide_pushback = EOF]
BY DEF Moved, __wcrt_reset_stream_conversion, Streams, Record, Oriented, Char

LEMMA SeekTypes ==
  ASSUME NEW s \in Streams, NEW offset \in Int, NEW origin \in Origins
  PROVE  /\ fseek(s, offset, origin).m \in Streams
         /\ wcrt_descriptor_seek(s, offset, origin).m \in Streams
         /\ fsetpos(s, offset).m \in Streams
<1> DEFINE p == __wcrt_file_seek(s, offset, origin)
           q == __wcrt_file_seek(s, offset, "SEEK_SET")
<1>1. p \in Nat \cup {-1} /\ q \in Nat \cup {-1}
  BY SeekTarget DEF Origins
<1>2. Err(s).m \in Streams
  BY Refusals DEF Outcomes
<1>3. /\ fseek(s, offset, origin) = IF p < 0 THEN Err(s) ELSE [m |-> Moved(s, p), r |-> 0]
      /\ wcrt_descriptor_seek(s, offset, origin) = IF p < 0 THEN [m |-> s, r |-> -1] ELSE [m |-> Moved(s, p), r |-> p]
      /\ fsetpos(s, offset) = IF q < 0 THEN [m |-> s, r |-> EOF] ELSE [m |-> Moved(s, q), r |-> 0]
  BY DEF fseek, wcrt_descriptor_seek, fsetpos
<1> HIDE DEF p, q
<1>4. /\ ~(p < 0) => Moved(s, p) \in Streams
      /\ ~(q < 0) => Moved(s, q) \in Streams
  <2>1. (~(p < 0) => p \in Nat) /\ (~(q < 0) => q \in Nat)
    BY <1>1
  <2> QED BY <2>1, MovedType
<1> QED BY <1>2, <1>3, <1>4

LEMMA ClearType ==
  ASSUME NEW s \in Streams
  PROVE  clearerr(s) \in Streams /\ rewind(s) \in Streams
<1>1. clearerr(s) \in Streams
  BY DEF clearerr, Streams, Record, Oriented
<1> QED BY <1>1, SeekTypes DEF rewind, Origins

LEMMA ResizeType ==
  ASSUME StreamAssumption, NEW s \in Streams, NEW size \in Nat, NEW restored \in BOOLEAN, NEW reached \in Nat
  PROVE  __wcrt_file_resize(s, size, reached, restored).m \in Streams
<1> DEFINE q == [i \in 1..reached |-> IF i <= Len(s.content) THEN s.content[i] ELSE "NUL"]
           p == IF restored THEN s.position ELSE IF size < Len(s.content) THEN size ELSE reached
<1>1. /\ s \in Record /\ s.content \in Seq(Stored) /\ Len(s.content) \in Nat /\ s.position \in Nat
      /\ \A i \in 1..Len(s.content) : s.content[i] \in Stored
  BY Fields, ElementOfSeq
<1>2. q \in Seq(Stored)
  <2>1. q \in [1..reached -> Stored]
    BY <1>1 DEF Stored
  <2> HIDE DEF q
  <2> QED BY <2>1, IsASeq
<1>3. p \in Nat
  BY <1>1
<1>4. __wcrt_file_resize(s, size, reached, restored).m =
        IF \/ size < 0 \/ ~s.writable \/ s.failing
           \/ size = Len(s.content) THEN s
        ELSE [s EXCEPT !.content = q, !.position = p]
  BY DEF __wcrt_file_resize
<1> HIDE DEF q, p
<1>5. [s EXCEPT !.content = q, !.position = p] \in Streams
  BY <1>2, <1>3 DEF Streams, Record, Oriented
<1> QED BY <1>4, <1>5

LEMMA OpenedType ==
  ASSUME NEW content \in Seq(Stored), NEW letter, NEW update \in BOOLEAN, NEW binary \in BOOLEAN
  PROVE  Opened(content, letter, update, binary) \in Streams
<1>1. <<>> \in Seq(Stored) /\ Len(content) \in Nat /\ EOF \in Char
  BY DEF Char
<1> QED BY <1>1 DEF Opened, Streams, Record, Oriented

LEMMA ModeTypes ==
  ASSUME NEW s \in Streams, NEW binary \in BOOLEAN
  PROVE  /\ _setmode(s, binary).m \in Streams
         /\ \A letter, update : _fdopen(s, letter, update, binary).m \in Streams
<1>1. [s EXCEPT !.binary = binary] \in Streams
  BY DEF Streams, Record, Oriented
<1>2. ASSUME NEW letter
      PROVE  [s EXCEPT !.append = @ \/ letter = "a", !.binary = @ \/ binary] \in Streams
  BY DEF Streams, Record, Oriented
<1>3. _setmode(s, binary).m = [s EXCEPT !.binary = binary]
  BY DEF _setmode
<1>4. ASSUME NEW letter, NEW update PROVE _fdopen(s, letter, update, binary).m \in Streams
  <2>1. \/ _fdopen(s, letter, update, binary).m = s
        \/ _fdopen(s, letter, update, binary).m = [s EXCEPT !.append = @ \/ letter = "a", !.binary = @ \/ binary]
    BY DEF _fdopen
  <2> QED BY <1>2, <2>1
<1> QED BY <1>1, <1>3, <1>4

(* Every step leaves a stream of the type.                                 *)
LEMMA StreamsKept ==
  ASSUME StreamAssumption, m \in Streams, [Next]_m
  PROVE  m' \in Streams
<1>1. Bytes \subseteq Char /\ EOF \in Char /\ Bytes \subseteq Stored /\ MaxSize \in Nat
  BY DEF Char, Stored, StreamAssumption
<1>2. \A n \in Counts \cup {0} : n \in Nat
  BY DEF StreamAssumption
<1>3. \A text \in Texts : text \in Seq(Bytes)
  BY DEF StreamAssumption
<1>4. "byte" \in Orientations /\ "wide" \in Orientations
  BY DEF Orientations
<1>5. CASE UNCHANGED m
  BY <1>5
<1>6. CASE ReadByte
  BY <1>6, fgetcType DEF ReadByte, Becomes, Outcomes
<1>7. CASE ReadLine
  BY <1>2, <1>7, ReadType DEF ReadLine, Becomes
<1>8. CASE ReadBlock
  BY <1>2, <1>8, freadType DEF ReadBlock, Becomes
<1>9. CASE Push
  BY <1>1, <1>9, ungetcType DEF Push, Becomes, Outcomes
<1>10. CASE WriteByte
  <2>1. PICK c \in Bytes, taken \in Shares : m' = fputc(c, m, taken).m
    BY <1>10 DEF WriteByte, Becomes
  <2>2. Give("byte", c, m, taken) = fputc(c, m, taken) /\ c \in Stored /\ c # "wide"
    BY <1>1 DEF Give, StreamAssumption
  <2> QED BY <1>4, <2>1, <2>2, GiveOne
<1>11. CASE WriteText
  <2>1. PICK text \in Texts : \E whole, rest : m' = fputs(text, m, whole, rest).m
    BY <1>11 DEF WriteText, Becomes
  <2>2. PICK whole, rest : m' = fputs(text, m, whole, rest).m
    BY <2>1
  <2> QED BY <1>3, <1>4, <2>2, SpreadType DEF fputs, AllOf
<1>12. CASE ReadWide
  <2>1. m' = fgetwc(m).m \/ \E n \in Counts : m' = fgetws(m, n + 1).m
    BY <1>12 DEF ReadWide, Becomes
  <2> QED BY <1>2, <2>1, fgetwcType, ReadType DEF Outcomes
<1>13. CASE WriteWide
  <2>1. PICK c \in Bytes \cup {"wide"}, taken \in Shares : m' = fputwc(c, m, taken).m
    BY <1>13 DEF WriteWide, Becomes
  <2>2. Give("wide", c, m, taken) = fputwc(c, m, taken) /\ c \in Stored \cup {"wide"}
    BY <1>1 DEF Give
  <2> QED BY <1>4, <2>1, <2>2, GiveOne
<1>14. CASE PushWide
  BY <1>1, <1>14, ungetwcType DEF PushWide, Becomes, Outcomes
<1>15. CASE Seek
  BY <1>15, SeekTypes DEF Seek, Becomes, Origins
<1>16. CASE Restore
  BY <1>1, <1>16, SeekTypes DEF Restore, Becomes, Origins
<1>17. CASE Rewind
  BY <1>17, ClearType DEF Rewind
<1>18. CASE Clear
  BY <1>18, ClearType DEF Clear
<1>19. CASE Resize
  <2>0. PICK size \in 0..MaxSize, restored \in BOOLEAN :
          \E reached \in Reached(m, size) : m' = __wcrt_file_resize(m, size, reached, restored).m
    BY <1>19 DEF Resize, Becomes
  <2>1. PICK reached \in Reached(m, size) : m' = __wcrt_file_resize(m, size, reached, restored).m
    BY <2>0
  <2>2. Len(m.content) \in Nat /\ size \in Nat
    BY <1>1, Fields
  <2>3. reached \in Nat
    BY <2>2 DEF Reached
  <2> QED BY <2>1, <2>2, <2>3, ResizeType
<1>20. CASE Switch
  BY <1>20, ModeTypes DEF Switch, Becomes
<1>21. CASE Attach
  BY <1>21, ModeTypes DEF Attach, Becomes
<1>22. CASE Reopen
  BY <1>22, Fields, OpenedType DEF Reopen
<1>23. CASE Duplicate
  <2>1. PICK p \in Nat : m' = [m EXCEPT !.position = p]
    BY <1>1, <1>23 DEF Duplicate
  <2> QED BY <2>1, Changes
<1>24. CASE Fail
  BY <1>24 DEF Fail, Streams, Record, Oriented
<1> QED BY <1>5, <1>6, <1>7, <1>8, <1>9, <1>10, <1>11, <1>12, <1>13, <1>14, <1>15, <1>16, <1>17,
           <1>18, <1>19, <1>20, <1>21, <1>22, <1>23, <1>24 DEF Next

(* The stream always has its type, and a pushback only of its orientation. *)
THEOREM AlwaysStream == StreamAssumption /\ Spec => [](m \in Streams)
<1> SUFFICES ASSUME StreamAssumption PROVE Spec => [](m \in Streams)
  OBVIOUS
<1>1. Init => m \in Streams
  <2> SUFFICES ASSUME Init PROVE m \in Streams
    OBVIOUS
  <2>1. PICK content \in Files, letter \in {"r", "w", "a"}, update \in BOOLEAN, binary \in BOOLEAN :
          m = Opened(content, letter, update, binary)
    BY DEF Init
  <2> QED BY <2>1, OpenedType DEF StreamAssumption
<1>2. m \in Streams /\ [Next]_m => (m \in Streams)'
  BY StreamsKept
<1> QED BY <1>1, <1>2, PTL DEF Spec

-----------------------------------------------------------------------------
(* Reading one character.                                                  *)
Moves(s, p) == [s EXCEPT !.position = p]

LEMMA MovesTwice ==
  ASSUME NEW s \in Streams, NEW p \in Nat, NEW q \in Nat
  PROVE  /\ Moves(s, p) \in Streams /\ Moves(Moves(s, p), q) = Moves(s, q)
         /\ Moves(s, p).position = p /\ Moves(s, p).content = s.content
         /\ Moves(s, p).binary = s.binary /\ Moves(s, p).failing = s.failing
         /\ Moves(s, p).pushback = s.pushback /\ Moves(s, p).wide_pushback = s.wide_pushback
         /\ Moves(s, p).orientation = s.orientation /\ Moves(s, p).readable = s.readable
         /\ Moves(s, p).error = s.error /\ Moves(s, p).eof = s.eof
<1>1. s \in Record
  BY Fields
<1>2. Moves(s, p) \in Streams
  BY Changes DEF Moves
<1> QED BY <1>1, <1>2 DEF Moves, Record

LEMMA TranslatedAt ==
  ASSUME NEW s \in Streams, NEW x
  PROVE  LET o == Translated(__wcrt_file_read(s, 1), x)
             c == s.content[s.position + 1]
         IN /\ s.position >= Len(s.content) => o = [m |-> [s EXCEPT !.eof = TRUE], r |-> EOF]
            /\ s.position < Len(s.content) =>
                 /\ c \in Stored
                 /\ s.binary \/ c # "CR" => o = [m |-> Moves(s, s.position + 1), r |-> c]
                 /\ ~s.binary /\ c = "CR" =>
                      o = IF x.r = "LF" THEN x ELSE [m |-> ungetc(x.r, x.m).m, r |-> "CR"]
<1> DEFINE read == __wcrt_file_read(s, 1)
           c == s.content[s.position + 1]
<1>1. ASSUME s.position >= Len(s.content)
      PROVE  Translated(read, x) = [m |-> [s EXCEPT !.eof = TRUE], r |-> EOF]
  <2>1. read = [m |-> s, r |-> <<>>]
    BY <1>1, ReadOne
  <2>2. read.m = s /\ read.r = <<>>
    BY <2>1
  <2> HIDE DEF read
  <2> QED BY <2>2 DEF Translated
<1>2. ASSUME s.position < Len(s.content)
      PROVE  /\ c \in Stored
             /\ s.binary \/ c # "CR" => Translated(read, x) = [m |-> Moves(s, s.position + 1), r |-> c]
             /\ ~s.binary /\ c = "CR" =>
                  Translated(read, x) = IF x.r = "LF" THEN x ELSE [m |-> ungetc(x.r, x.m).m, r |-> "CR"]
  <2>1. c \in Stored /\ read = [m |-> Moves(s, s.position + 1), r |-> <<c>>]
    BY <1>2, ReadOne DEF Moves
  <2>2. read.m = Moves(s, s.position + 1) /\ read.r = <<c>>
    BY <2>1
  <2>3. s.position + 1 \in Nat
    BY Fields
  <2>4. Moves(s, s.position + 1).binary = s.binary
    BY <2>3, MovesTwice
  <2> HIDE DEF read, c
  <2>5. read.r # <<>> /\ read.r[1] = c /\ (read.r = <<"CR">> <=> c = "CR") /\ read.m.binary = s.binary
    BY <2>2, <2>4
  <2>6. s.binary \in BOOLEAN
    BY Fields
  <2> QED BY <2>1, <2>2, <2>5, <2>6 DEF Translated
<1> HIDE DEF read, c
<1> QED BY <1>1, <1>2 DEF read, c

(* The call inside, at a position it does not go beyond.                   *)
LEMMA InsideAt ==
  ASSUME StreamAssumption, NEW s \in Streams, NEW p \in Nat, p <= Len(s.content)
  PROVE  LET o == Inside(s)[Len(s.content) - p]
         IN /\ p = Len(s.content) => o = [m |-> [Moves(s, p) EXCEPT !.eof = TRUE], r |-> EOF]
            /\ p < Len(s.content) /\ s.content[p + 1] # "CR" =>
                 o = [m |-> Moves(s, p + 1), r |-> s.content[p + 1]]
<1> DEFINE o == Inside(s)[Len(s.content) - p]
           left == Len(s.content) - p
           there == Moves(s, p)
<1>1. Len(s.content) \in Nat
  BY Fields
<1>2. left \in 0..Len(s.content) /\ Len(s.content) - left = p
  BY <1>1
<1>3. o = Translated(Inner(s, left), Inside(s)[left - 1])
  <2> HIDE DEF left
  <2>1. Inside(s)[left] = Translated(Inner(s, left), Inside(s)[left - 1])
    BY <1>2, InnerCalls
  <2> QED BY <2>1 DEF left
<1>4. Inner(s, left) = __wcrt_file_read(there, 1)
  BY <1>2 DEF Inner, Moves
<1>5. /\ there \in Streams /\ there.position = p /\ there.content = s.content /\ there.binary = s.binary
      /\ \A q \in Nat : Moves(there, q) = Moves(s, q)
  BY MovesTwice
<1> HIDE DEF there, o, left
<1>6. o = Translated(__wcrt_file_read(there, 1), Inside(s)[left - 1])
  BY <1>3, <1>4
<1>7. ASSUME p = Len(s.content) PROVE o = [m |-> [there EXCEPT !.eof = TRUE], r |-> EOF]
  <2>1. there.position >= Len(there.content)
    BY <1>1, <1>5, <1>7
  <2> QED BY <1>5, <1>6, <2>1, TranslatedAt
<1>8. ASSUME p < Len(s.content), s.content[p + 1] # "CR"
      PROVE  o = [m |-> Moves(s, p + 1), r |-> s.content[p + 1]]
  <2>1. o = [m |-> Moves(there, there.position + 1), r |-> there.content[there.position + 1]]
    BY <1>1, <1>5, <1>6, <1>8, TranslatedAt
  <2>2. p + 1 \in Nat
    OBVIOUS
  <2> QED BY <1>5, <2>1, <2>2
<1> QED BY <1>7, <1>8 DEF o, there

(* One character read: what is pushed back, or what the file has at the    *)
(* position.                                                               *)
Bound(s, orientation) == [s EXCEPT !.orientation = orientation]
Ending(s, e) == [s EXCEPT !.eof = e]
Pushed(s, orientation, c, e) ==
  IF orientation = "byte" THEN [s EXCEPT !.pushback = c, !.eof = e] ELSE [s EXCEPT !.wide_pushback = c, !.eof = e]

LEMMA BoundIs ==
  ASSUME StreamAssumption, NEW s \in Streams, NEW orientation \in Orientations, CanRead(s, orientation)
  PROVE  /\ __wcrt_orient_stream(s, orientation) = Bound(s, orientation)
         /\ Bound(s, orientation) \in Streams /\ Bound(s, orientation).readable
         /\ Bound(s, orientation).orientation = orientation
         /\ ~Opposed(Bound(s, orientation), orientation)
         /\ Bound(s, orientation).content = s.content /\ Bound(s, orientation).position = s.position
         /\ Bound(s, orientation).binary = s.binary /\ Bound(s, orientation).failing = s.failing
         /\ Bound(s, orientation).pushback = s.pushback /\ Bound(s, orientation).wide_pushback = s.wide_pushback
         /\ Bound(s, orientation).error = s.error /\ Bound(s, orientation).eof = s.eof
<1> DEFINE o == __wcrt_orient_stream(s, orientation)
<1>1. /\ o \in Streams /\ o = [s EXCEPT !.orientation = o.orientation]
      /\ Opposed(o, orientation) = Opposed(s, orientation)
      /\ ~Opposed(s, orientation) => o.orientation = orientation
  BY Binding
<1>2. ~Opposed(s, orientation) /\ s.readable
  BY DEF CanRead
<1>3. o = Bound(s, orientation)
  BY <1>1, <1>2 DEF Bound
<1> HIDE DEF o
<1>4. s \in Record
  BY Fields
<1> QED BY <1>1, <1>2, <1>3, <1>4 DEF Bound, Record, o

(* The character after a carriage return that is not half of a pair.       *)
Follows(s) == s.content[s.position + 2]
ReadSays(orientation, s, o) ==
  LET b == Bound(s, orientation)
      p == s.position
      c == s.content[p + 1]
  IN /\ Pending(s) # EOF => o.r = Pending(s) /\ o.m = [b EXCEPT !.pushback = EOF, !.wide_pushback = EOF]
     /\ Pending(s) = EOF =>
          /\ p >= Len(s.content) => o.r = EOF /\ o.m = [b EXCEPT !.eof = TRUE]
          /\ p < Len(s.content) =>
               /\ c \in Stored
               /\ s.binary \/ c # "CR" => o.r = c /\ o.m = Moves(b, p + 1)
               /\ Pair(s, p) => o.r = "LF" /\ o.m = Moves(b, p + 2)
               /\ ~s.binary /\ c = "CR" /\ p + 1 = Len(s.content) =>
                    o.r = "CR" /\ \E e \in BOOLEAN : o.m = Ending(Moves(b, p + 1), e)
               /\ ~s.binary /\ c = "CR" /\ p + 1 < Len(s.content) /\ Follows(s) \notin {"CR", "LF"} =>
                    o.r = "CR" /\ \E e \in BOOLEAN : o.m = Pushed(Moves(b, p + 2), orientation, Follows(s), e)

LEMMA fgetcReads ==
  ASSUME StreamAssumption, NEW s \in Streams, CanRead(s, "byte"), ~s.failing
  PROVE  ReadSays("byte", s, fgetc(s))
<1> DEFINE b == Bound(s, "byte")
           p == s.position
           c == s.content[p + 1]
           o == fgetc(s)
           read == __wcrt_file_read(b, 1)
           x == Inside(b)[Left(read.m)]
<1>0. "byte" \in Orientations
  BY DEF Orientations
<1>1. /\ __wcrt_orient_stream(s, "byte") = b
      /\ b \in Streams /\ b.readable /\ b.orientation = "byte" /\ ~Opposed(b, "byte")
      /\ b.content = s.content /\ b.position = s.position /\ b.binary = s.binary /\ b.failing = s.failing
      /\ b.pushback = s.pushback /\ b.wide_pushback = s.wide_pushback
  BY <1>0, BoundIs
<1> HIDE DEF b
<1>2. o = IF b.pushback # EOF THEN [m |-> [b EXCEPT !.pushback = EOF], r |-> b.pushback]
          ELSE Translated(read, x)
  BY <1>1, fgetcInside
<1> HIDE DEF o
<1>3. b.wide_pushback = EOF /\ Pending(s) = s.pushback
  BY <1>1, Fields DEF Oriented, Pending
<1>4. p \in Nat /\ p + 1 \in Nat /\ p + 2 \in Nat /\ Len(s.content) \in Nat /\ s.binary \in BOOLEAN /\ b \in Record
  BY <1>1, Fields
<1>5. ASSUME Pending(s) # EOF
      PROVE  o.r = Pending(s) /\ o.m = [b EXCEPT !.pushback = EOF, !.wide_pushback = EOF]
  <2>1. o.r = Pending(s) /\ o.m = [b EXCEPT !.pushback = EOF]
    BY <1>1, <1>2, <1>3, <1>5
  <2>2. [b EXCEPT !.pushback = EOF, !.wide_pushback = EOF] = [b EXCEPT !.pushback = EOF]
    BY <1>3, <1>4 DEF Record
  <2> QED BY <2>1, <2>2
<1>6. ASSUME Pending(s) = EOF PROVE o = Translated(read, x)
  BY <1>1, <1>2, <1>3, <1>6
<1>7. ASSUME Pending(s) = EOF, p >= Len(s.content) PROVE o.r = EOF /\ o.m = [b EXCEPT !.eof = TRUE]
  <2> HIDE DEF x, p
  <2>1. b.position >= Len(b.content)
    BY <1>1, <1>7 DEF p
  <2>2. o = [m |-> [b EXCEPT !.eof = TRUE], r |-> EOF]
    BY <1>1, <1>6, <1>7, <2>1, TranslatedAt
  <2> QED BY <2>2
<1>8. ASSUME Pending(s) = EOF, p < Len(s.content)
      PROVE  /\ c \in Stored
             /\ s.binary \/ c # "CR" => o.r = c /\ o.m = Moves(b, p + 1)
             /\ ~s.binary /\ c = "CR" => o = IF x.r = "LF" THEN x ELSE [m |-> ungetc(x.r, x.m).m, r |-> "CR"]
  <2> HIDE DEF x
  <2>1. b.position < Len(b.content)
    BY <1>1, <1>8
  <2>2. o = Translated(__wcrt_file_read(b, 1), x)
    BY <1>6, <1>8
  <2>3. /\ b.content[b.position + 1] \in Stored
        /\ b.binary \/ b.content[b.position + 1] # "CR" =>
             o = [m |-> Moves(b, b.position + 1), r |-> b.content[b.position + 1]]
        /\ ~b.binary /\ b.content[b.position + 1] = "CR" =>
             o = IF x.r = "LF" THEN x ELSE [m |-> ungetc(x.r, x.m).m, r |-> "CR"]
    BY <1>1, <2>1, <2>2, TranslatedAt
  <2> QED BY <1>1, <2>3
<1>9. ASSUME p < Len(s.content)
      PROVE  /\ x = Inside(b)[Len(b.content) - (p + 1)]
             /\ p + 1 = Len(s.content) => x = [m |-> [Moves(b, p + 1) EXCEPT !.eof = TRUE], r |-> EOF]
             /\ p + 1 < Len(s.content) /\ Follows(s) # "CR" => x = [m |-> Moves(b, p + 2), r |-> Follows(s)]
  <2>1. read.m = Moves(b, p + 1)
    BY <1>1, <1>9, ReadOne DEF Moves
  <2>2. Left(read.m) = Len(b.content) - (p + 1)
    BY SMTT(30), <1>1, <1>4, <2>1, MovesTwice DEF Left
  <2>3. x = Inside(b)[Len(b.content) - (p + 1)]
    BY <2>2
  <2> HIDE DEF x, read
  <2>4. p + 1 <= Len(b.content)
    BY <1>1, <1>4, <1>9
  <2>5. /\ p + 1 = Len(b.content) => x = [m |-> [Moves(b, p + 1) EXCEPT !.eof = TRUE], r |-> EOF]
        /\ p + 1 < Len(b.content) /\ b.content[(p + 1) + 1] # "CR" =>
             x = [m |-> Moves(b, (p + 1) + 1), r |-> b.content[(p + 1) + 1]]
    BY <1>1, <1>4, <2>3, <2>4, InsideAt
  <2>6. (p + 1) + 1 = p + 2
    BY <1>4
  <2> QED BY <1>1, <2>3, <2>5, <2>6 DEF Follows
<1> HIDE DEF x, read
<1>10. ASSUME Pending(s) = EOF, p < Len(s.content), Pair(s, p) PROVE o.r = "LF" /\ o.m = Moves(b, p + 2)
  <2>1. ~s.binary /\ c = "CR" /\ Follows(s) = "LF" /\ p + 1 < Len(s.content)
    BY <1>4, <1>10 DEF Pair, Follows
  <2>2. x = [m |-> Moves(b, p + 2), r |-> "LF"]
    BY <1>9, <1>10, <2>1, Characters
  <2> QED BY <1>8, <1>10, <2>1, <2>2
<1>11. ASSUME Pending(s) = EOF, ~s.binary, c = "CR", p + 1 = Len(s.content)
       PROVE  o.r = "CR" /\ \E e \in BOOLEAN : o.m = Ending(Moves(b, p + 1), e)
  <2>1. p < Len(s.content)
    BY <1>4, <1>11
  <2>2. x = [m |-> [Moves(b, p + 1) EXCEPT !.eof = TRUE], r |-> EOF]
    BY <1>9, <1>11, <2>1
  <2>3. x.m = [Moves(b, p + 1) EXCEPT !.eof = TRUE] /\ x.r = EOF
    BY <2>2
  <2>4. ungetc(x.r, x.m).m = x.m
    BY <2>3 DEF ungetc
  <2>5. o = [m |-> x.m, r |-> "CR"]
    BY <1>8, <1>11, <2>1, <2>3, <2>4, Characters
  <2>6. o.r = "CR" /\ o.m = Ending(Moves(b, p + 1), TRUE)
    BY <2>3, <2>5 DEF Ending
  <2> QED BY <2>6
<1>12. ASSUME Pending(s) = EOF, ~s.binary, c = "CR", p + 1 < Len(s.content), Follows(s) \notin {"CR", "LF"}
       PROVE  o.r = "CR" /\ \E e \in BOOLEAN : o.m = Pushed(Moves(b, p + 2), "byte", Follows(s), e)
  <2> DEFINE t == Moves(b, p + 2)
  <2>1. p < Len(s.content)
    BY <1>4, <1>12
  <2>2. x = [m |-> t, r |-> Follows(s)]
    BY <1>9, <1>12, <2>1
  <2>3. t.orientation = "byte" /\ t.pushback = EOF
    BY <1>1, <1>3, <1>4, <1>12, MovesTwice
  <2>4. Follows(s) \in Stored /\ Follows(s) # EOF
    <3>1. p + 2 \in 1..Len(s.content)
      BY <1>4, <1>12
    <3> QED BY <3>1, Fields, ElementOfSeq, Characters DEF Follows
  <2> HIDE DEF t
  <2>5. __wcrt_orient_stream(t, "byte") = t /\ ~Opposed(t, "byte")
    BY <2>3 DEF __wcrt_orient_stream, Opposed, Opposite
  <2>6. ungetc(Follows(s), t).m = [t EXCEPT !.pushback = Follows(s), !.eof = FALSE]
    BY <2>3, <2>4, <2>5 DEF ungetc
  <2>7. x.m = t /\ x.r = Follows(s)
    BY <2>2
  <2>8. o = [m |-> ungetc(Follows(s), t).m, r |-> "CR"]
    BY <1>8, <1>12, <2>1, <2>7
  <2>9. o.r = "CR" /\ o.m = Pushed(t, "byte", Follows(s), FALSE)
    BY <2>6, <2>8 DEF Pushed
  <2> QED BY <2>9 DEF t
<1> HIDE DEF c
<1>13. /\ Pending(s) = EOF /\ p < Len(s.content) => c \in Stored
       /\ Pending(s) = EOF /\ p < Len(s.content) /\ (s.binary \/ c # "CR") => o.r = c /\ o.m = Moves(b, p + 1)
  BY <1>8
<1> HIDE DEF p
<1> QED BY <1>5, <1>7, <1>10, <1>11, <1>12, <1>13 DEF ReadSays, b, p, c, o

LEMMA WideByteAt ==
  ASSUME NEW s \in Streams, ~s.failing
  PROVE  LET o == wcrt_read_wide_byte(s)
             c == s.content[s.position + 1]
         IN /\ s.position >= Len(s.content) => o = [m |-> [s EXCEPT !.eof = TRUE], r |-> EOF]
            /\ s.position < Len(s.content) => c \in Stored /\ o = [m |-> Moves(s, s.position + 1), r |-> c]
<1>1. ASSUME s.position >= Len(s.content)
      PROVE  wcrt_read_wide_byte(s) = [m |-> [s EXCEPT !.eof = TRUE], r |-> EOF]
  <2>1. __wcrt_file_read(s, 1) = [m |-> s, r |-> <<>>]
    BY <1>1, ReadOne
  <2> QED BY <2>1 DEF wcrt_read_wide_byte
<1>2. ASSUME s.position < Len(s.content)
      PROVE  /\ s.content[s.position + 1] \in Stored
             /\ wcrt_read_wide_byte(s) = [m |-> Moves(s, s.position + 1), r |-> s.content[s.position + 1]]
  <2>1. /\ s.content[s.position + 1] \in Stored
        /\ __wcrt_file_read(s, 1) = [m |-> Moves(s, s.position + 1), r |-> <<s.content[s.position + 1]>>]
    BY <1>2, ReadOne DEF Moves
  <2> QED BY <2>1 DEF wcrt_read_wide_byte
<1> QED BY <1>1, <1>2

LEMMA fgetwcReads ==
  ASSUME StreamAssumption, NEW s \in Streams, CanRead(s, "wide"), ~s.failing
  PROVE  ReadSays("wide", s, fgetwc(s))
<1> DEFINE b == Bound(s, "wide")
           p == s.position
           c == s.content[p + 1]
           o == fgetwc(s)
           first == wcrt_read_wide_byte(b)
           next == wcrt_read_wide_byte(first.m)
<1>0. "wide" \in Orientations
  BY DEF Orientations
<1>1. /\ __wcrt_orient_stream(s, "wide") = b
      /\ b \in Streams /\ b.readable /\ b.orientation = "wide" /\ ~Opposed(b, "wide")
      /\ b.content = s.content /\ b.position = s.position /\ b.binary = s.binary /\ b.failing = s.failing
      /\ b.pushback = s.pushback /\ b.wide_pushback = s.wide_pushback
  BY <1>0, BoundIs
<1> HIDE DEF b
<1>2. o = IF b.wide_pushback # EOF THEN [m |-> [b EXCEPT !.wide_pushback = EOF], r |-> b.wide_pushback]
          ELSE IF b.binary \/ first.r # "CR" THEN first
          ELSE IF next.r = "LF" THEN next
          ELSE IF next.r # EOF THEN [m |-> [next.m EXCEPT !.wide_pushback = next.r], r |-> "CR"]
          ELSE [m |-> [next.m EXCEPT !.eof = @ /\ next.m.error], r |-> "CR"]
  BY <1>1 DEF fgetwc, WideTranslated
<1> HIDE DEF o
<1>3. b.pushback = EOF /\ Pending(s) = s.wide_pushback
  BY <1>1, Fields DEF Oriented, Pending
<1>4. p \in Nat /\ p + 1 \in Nat /\ p + 2 \in Nat /\ Len(s.content) \in Nat /\ s.binary \in BOOLEAN /\ b \in Record
  BY <1>1, Fields
<1>5. ASSUME Pending(s) # EOF
      PROVE  o.r = Pending(s) /\ o.m = [b EXCEPT !.pushback = EOF, !.wide_pushback = EOF]
  <2>1. o.r = Pending(s) /\ o.m = [b EXCEPT !.wide_pushback = EOF]
    BY <1>1, <1>2, <1>3, <1>5
  <2>2. [b EXCEPT !.pushback = EOF, !.wide_pushback = EOF] = [b EXCEPT !.wide_pushback = EOF]
    BY <1>3, <1>4 DEF Record
  <2> QED BY <2>1, <2>2
<1>6. /\ p >= Len(s.content) => first = [m |-> [b EXCEPT !.eof = TRUE], r |-> EOF]
      /\ p < Len(s.content) => c \in Stored /\ first = [m |-> Moves(b, p + 1), r |-> c]
  BY <1>1, WideByteAt
<1>7. ASSUME Pending(s) = EOF, p >= Len(s.content) PROVE o.r = EOF /\ o.m = [b EXCEPT !.eof = TRUE]
  <2>1. first.r = EOF /\ first.m = [b EXCEPT !.eof = TRUE] /\ first.r # "CR"
    BY <1>6, <1>7, Characters
  <2> HIDE DEF first, next
  <2> QED BY <1>1, <1>2, <1>3, <1>7, <2>1
<1>8. ASSUME Pending(s) = EOF, p < Len(s.content)
      PROVE  /\ c \in Stored
             /\ s.binary \/ c # "CR" => o.r = c /\ o.m = Moves(b, p + 1)
             /\ ~s.binary /\ c = "CR" =>
                  /\ first.m = Moves(b, p + 1)
                  /\ o = IF next.r = "LF" THEN next
                         ELSE IF next.r # EOF THEN [m |-> [next.m EXCEPT !.wide_pushback = next.r], r |-> "CR"]
                         ELSE [m |-> [next.m EXCEPT !.eof = @ /\ next.m.error], r |-> "CR"]
  <2>1. c \in Stored /\ first.r = c /\ first.m = Moves(b, p + 1)
    BY <1>6, <1>8
  <2> HIDE DEF first, next, c
  <2> QED BY <1>1, <1>2, <1>3, <1>8, <2>1
<1>9. ASSUME p < Len(s.content), first.m = Moves(b, p + 1)
      PROVE  /\ p + 1 = Len(s.content) => next = [m |-> [Moves(b, p + 1) EXCEPT !.eof = TRUE], r |-> EOF]
             /\ p + 1 < Len(s.content) =>
                  Follows(s) \in Stored /\ next = [m |-> Moves(b, p + 2), r |-> Follows(s)]
  <2> DEFINE t == Moves(b, p + 1)
  <2>1. /\ t \in Streams /\ t.position = p + 1 /\ t.content = s.content /\ ~t.failing
        /\ Moves(t, p + 2) = Moves(b, p + 2)
    BY <1>1, <1>4, MovesTwice
  <2>2. next = wcrt_read_wide_byte(t)
    BY <1>9
  <2> HIDE DEF t, next, first
  <2>3. /\ t.position >= Len(t.content) => next = [m |-> [t EXCEPT !.eof = TRUE], r |-> EOF]
        /\ t.position < Len(t.content) =>
             /\ t.content[t.position + 1] \in Stored
             /\ next = [m |-> Moves(t, t.position + 1), r |-> t.content[t.position + 1]]
    BY <2>1, <2>2, WideByteAt
  <2>4. (p + 1) + 1 = p + 2
    BY <1>4
  <2>5. ASSUME p + 1 = Len(s.content) PROVE next = [m |-> [t EXCEPT !.eof = TRUE], r |-> EOF]
    BY <1>4, <2>1, <2>3, <2>5
  <2>6. ASSUME p + 1 < Len(s.content)
        PROVE  Follows(s) \in Stored /\ next = [m |-> Moves(b, p + 2), r |-> Follows(s)]
    BY <1>4, <2>1, <2>3, <2>4, <2>6 DEF Follows
  <2> QED BY <2>5, <2>6 DEF t
<1> HIDE DEF first, next
<1>10. ASSUME Pending(s) = EOF, p < Len(s.content), Pair(s, p) PROVE o.r = "LF" /\ o.m = Moves(b, p + 2)
  <2>1. ~s.binary /\ c = "CR" /\ Follows(s) = "LF" /\ p + 1 < Len(s.content)
    BY <1>4, <1>10 DEF Pair, Follows
  <2>2. next = [m |-> Moves(b, p + 2), r |-> "LF"]
    BY <1>8, <1>9, <1>10, <2>1
  <2> QED BY <1>8, <1>10, <2>1, <2>2
<1>11. ASSUME Pending(s) = EOF, ~s.binary, c = "CR", p + 1 = Len(s.content)
       PROVE  o.r = "CR" /\ \E e \in BOOLEAN : o.m = Ending(Moves(b, p + 1), e)
  <2> DEFINE t == Moves(b, p + 1)
  <2>1. p < Len(s.content)
    BY <1>4, <1>11
  <2>2. next = [m |-> [t EXCEPT !.eof = TRUE], r |-> EOF]
    BY <1>8, <1>9, <1>11, <2>1
  <2>3. t \in Record
    BY <1>1, <1>4, MovesTwice, Fields
  <2> HIDE DEF t
  <2>4. next.m = [t EXCEPT !.eof = TRUE] /\ next.r = EOF
    BY <2>2
  <2>5. o = [m |-> [next.m EXCEPT !.eof = @ /\ next.m.error], r |-> "CR"]
    BY <1>8, <1>11, <2>1, <2>4, Characters
  <2>6. t.error \in BOOLEAN /\ next.m.error = t.error /\ next.m.eof
    BY <2>3, <2>4 DEF Record
  <2>7. [next.m EXCEPT !.eof = @ /\ next.m.error] = [t EXCEPT !.eof = t.error]
    BY <2>3, <2>4, <2>6 DEF Record
  <2>8. o.r = "CR" /\ o.m = Ending(t, t.error)
    BY <2>5, <2>7 DEF Ending
  <2> QED BY <2>6, <2>8 DEF t
<1>12. ASSUME Pending(s) = EOF, ~s.binary, c = "CR", p + 1 < Len(s.content), Follows(s) \notin {"CR", "LF"}
       PROVE  o.r = "CR" /\ \E e \in BOOLEAN : o.m = Pushed(Moves(b, p + 2), "wide", Follows(s), e)
  <2> DEFINE t == Moves(b, p + 2)
  <2>1. p < Len(s.content)
    BY <1>4, <1>12
  <2>2. Follows(s) \in Stored /\ next = [m |-> t, r |-> Follows(s)]
    BY <1>8, <1>9, <1>12, <2>1
  <2>3. t \in Record
    BY <1>1, <1>4, MovesTwice, Fields
  <2> HIDE DEF t
  <2>4. next.m = t /\ next.r = Follows(s) /\ Follows(s) # EOF
    BY <2>2, Characters
  <2>5. o = [m |-> [t EXCEPT !.wide_pushback = Follows(s)], r |-> "CR"]
    BY <1>8, <1>12, <2>1, <2>4
  <2>6. [t EXCEPT !.wide_pushback = Follows(s)] = [t EXCEPT !.wide_pushback = Follows(s), !.eof = t.eof] /\ t.eof \in BOOLEAN
    BY <2>3 DEF Record
  <2>7. o.r = "CR" /\ o.m = Pushed(t, "wide", Follows(s), t.eof)
    BY <2>5, <2>6 DEF Pushed
  <2> QED BY <2>6, <2>7 DEF t
<1> HIDE DEF c
<1>13. /\ Pending(s) = EOF /\ p < Len(s.content) => c \in Stored
       /\ Pending(s) = EOF /\ p < Len(s.content) /\ (s.binary \/ c # "CR") => o.r = c /\ o.m = Moves(b, p + 1)
  BY <1>8
<1> HIDE DEF p
<1> QED BY <1>5, <1>7, <1>10, <1>11, <1>12, <1>13 DEF ReadSays, b, p, c, o

LEMMA GetReads ==
  ASSUME StreamAssumption, NEW s \in Streams, NEW orientation \in Orientations,
         CanRead(s, orientation), ~s.failing
  PROVE  ReadSays(orientation, s, Get(orientation, s))
BY fgetcReads, fgetwcReads DEF Get, Orientations

-----------------------------------------------------------------------------
(* Where ftell says a stream is, what stands there in the text of the      *)
(* file, and the offset after it.                                          *)
Whence(s) == s.position - (IF Pending(s) # EOF THEN 1 ELSE 0)
CharAt(s, at) == IF Pair(s, at) THEN "LF" ELSE s.content[at + 1]
Past(s, at) == at + (IF Pair(s, at) THEN 2 ELSE 1)

LEMMA Telling ==
  ASSUME NEW s \in Streams, ~s.failing
  PROVE  fgetpos(s) = Whence(s)
<1>1. __wcrt_file_seek(s, 0, "SEEK_CUR") = s.position /\ s.position \in Nat
  BY SeekTarget, Fields
<1> QED BY <1>1 DEF fgetpos, Whence

(* Streams that differ at most in the position, the pushback and the end   *)
(* indicator.                                                              *)
Alike(s, o) ==
  /\ o \in Streams
  /\ o.content = s.content /\ o.binary = s.binary /\ o.failing = s.failing
  /\ o.readable = s.readable /\ o.error = s.error

(* What a read gives and where it leaves the stream.                       *)
Tells(orientation, s, o) ==
  /\ Alike(s, o.m) /\ Honest(o.m) /\ CanRead(o.m, orientation)
  /\ IF Whence(s) >= Len(s.content) THEN o.r = EOF /\ o.m.eof /\ Whence(o.m) = Whence(s)
     ELSE o.r = CharAt(s, Whence(s)) /\ o.r \in Stored /\ Whence(o.m) = Past(s, Whence(s))

LEMMA PushedType ==
  ASSUME NEW t \in Streams, NEW orientation \in Orientations, t.orientation = orientation,
         NEW c \in Char, NEW e \in BOOLEAN, t.pushback = EOF, t.wide_pushback = EOF
  PROVE  /\ Alike(t, Pushed(t, orientation, c, e))
         /\ Pending(Pushed(t, orientation, c, e)) = c
         /\ Pushed(t, orientation, c, e).position = t.position
         /\ Pushed(t, orientation, c, e).orientation = orientation
<1>1. t \in Record
  BY Fields
<1>2. CASE orientation = "byte"
  <2>1. Pushed(t, orientation, c, e) = [t EXCEPT !.pushback = c, !.eof = e]
    BY <1>2 DEF Pushed
  <2>2. [t EXCEPT !.pushback = c, !.eof = e] \in Streams
    BY <1>2 DEF Streams, Record, Oriented
  <2> QED BY ZenonT(60), <1>1, <1>2, <2>1, <2>2 DEF Alike, Pending, Record
<1>3. CASE orientation = "wide"
  <2>1. Pushed(t, orientation, c, e) = [t EXCEPT !.wide_pushback = c, !.eof = e]
    BY <1>3 DEF Pushed
  <2>2. [t EXCEPT !.wide_pushback = c, !.eof = e] \in Streams
    BY <1>3 DEF Streams, Record, Oriented
  <2> QED BY ZenonT(60), <1>1, <1>3, <2>1, <2>2 DEF Alike, Pending, Record
<1> QED BY <1>2, <1>3 DEF Orientations

LEMMA Cleared ==
  ASSUME NEW b \in Streams, NEW u, u = [b EXCEPT !.pushback = EOF, !.wide_pushback = EOF]
  PROVE  Alike(b, u) /\ u.position = b.position /\ u.orientation = b.orientation /\ Pending(u) = EOF
BY DEF Alike, Pending, Streams, Record, Oriented, Char

LEMMA Flagged ==
  ASSUME NEW b \in Streams, NEW e \in BOOLEAN, NEW u, u = Ending(b, e)
  PROVE  /\ Alike(b, u) /\ u.position = b.position /\ u.orientation = b.orientation
         /\ Pending(u) = Pending(b) /\ u.eof = e
BY DEF Alike, Pending, Streams, Record, Oriented, Ending

LEMMA MovedAway ==
  ASSUME NEW b \in Streams, NEW q \in Nat, NEW u, u = Moves(b, q)
  PROVE  Alike(b, u) /\ u.position = q /\ u.orientation = b.orientation /\ Pending(u) = Pending(b)
BY MovesTwice DEF Alike, Pending

LEMMA MovedFlagged ==
  ASSUME NEW b \in Streams, NEW q \in Nat, NEW e \in BOOLEAN, NEW u, u = Ending(Moves(b, q), e)
  PROVE  Alike(b, u) /\ u.position = q /\ u.orientation = b.orientation /\ Pending(u) = Pending(b)
<1>1. PICK t : t = Moves(b, q)
  OBVIOUS
<1>2. Alike(b, t) /\ t.position = q /\ t.orientation = b.orientation /\ Pending(t) = Pending(b)
  BY <1>1, MovedAway
<1>3. t \in Streams /\ u = Ending(t, e)
  BY <1>1, <1>2 DEF Alike
<1>4. Alike(t, u) /\ u.position = t.position /\ u.orientation = t.orientation /\ Pending(u) = Pending(t)
  BY <1>3, Flagged
<1> QED BY <1>2, <1>4 DEF Alike

(* A stream alike that the file agrees with is as honest.                  *)
LEMMA StaysHonest ==
  ASSUME NEW s \in Streams, NEW orientation \in Orientations, s.readable, Honest(s),
         NEW u, Alike(s, u), u.orientation = orientation,
         Pending(u) # EOF => /\ Pending(u) # "CR" /\ u.position \in 1..Len(s.content)
                             /\ s.content[u.position] = Pending(u)
  PROVE  Honest(u) /\ CanRead(u, orientation)
<1>1. orientation # Opposite[orientation]
  BY DEF Orientations, Opposite
<1> QED BY <1>1 DEF Honest, NoRun, CanRead, Opposed, Alike

LEMMA Told ==
  ASSUME StreamAssumption, NEW s \in Streams, NEW orientation \in Orientations,
         CanRead(s, orientation), Honest(s)
  PROVE  Tells(orientation, s, Get(orientation, s))
<1> DEFINE b == Bound(s, orientation)
           p == s.position
           c == s.content[p + 1]
           o == Get(orientation, s)
           at == Whence(s)
<1>1. /\ b \in Streams /\ b.orientation = orientation /\ b.position = s.position
      /\ Alike(s, b) /\ Pending(b) = Pending(s) /\ s.readable
  BY BoundIs DEF Alike, Pending, CanRead
<1>2. /\ ~s.failing /\ (s.binary \/ NoRun(s))
      /\ Pending(s) # EOF => Pending(s) # "CR" /\ p \in 1..Len(s.content) /\ s.content[p] = Pending(s)
  BY DEF Honest
<1>3. /\ p \in Nat /\ Len(s.content) \in Nat /\ s.binary \in BOOLEAN
      /\ \A i \in 1..Len(s.content) : s.content[i] \in Stored /\ s.content[i] # EOF
  BY Fields, ElementOfSeq, Characters
<1>4. ReadSays(orientation, s, o)
  BY <1>2, GetReads
<1> HIDE DEF b, o
<1> SUFFICES Tells(orientation, s, o)
  BY DEF o
<1>5. ASSUME NEW u, Alike(b, u), u.orientation = orientation,
             Pending(u) # EOF => /\ Pending(u) # "CR" /\ u.position \in 1..Len(s.content)
                                 /\ s.content[u.position] = Pending(u)
      PROVE  Alike(s, u) /\ Honest(u) /\ CanRead(u, orientation)
  <2>1. Alike(s, u)
    BY <1>1, <1>5 DEF Alike
  <2> QED BY <1>1, <1>5, <2>1, StaysHonest
<1>6. CASE Pending(s) # EOF
  <2>1. o.r = Pending(s) /\ o.m = [b EXCEPT !.pushback = EOF, !.wide_pushback = EOF]
    BY <1>4, <1>6 DEF ReadSays, b
  <2>2. Alike(b, o.m) /\ o.m.position = p /\ o.m.orientation = orientation /\ Pending(o.m) = EOF
    BY <1>1, <2>1, Cleared
  <2>3. Alike(s, o.m) /\ Honest(o.m) /\ CanRead(o.m, orientation)
    BY <1>5, <2>2
  <2>4. at = p - 1 /\ at < Len(s.content) /\ at + 1 = p /\ Whence(o.m) = p
    BY <1>2, <1>3, <1>6, <2>2 DEF Whence
  <2>5. ~Pair(s, at) /\ s.content[at + 1] = Pending(s) /\ Pending(s) \in Stored
    BY <1>2, <1>3, <1>6, <2>4 DEF Pair
  <2>6. CharAt(s, at) = Pending(s) /\ Past(s, at) = p
    BY <2>4, <2>5 DEF CharAt, Past
  <2> HIDE DEF at
  <2> QED BY <1>3, <2>1, <2>3, <2>4, <2>5, <2>6 DEF Tells, at
<1>7. ASSUME Pending(s) = EOF PROVE at = p
  BY <1>3, <1>7 DEF Whence
<1>8. CASE Pending(s) = EOF /\ p >= Len(s.content)
  <2>1. o.r = EOF /\ o.m = [b EXCEPT !.eof = TRUE]
    BY <1>4, <1>8 DEF ReadSays, b
  <2>2. Alike(b, o.m) /\ o.m.position = p /\ o.m.orientation = orientation /\ Pending(o.m) = EOF /\ o.m.eof
    BY ZenonT(60), <1>1, <1>8, <2>1, Flagged DEF Ending
  <2>3. Alike(s, o.m) /\ Honest(o.m) /\ CanRead(o.m, orientation)
    BY <1>5, <2>2
  <2>4. Whence(o.m) = p /\ at >= Len(s.content)
    BY <1>3, <1>7, <1>8, <2>2 DEF Whence
  <2> QED BY <1>7, <1>8, <2>1, <2>2, <2>3, <2>4 DEF Tells
<1>9. CASE Pending(s) = EOF /\ p < Len(s.content)
  <2>0. at = p /\ p + 1 \in Nat /\ p + 2 \in Nat /\ (p + 1) + 1 = p + 2 /\ c \in Stored
    BY <1>3, <1>4, <1>7, <1>9 DEF ReadSays
  <2> SUFFICES /\ Alike(s, o.m) /\ Honest(o.m) /\ CanRead(o.m, orientation)
               /\ o.r = CharAt(s, p) /\ o.r \in Stored /\ Whence(o.m) = Past(s, p)
    <3> HIDE DEF at, p
    <3> QED BY <1>3, <1>9, <2>0 DEF Tells, at, p
  <2>1. CASE s.binary \/ c # "CR"
    <3>1. o.r = c /\ o.m = Moves(b, p + 1)
      BY <1>4, <1>9, <2>1 DEF ReadSays, b
    <3>2. Alike(b, o.m) /\ o.m.position = p + 1 /\ o.m.orientation = orientation /\ Pending(o.m) = EOF
      BY <1>1, <1>9, <2>0, <3>1, MovedAway
    <3>3. Alike(s, o.m) /\ Honest(o.m) /\ CanRead(o.m, orientation)
      BY <1>5, <3>2
    <3>4. ~Pair(s, p)
      BY <2>1 DEF Pair
    <3>5. CharAt(s, p) = c /\ Past(s, p) = p + 1 /\ Whence(o.m) = p + 1
      BY <2>0, <3>2, <3>4 DEF CharAt, Past, Whence
    <3> QED BY <2>0, <3>1, <3>3, <3>5
  <2>2. CASE Pair(s, p)
    <3>1. o.r = "LF" /\ o.m = Moves(b, p + 2)
      BY <1>4, <1>9, <2>2 DEF ReadSays, b
    <3>2. Alike(b, o.m) /\ o.m.position = p + 2 /\ o.m.orientation = orientation /\ Pending(o.m) = EOF
      BY <1>1, <1>9, <2>0, <3>1, MovedAway
    <3>3. Alike(s, o.m) /\ Honest(o.m) /\ CanRead(o.m, orientation)
      BY <1>5, <3>2
    <3>4. CharAt(s, p) = "LF" /\ Past(s, p) = p + 2 /\ Whence(o.m) = p + 2 /\ "LF" \in Stored
      BY <2>0, <2>2, <3>2 DEF CharAt, Past, Whence, Stored
    <3> QED BY <3>1, <3>3, <3>4
  <2>3. CASE ~s.binary /\ c = "CR" /\ p + 1 = Len(s.content)
    <3>1. PICK e \in BOOLEAN : o.r = "CR" /\ o.m = Ending(Moves(b, p + 1), e)
      BY <1>4, <1>9, <2>3 DEF ReadSays, b
    <3>2. Alike(b, o.m) /\ o.m.position = p + 1 /\ o.m.orientation = orientation /\ Pending(o.m) = EOF
      BY <1>1, <1>9, <2>0, <3>1, MovedFlagged
    <3>3. Alike(s, o.m) /\ Honest(o.m) /\ CanRead(o.m, orientation)
      BY <1>5, <3>2
    <3>4. ~Pair(s, p)
      BY <1>3, <2>3 DEF Pair
    <3>5. CharAt(s, p) = c /\ Past(s, p) = p + 1 /\ Whence(o.m) = p + 1
      BY <2>0, <3>2, <3>4 DEF CharAt, Past, Whence
    <3> QED BY <2>0, <2>3, <3>1, <3>3, <3>5
  <2>4. CASE ~s.binary /\ c = "CR" /\ p + 1 < Len(s.content) /\ ~Pair(s, p)
    <3> DEFINE t == Moves(b, p + 2)
    <3>1. Follows(s) \notin {"CR", "LF"}
      <4>1. p + 1 \in 1..Len(s.content) - 1 /\ p + 2 <= Len(s.content)
        BY <1>3, <2>4
      <4>2. s.content[(p + 1) + 1] # "CR"
        BY <1>2, <2>4, <4>1 DEF NoRun
      <4>3. s.content[p + 2] # "LF"
        BY <2>4, <4>1 DEF Pair
      <4> QED BY <2>0, <4>2, <4>3 DEF Follows
    <3>2. PICK e \in BOOLEAN : o.r = "CR" /\ o.m = Pushed(t, orientation, Follows(s), e)
      BY <1>4, <1>9, <2>4, <3>1 DEF ReadSays, b
    <3>3. Alike(b, t) /\ t \in Streams /\ t.position = p + 2 /\ t.orientation = orientation /\ Pending(t) = EOF
      <4> HIDE DEF t
      <4>1. t = Moves(b, p + 2)
        BY DEF t
      <4>2. Alike(b, t) /\ t.position = p + 2 /\ t.orientation = orientation /\ Pending(t) = EOF
        BY <1>1, <1>9, <2>0, <4>1, MovedAway
      <4> QED BY <4>2 DEF Alike
    <3>4. t.pushback = EOF /\ t.wide_pushback = EOF
      BY <3>3, Fields DEF Pending
    <3> HIDE DEF t
    <3>5. p + 2 \in 1..Len(s.content) /\ Follows(s) \in Stored /\ Follows(s) # EOF
      BY <1>3, <2>4 DEF Follows
    <3>6. Follows(s) \in Char
      BY <3>5 DEF Char
    <3>7. /\ Alike(t, o.m) /\ Pending(o.m) = Follows(s) /\ o.m.position = p + 2 /\ o.m.orientation = orientation
      BY <3>2, <3>3, <3>4, <3>6, PushedType
    <3>8. Alike(b, o.m)
      BY <3>3, <3>7 DEF Alike
    <3>9. Alike(s, o.m) /\ Honest(o.m) /\ CanRead(o.m, orientation)
      BY <1>5, <3>1, <3>5, <3>7, <3>8 DEF Follows
    <3>10. CharAt(s, p) = c /\ Past(s, p) = p + 1 /\ Whence(o.m) = p + 1
      BY <1>3, <2>0, <2>4, <3>5, <3>7 DEF CharAt, Past, Whence
    <3> QED BY <2>0, <2>4, <3>2, <3>9, <3>10
  <2> QED BY <1>3, <1>9, <2>1, <2>2, <2>3, <2>4
<1> QED BY <1>3, <1>6, <1>8, <1>9

-----------------------------------------------------------------------------
(* The text of the file, turn by turn.                                     *)
Decodings == [text : Seq(Stored), offset : Nat]
DecodeFrom(offset) == [text |-> <<>>, offset |-> offset]
DecodeTurn(s, so) ==
  IF so.offset >= Len(s.content) THEN so
  ELSE IF Pair(s, so.offset) THEN [text |-> Append(so.text, "LF"), offset |-> so.offset + 2]
  ELSE [text |-> Append(so.text, s.content[so.offset + 1]), offset |-> so.offset + 1]
Decoding(s, offset) ==
  CHOOSE g : g = [n \in Nat |-> IF n = 0 THEN DecodeFrom(offset) ELSE DecodeTurn(s, g[n - 1])]

LEMMA CharsAt ==
  ASSUME NEW s \in Streams, NEW at \in Nat, at < Len(s.content)
  PROVE  CharAt(s, at) \in Stored /\ Past(s, at) \in Nat /\ Past(s, at) > at
<1>1. at + 1 \in 1..Len(s.content) /\ s.content \in Seq(Stored)
  BY Fields
<1>2. s.content[at + 1] \in Stored /\ "LF" \in Stored
  BY <1>1, ElementOfSeq DEF Stored
<1> QED BY <1>2 DEF CharAt, Past

LEMMA DecodeTurnIs ==
  ASSUME NEW s \in Streams, NEW so \in Decodings
  PROVE  /\ DecodeTurn(s, so) \in Decodings
         /\ so.offset >= Len(s.content) => DecodeTurn(s, so) = so
         /\ so.offset < Len(s.content) =>
              DecodeTurn(s, so) = [text |-> Append(so.text, CharAt(s, so.offset)), offset |-> Past(s, so.offset)]
<1>1. so.text \in Seq(Stored) /\ so.offset \in Nat /\ Len(s.content) \in Nat
  BY Fields DEF Decodings
<1>2. ASSUME so.offset >= Len(s.content) PROVE DecodeTurn(s, so) = so
  BY <1>2 DEF DecodeTurn
<1>3. ASSUME so.offset < Len(s.content)
      PROVE  DecodeTurn(s, so) = [text |-> Append(so.text, CharAt(s, so.offset)), offset |-> Past(s, so.offset)]
  <2>1. ~(so.offset >= Len(s.content))
    BY <1>1, <1>3
  <2> QED BY <2>1 DEF DecodeTurn, CharAt, Past
<1>4. ASSUME so.offset < Len(s.content) PROVE DecodeTurn(s, so) \in Decodings
  <2>1. CharAt(s, so.offset) \in Stored /\ Past(s, so.offset) \in Nat
    BY <1>1, <1>4, CharsAt
  <2>2. Append(so.text, CharAt(s, so.offset)) \in Seq(Stored)
    BY <1>1, <2>1, AppendProperties
  <2> QED BY <1>3, <1>4, <2>1, <2>2 DEF Decodings
<1> QED BY <1>1, <1>2, <1>3, <1>4

LEMMA DecodeTurns ==
  ASSUME NEW s \in Streams, NEW offset \in Nat
  PROVE  LET g == Decoding(s, offset)
         IN /\ \A n \in Nat : g[n] \in Decodings
            /\ g[0] = DecodeFrom(offset)
            /\ \A n \in Nat : g[n + 1] = DecodeTurn(s, g[n])
            /\ \A n \in Nat : Decoded(s, offset, n) = g[n]
<1> DEFINE start == DecodeFrom(offset)
           Step(so) == DecodeTurn(s, so)
           D == [n \in Nat |-> [so \in Decodings |-> Step(so)]]
           g == Decoding(s, offset)
<1>1. start \in Decodings
  BY DEF Decodings, DecodeFrom
<1>2. \A so \in Decodings : Step(so) \in Decodings
  BY DecodeTurnIs
<1> HIDE DEF start, Step
<1>3. D \in [Nat -> [Decodings -> Decodings]]
  BY <1>2
<1> HIDE DEF D
<1>4. PICK f : Recursive(f, Decodings, start, D)
  BY <1>1, <1>3, Recursion
<1>5. f \in [Nat -> Decodings] /\ f[0] = start /\ \A n \in Nat : f[n + 1] = D[n + 1][f[n]]
  BY <1>4 DEF Recursive
<1>6. ASSUME NEW n \in Nat PROVE f[n] = IF n = 0 THEN start ELSE Step(f[n - 1])
  <2>1. CASE n = 0
    BY <1>5, <2>1
  <2>2. CASE n # 0
    <3>1. n - 1 \in Nat /\ (n - 1) + 1 = n
      BY <2>2
    <3>2. f[n - 1] \in Decodings /\ f[n] = D[n][f[n - 1]]
      BY <1>5, <3>1
    <3> QED BY <2>2, <3>2 DEF D
  <2> QED BY <2>1, <2>2
<1>7. f = [n \in Nat |-> IF n = 0 THEN start ELSE Step(f[n - 1])]
  <2>1. f = [n \in Nat |-> f[n]]
    BY <1>5
  <2> QED BY <1>6, <2>1
<1>8. g = [n \in Nat |-> IF n = 0 THEN start ELSE Step(g[n - 1])]
  BY <1>7 DEF Decoding, Step, start
<1> HIDE DEF g
<1>9. g[0] = start /\ \A n \in Nat : g[n + 1] = Step(g[n])
  <2>1. g[0] = start
    BY <1>8
  <2>2. ASSUME NEW n \in Nat PROVE g[n + 1] = Step(g[n])
    <3>1. n + 1 \in Nat /\ n + 1 # 0 /\ (n + 1) - 1 = n
      OBVIOUS
    <3> QED BY <1>8, <3>1
  <2> QED BY <2>1, <2>2
<1>10. \A n \in Nat : g[n] \in Decodings
  <2> DEFINE T == {n \in Nat : g[n] \in Decodings}
  <2>1. 0 \in T
    BY <1>1, <1>9
  <2>2. \A n \in Nat : n \in T => n + 1 \in T
    BY <1>2, <1>9
  <2>3. \A n \in Nat : n \in T
    <3> HIDE DEF T
    <3> QED BY <2>1, <2>2, Induction
  <2> QED BY <2>3
<1>11. \A n \in Nat : Decoded(s, offset, n) = g[n]
  BY DEF Decoded, g, Decoding, DecodeFrom, DecodeTurn
<1> QED BY <1>9, <1>10, <1>11 DEF g, start, Step

(* The same in terms of Decoded, and with the types of its fields.         *)
LEMMA DecodedIs ==
  ASSUME NEW s \in Streams, NEW offset \in Nat
  PROVE  /\ Decoded(s, offset, 0) = DecodeFrom(offset)
         /\ \A n \in Nat :
              LET d == Decoded(s, offset, n)
                  e == Decoded(s, offset, n + 1)
              IN /\ d \in Decodings /\ d.text \in Seq(Stored) /\ d.offset \in Nat /\ Len(d.text) \in Nat
                 /\ d.offset >= Len(s.content) => e = d
                 /\ d.offset < Len(s.content) =>
                      /\ CharAt(s, d.offset) \in Stored
                      /\ e.text = Append(d.text, CharAt(s, d.offset)) /\ e.offset = Past(s, d.offset)
                      /\ Len(e.text) = Len(d.text) + 1 /\ e.text[Len(d.text) + 1] = CharAt(s, d.offset)
                      /\ \A i \in 1..Len(d.text) : e.text[i] = d.text[i]
<1> DEFINE g == Decoding(s, offset)
<1>1. /\ \A n \in Nat : g[n] \in Decodings
      /\ g[0] = DecodeFrom(offset)
      /\ \A n \in Nat : g[n + 1] = DecodeTurn(s, g[n])
      /\ \A n \in Nat : Decoded(s, offset, n) = g[n]
  BY DecodeTurns
<1> HIDE DEF g
<1>2. ASSUME NEW n \in Nat
      PROVE  LET d == Decoded(s, offset, n)
                 e == Decoded(s, offset, n + 1)
             IN /\ d \in Decodings /\ d.text \in Seq(Stored) /\ d.offset \in Nat /\ Len(d.text) \in Nat
                /\ d.offset >= Len(s.content) => e = d
                /\ d.offset < Len(s.content) =>
                     /\ CharAt(s, d.offset) \in Stored
                     /\ e.text = Append(d.text, CharAt(s, d.offset)) /\ e.offset = Past(s, d.offset)
                     /\ Len(e.text) = Len(d.text) + 1 /\ e.text[Len(d.text) + 1] = CharAt(s, d.offset)
                     /\ \A i \in 1..Len(d.text) : e.text[i] = d.text[i]
  <2> DEFINE d == Decoded(s, offset, n)
             e == Decoded(s, offset, n + 1)
             c == CharAt(s, d.offset)
  <2>1. d \in Decodings /\ e = DecodeTurn(s, d)
    BY <1>1
  <2> HIDE DEF d, e
  <2>2. d.text \in Seq(Stored) /\ d.offset \in Nat /\ Len(d.text) \in Nat
    BY <2>1 DEF Decodings
  <2>3. d.offset >= Len(s.content) => e = d
    BY <2>1, DecodeTurnIs
  <2>4. ASSUME d.offset < Len(s.content)
        PROVE  /\ c \in Stored
               /\ e.text = Append(d.text, c) /\ e.offset = Past(s, d.offset)
               /\ Len(e.text) = Len(d.text) + 1 /\ e.text[Len(d.text) + 1] = c
               /\ \A i \in 1..Len(d.text) : e.text[i] = d.text[i]
    <3>1. c \in Stored
      BY <2>2, <2>4, CharsAt
    <3>2. e.text = Append(d.text, c) /\ e.offset = Past(s, d.offset)
      BY <2>1, <2>4, DecodeTurnIs
    <3> HIDE DEF c
    <3> QED BY <2>2, <3>1, <3>2, AppendProperties
  <2> QED BY <2>1, <2>2, <2>3, <2>4 DEF d, e
<1> QED BY <1>1, <1>2

(* It depends on the file and the mode alone.                              *)
LEMMA DecodedAlike ==
  ASSUME NEW s, NEW u, s.content = u.content, s.binary = u.binary, NEW offset, NEW n
  PROVE  Decoded(s, offset, n) = Decoded(u, offset, n)
BY DEF Decoded, Pair


(* e is d and the character after it.                                      *)
OneMore(s, d, e) ==
  /\ e.text = Append(d.text, CharAt(s, d.offset)) /\ e.offset = Past(s, d.offset)
  /\ Len(e.text) = Len(d.text) + 1 /\ e.text[Len(d.text) + 1] = CharAt(s, d.offset)
  /\ \A i \in 1..Len(d.text) : e.text[i] = d.text[i]

(* Before the end of the text, one more turn takes one more character.      *)
LEMMA DecodedOn ==
  ASSUME NEW s \in Streams, NEW at \in Nat, NEW k \in Nat,
         Decoded(s, at, k).offset < Len(s.content)
  PROVE  OneMore(s, Decoded(s, at, k), Decoded(s, at, k + 1))
<1>1. PICK d, e : d = Decoded(s, at, k) /\ e = Decoded(s, at, k + 1)
  OBVIOUS
<1>2. OneMore(s, d, e)
  BY <1>1, DecodedIs DEF OneMore
<1> QED BY <1>1, <1>2

(* What is decoded stays: more turns only add, and none after the end.     *)
Extends(s, d, e) ==
  /\ Len(d.text) <= Len(e.text) /\ \A i \in 1..Len(d.text) : e.text[i] = d.text[i]
  /\ d.offset >= Len(s.content) => e = d
LEMMA Prefix ==
  ASSUME NEW s \in Streams, NEW offset \in Nat, NEW k \in Nat, NEW n \in Nat, k <= n
  PROVE  Extends(s, Decoded(s, offset, k), Decoded(s, offset, n))
<1> DEFINE T == {j \in Nat : Extends(s, Decoded(s, offset, k), Decoded(s, offset, k + j))}
<1>1. 0 \in T
  <2>1. PICK d : d = Decoded(s, offset, k)
    OBVIOUS
  <2>2. d \in Decodings /\ Len(d.text) \in Nat
    BY <2>1, DecodedIs
  <2>3. Extends(s, d, d)
    BY <2>2 DEF Extends
  <2>4. k + 0 = k
    OBVIOUS
  <2> QED BY <2>1, <2>3, <2>4
<1>2. ASSUME NEW j \in Nat, j \in T PROVE j + 1 \in T
  <2>1. PICK d, e, f : /\ d = Decoded(s, offset, k) /\ e = Decoded(s, offset, k + j)
                       /\ f = Decoded(s, offset, (k + j) + 1)
    OBVIOUS
  <2>2. k + j \in Nat /\ (k + j) + 1 = k + (j + 1)
    OBVIOUS
  <2>3. Extends(s, d, e)
    BY <1>2, <2>1
  <2>4. /\ e \in Decodings /\ e.offset \in Nat /\ Len(e.text) \in Nat
        /\ e.offset >= Len(s.content) => f = e
        /\ e.offset < Len(s.content) =>
             Len(f.text) = Len(e.text) + 1 /\ \A i \in 1..Len(e.text) : f.text[i] = e.text[i]
    <3>1. PICK q \in Nat : q = k + j
      BY <2>2
    <3>2. e = Decoded(s, offset, q) /\ f = Decoded(s, offset, q + 1)
      BY <2>1, <3>1
    <3> QED BY <3>2, DecodedIs
  <2>5. d.offset \in Nat /\ Len(d.text) \in Nat /\ Len(s.content) \in Nat
    BY <2>1, DecodedIs, Fields
  <2>6. Extends(s, d, f)
    BY <2>3, <2>4, <2>5 DEF Extends
  <2> QED BY <2>1, <2>2, <2>6
<1>3. \A j \in Nat : j \in T
  <2> HIDE DEF T
  <2> QED BY <1>1, <1>2, Induction
<1>4. n - k \in Nat /\ k + (n - k) = n
  OBVIOUS
<1> QED BY <1>3, <1>4

(* As many characters as turns, unless the file ends.                      *)
LEMMA DecodedLength ==
  ASSUME NEW s \in Streams, NEW offset \in Nat, NEW n \in Nat
  PROVE  LET d == Decoded(s, offset, n)
         IN /\ Len(d.text) \in Nat /\ Len(d.text) <= n /\ d.text \in Seq(Stored) /\ d.offset \in Nat
            /\ Len(d.text) = n \/ d.offset >= Len(s.content)
            /\ d = Decoded(s, offset, Len(d.text))
<1> DEFINE D(j) == Decoded(s, offset, j)
           Fine(j) == /\ Len(D(j).text) <= j
                      /\ Len(D(j).text) = j \/ D(j).offset >= Len(s.content)
                      /\ D(j) = D(Len(D(j).text))
           T == {j \in Nat : Fine(j)}
<1>0. Len(s.content) \in Nat
  BY Fields
<1>1. 0 \in T
  <2>1. D(0).text = <<>> /\ Len(D(0).text) = 0
    BY DecodedIs DEF DecodeFrom
  <2> HIDE DEF D
  <2> QED BY <2>1
<1>2. ASSUME NEW j \in Nat, j \in T PROVE j + 1 \in T
  <2>1. /\ D(j).offset \in Nat /\ Len(D(j).text) \in Nat
        /\ D(j).offset >= Len(s.content) => D(j + 1) = D(j)
        /\ D(j).offset < Len(s.content) => Len(D(j + 1).text) = Len(D(j).text) + 1
    BY DecodedIs
  <2> HIDE DEF D
  <2>2. Fine(j)
    BY <1>2
  <2> QED BY <1>0, <2>1, <2>2
<1>3. \A j \in Nat : j \in T
  <2> HIDE DEF T
  <2> QED BY <1>1, <1>2, Induction
<1> QED BY <1>3, DecodedIs

-----------------------------------------------------------------------------
(* Characters gathered from an honest stream are the text of the file from *)
(* where ftell says it is; the loop ends after a line feed or at the end.  *)
Gathers(orientation, line, s, n, g) ==
  LET d == Decoded(s, Whence(s), Len(g.r))
      fed == \E i \in 1..Len(g.r) : g.r[i] = "LF"
  IN /\ g \in Gathered /\ Alike(s, g.m) /\ Honest(g.m) /\ CanRead(g.m, orientation)
     /\ Len(g.r) \in Nat /\ Len(g.r) <= n /\ g.r = d.text /\ Whence(g.m) = d.offset
     /\ g.more => Len(g.r) = n /\ ~(line /\ fed)
     /\ ~g.more =>
          \/ /\ line /\ Len(g.r) > 0 /\ g.r[Len(g.r)] = "LF"
             /\ \A i \in 1..Len(g.r) : g.r[i] = "LF" => i = Len(g.r)
          \/ d.offset >= Len(s.content) /\ g.m.eof /\ ~(line /\ fed)

LEMMA Whereabouts ==
  ASSUME NEW s \in Streams, Honest(s)
  PROVE  Whence(s) \in Nat
<1>1. s.position \in Nat
  BY Fields
<1>2. Pending(s) # EOF => s.position \in 1..Len(s.content)
  BY DEF Honest
<1> QED BY <1>1, <1>2, Fields DEF Whence

LEMMA AlikeDecoded ==
  ASSUME NEW s \in Streams, NEW u, Alike(s, u)
  PROVE  /\ \A at : Pair(u, at) = Pair(s, at) /\ CharAt(u, at) = CharAt(s, at) /\ Past(u, at) = Past(s, at)
         /\ \A at, n : Decoded(u, at, n) = Decoded(s, at, n)
<1>1. u.content = s.content /\ u.binary = s.binary
  BY DEF Alike
<1> QED BY <1>1, DecodedAlike DEF Pair, CharAt, Past

(* One turn of the loop.                                                   *)
LEMMA GathersOn ==
  ASSUME StreamAssumption, NEW s \in Streams, NEW orientation \in Orientations, NEW line \in BOOLEAN,
         Honest(s), NEW n \in Nat, NEW g, Gathers(orientation, line, s, n, g)
  PROVE  Gathers(orientation, line, s, n + 1, Turn(orientation, line, g))
<1> DEFINE o == Get(orientation, g.m)
<1>0. PICK h, at, k, d, e, c :
        /\ h = Turn(orientation, line, g) /\ at = Whence(s) /\ k = Len(g.r)
        /\ d = Decoded(s, at, k) /\ e = Decoded(s, at, k + 1) /\ c = CharAt(s, d.offset)
  OBVIOUS
<1> SUFFICES Gathers(orientation, line, s, n + 1, h)
  BY <1>0
<1>1. /\ g \in Gathered /\ Alike(s, g.m) /\ Honest(g.m) /\ CanRead(g.m, orientation)
      /\ k \in Nat /\ k <= n /\ g.r = d.text /\ Whence(g.m) = d.offset
  BY <1>0 DEF Gathers
<1>2. h \in Gathered
  BY <1>0, <1>1, TurnType
<1>3. CASE ~g.more
  <2>1. h = g
    BY <1>0, <1>3 DEF Turn, Took
  <2>2. Len(g.r) <= n + 1
    BY <1>0, <1>1
  <2>3. Gathers(orientation, line, s, n + 1, g)
    BY <1>3, <2>2 DEF Gathers
  <2> QED BY <2>1, <2>3
<1>4. CASE g.more
  <2>1. g.m \in Streams /\ g.m.content = s.content
    BY <1>1 DEF Alike
  <2>2. Tells(orientation, g.m, o)
    BY <1>1, <2>1, Told
  <2> HIDE DEF o
  <2>3. Alike(g.m, o.m) /\ Honest(o.m) /\ CanRead(o.m, orientation)
    BY <2>2 DEF Tells
  <2>4. Alike(s, o.m)
    BY <1>1, <2>3 DEF Alike
  <2>5. /\ d.offset >= Len(s.content) => o.r = EOF /\ o.m.eof /\ Whence(o.m) = d.offset
        /\ ~(d.offset >= Len(s.content)) =>
             o.r = CharAt(g.m, d.offset) /\ o.r \in Stored /\ Whence(o.m) = Past(g.m, d.offset)
    BY <1>1, <2>1, <2>2 DEF Tells
  <2>6. /\ CharAt(g.m, d.offset) = CharAt(s, d.offset) /\ Past(g.m, d.offset) = Past(s, d.offset)
    BY <1>1, AlikeDecoded
  <2>7. at \in Nat
    BY <1>0, Whereabouts
  <2>8. k = n /\ ~(line /\ \E i \in 1..Len(g.r) : g.r[i] = "LF")
    BY <1>0, <1>4 DEF Gathers
  <2>9. d.offset \in Nat /\ Len(s.content) \in Nat
    BY <1>0, <1>1, <2>7, DecodedIs, Fields
  <2>10. CASE d.offset >= Len(s.content)
    <3>1. o.r = EOF /\ o.m.eof /\ Whence(o.m) = d.offset
      BY <2>5, <2>10
    <3>2. h = [m |-> o.m, r |-> g.r, more |-> FALSE]
      BY <1>0, <1>4, <3>1 DEF Turn, Took, o
    <3>3. h.m = o.m /\ h.r = g.r /\ ~h.more
      BY <3>2
    <3>4. Len(h.r) \in Nat /\ Len(h.r) <= n + 1
      BY <1>0, <1>1, <3>3
    <3>5. Decoded(s, Whence(s), Len(h.r)) = d
      BY <1>0, <3>3
    <3>6. h.r = d.text /\ Whence(h.m) = d.offset /\ h.m.eof
      BY <1>1, <3>1, <3>3
    <3>7. Alike(s, h.m) /\ Honest(h.m) /\ CanRead(h.m, orientation)
      BY <2>3, <2>4, <3>3
    <3>8. ~(line /\ \E i \in 1..Len(h.r) : h.r[i] = "LF")
      BY <2>8, <3>3
    <3> QED BY <1>2, <2>10, <3>3, <3>4, <3>5, <3>6, <3>7, <3>8 DEF Gathers
  <2>11. CASE d.offset < Len(s.content)
    <3>1. ~(d.offset >= Len(s.content))
      BY <2>9, <2>11
    <3>2. o.r = c /\ o.r \in Stored /\ o.r # EOF /\ Whence(o.m) = Past(s, d.offset)
      BY <1>0, <2>5, <2>6, <3>1, Characters
    <3>3. h = [m |-> o.m, r |-> Append(g.r, c), more |-> ~(line /\ c = "LF")]
      BY <1>0, <1>4, <3>2 DEF Turn, Took, o
    <3>4. h.m = o.m /\ h.r = Append(g.r, c) /\ h.more = ~(line /\ c = "LF")
      BY <3>3
    <3>5. /\ e.text = Append(d.text, c) /\ e.offset = Past(s, d.offset)
          /\ Len(e.text) = k + 1 /\ e.text[k + 1] = c
          /\ \A i \in 1..k : e.text[i] = d.text[i]
      <4>1. Len(d.text) = k /\ k \in Nat /\ d = Decoded(s, at, k) /\ e = Decoded(s, at, k + 1) /\ c = CharAt(s, d.offset)
        BY <1>0, <1>1
      <4>2. OneMore(s, Decoded(s, at, k), Decoded(s, at, k + 1))
        BY <1>0, <2>7, <2>11, <4>1, DecodedOn
      <4>3. OneMore(s, d, e)
        BY <4>1, <4>2
      <4> QED BY <4>1, <4>3 DEF OneMore
    <3>6. h.r = e.text /\ Len(h.r) = k + 1 /\ Len(h.r) = n + 1 /\ Whence(h.m) = e.offset
      BY <1>1, <2>8, <3>2, <3>4, <3>5
    <3>7. Decoded(s, Whence(s), Len(h.r)) = e
      BY <1>0, <3>6
    <3>8. h.r[k + 1] = c /\ \A i \in 1..k : h.r[i] = g.r[i]
      BY <1>1, <3>5, <3>6
    <3>9. ASSUME ~h.more
          PROVE  /\ line /\ Len(h.r) > 0 /\ h.r[Len(h.r)] = "LF"
                 /\ \A i \in 1..Len(h.r) : h.r[i] = "LF" => i = Len(h.r)
      <4>1. line /\ c = "LF"
        BY <3>4, <3>9
      <4>2. ASSUME NEW i \in 1..k PROVE h.r[i] # "LF"
        BY <1>0, <2>8, <3>8, <4>1
      <4>3. \A i \in 1..Len(h.r) : i \in 1..k \/ i = k + 1
        BY <1>1, <3>6
      <4> QED BY <1>1, <3>6, <3>8, <4>1, <4>2, <4>3
    <3>10. ASSUME h.more
           PROVE  Len(h.r) = n + 1 /\ ~(line /\ \E i \in 1..Len(h.r) : h.r[i] = "LF")
      <4>1. ~(line /\ c = "LF")
        BY <3>4, <3>10
      <4>2. ASSUME line, NEW i \in 1..k PROVE h.r[i] # "LF"
        BY <1>0, <2>8, <3>8, <4>2
      <4>3. \A i \in 1..Len(h.r) : i \in 1..k \/ i = k + 1
        BY <1>1, <3>6
      <4> QED BY <3>6, <3>8, <4>1, <4>2, <4>3
    <3>11. Alike(s, h.m) /\ Honest(h.m) /\ CanRead(h.m, orientation)
      BY <2>3, <2>4, <3>4
    <3>12. Len(h.r) \in Nat /\ Len(h.r) <= n + 1
      BY <3>6
    <3> QED BY <1>2, <3>6, <3>7, <3>9, <3>10, <3>11, <3>12 DEF Gathers
  <2> QED BY <2>9, <2>10, <2>11
<1> QED BY <1>3, <1>4

LEMMA GatherTells ==
  ASSUME StreamAssumption, NEW s \in Streams, NEW orientation \in Orientations, NEW line \in BOOLEAN,
         Honest(s), CanRead(s, orientation), NEW n \in Nat
  PROVE  Gathers(orientation, line, s, n, Gather(orientation, line, n, s))
<1> DEFINE g == Gathering(orientation, line, s)
           T == {j \in Nat : Gathers(orientation, line, s, j, g[j])}
<1>1. /\ g \in [Nat -> Gathered] /\ g[0] = GatherFrom(s)
      /\ \A j \in Nat : g[j + 1] = Turn(orientation, line, g[j])
      /\ \A j \in Nat : Gather(orientation, line, j, s) = g[j]
  BY GatherTurns
<1> HIDE DEF g
<1>2. 0 \in T
  <2>1. g[0].m = s /\ g[0].r = <<>> /\ g[0].more /\ Len(g[0].r) = 0
    BY <1>1 DEF GatherFrom
  <2>5. g[0] \in Gathered
    BY <1>1
  <2>2. Alike(s, s)
    BY DEF Alike
  <2>3. Decoded(s, Whence(s), 0).text = <<>> /\ Decoded(s, Whence(s), 0).offset = Whence(s)
    BY Whereabouts, DecodedIs DEF DecodeFrom
  <2>4. Gathers(orientation, line, s, 0, g[0])
    BY <2>1, <2>2, <2>3, <2>5 DEF Gathers
  <2> QED BY <2>4
<1>3. \A j \in Nat : j \in T => j + 1 \in T
  BY <1>1, GathersOn
<1>4. \A j \in Nat : j \in T
  <2> HIDE DEF T
  <2> QED BY <1>2, <1>3, Induction
<1> QED BY <1>1, <1>4

-----------------------------------------------------------------------------
(* A binary stream has the bytes of the file for its text.                 *)
Least2(a, b) == IF a <= 0 THEN 0 ELSE IF a <= b THEN a ELSE b
Bytewise(s, offset, n, d) ==
  /\ Len(d.text) = Least2(Len(s.content) - offset, n) /\ d.offset = offset + Len(d.text)
  /\ \A i \in 1..Len(d.text) : d.text[i] = s.content[offset + i]
LEMMA BinaryDecoded ==
  ASSUME NEW s \in Streams, s.binary, NEW offset \in Nat, NEW n \in Nat
  PROVE  Bytewise(s, offset, n, Decoded(s, offset, n))
<1> DEFINE T == {j \in Nat : Bytewise(s, offset, j, Decoded(s, offset, j))}
<1>0. Len(s.content) \in Nat
  BY Fields
<1>1. 0 \in T
  <2>1. PICK d : d = Decoded(s, offset, 0)
    OBVIOUS
  <2>2. d.text = <<>> /\ Len(d.text) = 0 /\ d.offset = offset
    BY <2>1, DecodedIs DEF DecodeFrom
  <2>3. Bytewise(s, offset, 0, d)
    BY <1>0, <2>2 DEF Bytewise, Least2
  <2> QED BY <2>1, <2>3
<1>2. ASSUME NEW j \in Nat, j \in T PROVE j + 1 \in T
  <2>1. PICK d, e : d = Decoded(s, offset, j) /\ e = Decoded(s, offset, j + 1)
    OBVIOUS
  <2>2. Bytewise(s, offset, j, d)
    BY <1>2, <2>1
  <2>3. /\ d.offset \in Nat /\ Len(d.text) \in Nat
        /\ d.offset >= Len(s.content) => e = d
        /\ d.offset < Len(s.content) =>
             /\ e.offset = Past(s, d.offset)
             /\ Len(e.text) = Len(d.text) + 1 /\ e.text[Len(d.text) + 1] = CharAt(s, d.offset)
             /\ \A i \in 1..Len(d.text) : e.text[i] = d.text[i]
    BY <2>1, DecodedIs
  <2>4. Past(s, d.offset) = d.offset + 1 /\ CharAt(s, d.offset) = s.content[d.offset + 1]
    BY DEF Past, CharAt, Pair
  <2>5. CASE d.offset >= Len(s.content)
    <3>1. e = d
      BY <2>3, <2>5
    <3>2. Bytewise(s, offset, j + 1, d)
      BY SMTT(30), <1>0, <2>2, <2>3, <2>5 DEF Bytewise, Least2
    <3> QED BY <2>1, <3>1, <3>2
  <2>6. CASE d.offset < Len(s.content)
    <3> DEFINE k == Len(d.text)
    <3>1. /\ e.offset = d.offset + 1 /\ Len(e.text) = k + 1 /\ e.text[k + 1] = s.content[d.offset + 1]
          /\ \A i \in 1..k : e.text[i] = d.text[i]
      BY <2>3, <2>4, <2>6
    <3>2. d.offset = offset + k /\ k = Least2(Len(s.content) - offset, j) /\ \A i \in 1..k : d.text[i] = s.content[offset + i]
      BY <2>2 DEF Bytewise
    <3>3. d.offset + 1 = offset + (k + 1) /\ k \in Nat
      BY <2>3, <3>2
    <3> HIDE DEF k
    <3>4. \A i \in 1..k + 1 : e.text[i] = s.content[offset + i]
      <4>1. \A i \in 1..k + 1 : i \in 1..k \/ i = k + 1
        BY <3>3
      <4> QED BY <3>1, <3>2, <3>3, <4>1
    <3>5. k + 1 = Least2(Len(s.content) - offset, j + 1)
      BY <1>0, <2>6, <3>2, <3>3 DEF Least2
    <3>6. Bytewise(s, offset, j + 1, e)
      BY <3>1, <3>3, <3>4, <3>5 DEF Bytewise
    <3> QED BY <2>1, <3>6
  <2> QED BY <1>0, <2>3, <2>5, <2>6
<1>3. \A j \in Nat : j \in T
  <2> HIDE DEF T
  <2> QED BY <1>1, <1>2, Induction
<1> QED BY <1>3

(* What a gathering loop leaves is what a caller was promised.             *)
LEMMA GatheredDelivers ==
  ASSUME NEW s \in Streams, NEW orientation \in Orientations, NEW line \in BOOLEAN, Honest(s), NEW n \in Nat,
         NEW g, Gathers(orientation, line, s, n, g), NEW o, o.m = g.m
  PROVE  /\ Delivers(s, o, g.r, n)
         /\ g.r = <<>> /\ n # 0 => o.m.eof
         /\ ~line => (Len(g.r) < n => o.m.eof) /\ g.r = Decoded(s, fgetpos(s), n).text
<1> DEFINE k == Len(g.r)
           d == Decoded(s, Whence(s), k)
<1>1. /\ Alike(s, g.m) /\ Honest(g.m) /\ k \in Nat /\ k <= n /\ g.r = d.text /\ Whence(g.m) = d.offset
  BY DEF Gathers
<1>2. fgetpos(s) = Whence(s) /\ fgetpos(g.m) = Whence(g.m) /\ Whence(s) \in Nat
  <2>1. ~s.failing /\ ~g.m.failing /\ g.m \in Streams
    BY <1>1 DEF Honest, Alike
  <2> QED BY <2>1, Telling, Whereabouts
<1>3. \/ g.more /\ k = n
      \/ ~g.more /\ line /\ k > 0 /\ g.r[k] = "LF"
      \/ ~g.more /\ d.offset >= Len(s.content) /\ g.m.eof
  <2> HIDE DEF d, k
  <2>1. g.more \in BOOLEAN
    BY DEF Gathers, Gathered
  <2> QED BY <2>1 DEF Gathers, d, k
<1>4. g.m.content = s.content /\ (g.m.error => s.error)
  BY <1>1 DEF Alike
<1>5. k > 0 => g.r # <<>>
  BY EmptySeq
<1>6. Delivers(s, o, g.r, n)
  BY <1>1, <1>2, <1>3, <1>4, <1>5 DEF Delivers
<1>7. g.r = <<>> /\ n # 0 => o.m.eof
  BY <1>1, <1>3, <1>5
<1>8. ASSUME ~line PROVE (k < n => o.m.eof) /\ g.r = Decoded(s, fgetpos(s), n).text
  <2>1. k = n \/ (d.offset >= Len(s.content) /\ g.m.eof)
    BY <1>3, <1>8
  <2>2. d.offset >= Len(s.content) => Decoded(s, Whence(s), n) = d
    <3>1. Extends(s, Decoded(s, Whence(s), k), Decoded(s, Whence(s), n))
      BY <1>1, <1>2, Prefix
    <3> QED BY <3>1 DEF Extends
  <2> HIDE DEF d
  <2>3. Decoded(s, Whence(s), n).text = g.r
    BY <1>1, <2>1, <2>2 DEF d
  <2> QED BY <1>1, <1>2, <2>1, <2>3
<1> QED BY <1>6, <1>7, <1>8

(* One character is a text of one, or of none at the end.                  *)
LEMMA OneDelivers ==
  ASSUME StreamAssumption, NEW s \in Streams, NEW orientation \in Orientations, Honest(s), CanRead(s, orientation)
  PROVE  LET o == Get(orientation, s) IN Delivers(s, o, One(o.r), 1) /\ (o.r = EOF => o.m.eof)
<1> DEFINE o == Get(orientation, s)
           at == Whence(s)
           c == CharAt(s, at)
<1>1. Tells(orientation, s, o)
  BY Told
<1> HIDE DEF o
<1>2. fgetpos(s) = Whence(s) /\ fgetpos(o.m) = Whence(o.m) /\ at \in Nat
  <2>1. ~s.failing /\ ~o.m.failing /\ o.m \in Streams
    BY <1>1 DEF Honest, Alike, Tells
  <2> QED BY <2>1, Telling, Whereabouts
<1>3. Len(s.content) \in Nat
  BY Fields
<1>4. o.m.content = s.content /\ (o.m.error => s.error)
  BY <1>1 DEF Alike, Tells
<1>5. /\ Decoded(s, at, 0).text = <<>> /\ Decoded(s, at, 0).offset = at
      /\ at < Len(s.content) =>
           Decoded(s, at, 1).text = <<c>> /\ Decoded(s, at, 1).offset = Past(s, at)
  <2>1. Decoded(s, at, 0) = DecodeFrom(at)
    BY <1>2, DecodedIs
  <2>2. Decoded(s, at, 0).text = <<>> /\ Decoded(s, at, 0).offset = at
    BY <2>1 DEF DecodeFrom
  <2>3. ASSUME at < Len(s.content)
        PROVE  Decoded(s, at, 1).text = <<c>> /\ Decoded(s, at, 1).offset = Past(s, at)
    <3>1. PICK d, e : d = Decoded(s, at, 0) /\ e = Decoded(s, at, 0 + 1)
      OBVIOUS
    <3>2. d.offset < Len(s.content) => e.text = Append(d.text, CharAt(s, d.offset)) /\ e.offset = Past(s, d.offset)
      BY <1>2, <3>1, DecodedIs
    <3>3. e.text = Append(<<>>, c) /\ e.offset = Past(s, at)
      BY <2>2, <2>3, <3>1, <3>2
    <3>4. Append(<<>>, c) = <<c>> /\ 0 + 1 = 1
      OBVIOUS
    <3> QED BY <3>1, <3>3, <3>4
  <2> QED BY <2>2, <2>3
<1>6. CASE at >= Len(s.content)
  <2>1. o.r = EOF /\ o.m.eof /\ Whence(o.m) = at
    BY <1>1, <1>6 DEF Tells
  <2>2. One(o.r) = <<>> /\ Len(One(o.r)) = 0
    BY <2>1 DEF One
  <2> QED BY <1>2, <1>4, <1>5, <1>6, <2>1, <2>2 DEF Delivers, o
<1>7. CASE ~(at >= Len(s.content))
  <2>1. o.r = c /\ o.r \in Stored /\ Whence(o.m) = Past(s, at)
    BY <1>1, <1>7 DEF Tells
  <2>2. o.r # EOF
    BY <2>1, Characters
  <2>3. One(o.r) = <<c>> /\ Len(One(o.r)) = 1
    BY <2>1, <2>2 DEF One
  <2>4. at < Len(s.content)
    BY <1>2, <1>3, <1>7
  <2> HIDE DEF c
  <2> QED BY <1>2, <1>4, <1>5, <2>1, <2>2, <2>3, <2>4 DEF Delivers, o
<1> QED BY <1>6, <1>7

(* Binding the orientation changes nothing that a reader sees.             *)
LEMMA BoundSame ==
  ASSUME StreamAssumption, NEW s \in Streams, NEW orientation \in Orientations, Honest(s), CanRead(s, orientation),
         NEW b, b = Bound(s, orientation)
  PROVE  /\ b \in Streams /\ Honest(b) /\ CanRead(b, orientation) /\ Alike(s, b) /\ Whence(b) = Whence(s)
         /\ \A o, got, n : Delivers(b, o, got, n) => Delivers(s, o, got, n)
         /\ fgetpos(b) = fgetpos(s)
<1>1. /\ b \in Streams /\ b.readable /\ ~Opposed(b, orientation)
      /\ b.content = s.content /\ b.position = s.position /\ b.binary = s.binary /\ b.failing = s.failing
      /\ b.pushback = s.pushback /\ b.wide_pushback = s.wide_pushback /\ b.error = s.error /\ s.readable
  BY BoundIs DEF CanRead
<1>2. Pending(b) = Pending(s)
  BY <1>1 DEF Pending
<1>3. Alike(s, b) /\ Whence(b) = Whence(s)
  BY <1>1, <1>2 DEF Alike, Whence
<1>4. Honest(b) /\ CanRead(b, orientation)
  BY <1>1, <1>2 DEF Honest, NoRun, CanRead
<1>5. fgetpos(b) = fgetpos(s)
  <2>1. ~s.failing /\ ~b.failing
    BY <1>1 DEF Honest
  <2> QED BY <1>1, <1>3, <2>1, Telling
<1>6. ASSUME NEW o, NEW got, NEW n, Delivers(b, o, got, n) PROVE Delivers(s, o, got, n)
  <2>1. Decoded(b, fgetpos(b), Len(got)) = Decoded(s, fgetpos(s), Len(got))
    BY <1>3, <1>5, AlikeDecoded
  <2> QED BY <1>1, <1>6, <2>1 DEF Delivers
<1> QED BY <1>1, <1>3, <1>4, <1>5, <1>6

(* fread of a binary stream, in the terms of what it reads.                *)
Before(s) == IF s.pushback = EOF THEN <<>> ELSE <<s.pushback>>
Block(s, n) == __wcrt_file_read([s EXCEPT !.pushback = EOF], n - Len(Before(s)))
Taken(s, n, read, got) ==
  [m |-> [read.m EXCEPT !.position = IF s.failing THEN s.position ELSE @,
                        !.error = @ \/ (s.failing /\ Len(got) < n),
                        !.eof = @ \/ (~s.failing /\ Len(got) < n)], r |-> got]
LEMMA BlockIs ==
  ASSUME NEW stream, NEW n \in Nat \ {0}, NEW s, s = __wcrt_orient_stream(stream, "byte"),
         ~(Opposed(s, "byte") \/ ~s.readable), s.binary
  PROVE  fread(stream, n, 1) =
           Taken(s, n, Block(s, n), Before(s) \o (IF s.failing THEN <<>> ELSE Block(s, n).r))
<1>1. n * 1 = n /\ n # 0
  OBVIOUS
<1> QED BY ZenonT(60), <1>1 DEF fread, Taken, Block, Before

(* What fread takes from a binary stream, pushed back or read.             *)
LEMMA BinaryBlock ==
  ASSUME StreamAssumption, NEW s \in Streams, Honest(s), CanRead(s, "byte"), s.binary, NEW n \in Nat \ {0}
  PROVE  LET o == fread(s, n, 1)
             got == o.r
         IN /\ got \in Seq(Stored) /\ Len(got) = Least2(Len(s.content) - Whence(s), n)
            /\ \A i \in 1..Len(got) : got[i] = s.content[Whence(s) + i]
            /\ o.m \in Streams /\ ~o.m.failing /\ o.m.content = s.content /\ (o.m.error => s.error)
            /\ Whence(o.m) = Whence(s) + Len(got) /\ (Len(got) < n => o.m.eof)
<1> DEFINE b == Bound(s, "byte")
           pushed == IF b.pushback = EOF THEN <<>> ELSE <<b.pushback>>
           t == [b EXCEPT !.pushback = EOF]
           read == __wcrt_file_read(t, n - Len(pushed))
           got == pushed \o read.r
           u == [read.m EXCEPT !.eof = @ \/ Len(got) < n]
           p == s.position
<1>0. "byte" \in Orientations
  BY DEF Orientations
<1>1. /\ __wcrt_orient_stream(s, "byte") = b
      /\ b \in Streams /\ b.readable /\ b.orientation = "byte" /\ ~Opposed(b, "byte")
      /\ b.content = s.content /\ b.position = p /\ b.binary = s.binary /\ b.failing = s.failing
      /\ b.pushback = s.pushback /\ b.wide_pushback = s.wide_pushback /\ b.error = s.error
  BY <1>0, BoundIs
<1>2. /\ ~s.failing /\ p \in Nat /\ Len(s.content) \in Nat
      /\ Pending(s) # EOF => p \in 1..Len(s.content) /\ s.content[p] = Pending(s)
  BY Fields DEF Honest
<1>3. b.wide_pushback = EOF /\ Pending(s) = b.pushback
  <2>1. b \in Record /\ Oriented(b)
    BY <1>1, Fields
  <2>2. b.wide_pushback = EOF
    BY <1>1, <2>1 DEF Oriented
  <2> QED BY <1>1, <2>2 DEF Pending
<1> HIDE DEF b
<1>4. t \in Streams /\ t.content = s.content /\ t.position = p /\ t.pushback = EOF /\ t.wide_pushback = EOF
      /\ t.failing = s.failing /\ t.error = s.error
  <2>1. t \in Streams /\ b \in Record
    BY <1>1, Changes, Fields
  <2> QED BY <1>1, <1>3, <2>1 DEF Record
<1>5. /\ pushed \in Seq(Stored)
      /\ \/ Pending(s) = EOF /\ Len(pushed) = 0 /\ Whence(s) = p
         \/ Pending(s) # EOF /\ Len(pushed) = 1 /\ Whence(s) = p - 1 /\ p >= 1 /\ p <= Len(s.content)
      /\ \A i \in 1..Len(pushed) : pushed[i] = s.content[p]
      /\ Whence(s) = p - Len(pushed) /\ Whence(s) \in Nat
  <2>1. CASE Pending(s) = EOF
    BY <1>2, <1>3, <2>1 DEF Whence
  <2>2. CASE Pending(s) # EOF
    <3>1. s.content[p] \in Stored
      BY <1>2, <2>2, Fields, ElementOfSeq
    <3>2. pushed = <<s.content[p]>>
      BY <1>2, <1>3, <2>2
    <3> HIDE DEF pushed
    <3> QED BY <1>2, <2>2, <3>1, <3>2 DEF Whence
  <2> QED BY <2>1, <2>2
<1> HIDE DEF pushed, t
<1>6. PICK k \in Nat : k = n - Len(pushed)
  <2>1. PICK j \in Nat : j = Len(pushed) /\ j <= 1
    <3>1. Len(pushed) = 0 \/ Len(pushed) = 1
      BY <1>5
    <3> QED BY <3>1
  <2>2. n - j \in Nat
    BY <2>1
  <2> QED BY <2>1, <2>2
<1>7. /\ read.r \in Seq(Stored)
      /\ Len(read.r) = Least2(Len(s.content) - p, k)
      /\ \A i \in 1..Len(read.r) : read.r[i] = s.content[p + i]
      /\ read.m = [t EXCEPT !.position = p + Len(read.r)]
      /\ read.m \in Streams
  BY SMTT(30), <1>4, <1>6, FileRead DEF Least2
<1> DEFINE a == Len(pushed)
           z == Len(read.r)
<1>8. fread(s, n, 1) = [m |-> u, r |-> got]
  <2>1. n * 1 = n /\ n # 0
    OBVIOUS
  <2>2. /\ ~b.failing /\ b.binary /\ read.m \in Record
    BY <1>1, <1>2, <1>7, Fields
  <2>3. pushed = Before(b) /\ read = Block(b, n)
    BY DEF Before, Block, pushed, t
  <2>6. fread(s, n, 1) = Taken(b, n, Block(b, n), Before(b) \o (IF b.failing THEN <<>> ELSE Block(b, n).r))
    <3>1. b = __wcrt_orient_stream(s, "byte") /\ ~(Opposed(b, "byte") \/ ~b.readable) /\ b.binary
      BY <1>1, <2>2
    <3> HIDE DEF read, got, u
    <3> QED BY <3>1, BlockIs
  <2>7. fread(s, n, 1) = Taken(b, n, read, got)
    BY <2>2, <2>3, <2>6
  <2>4. fread(s, n, 1) =
          [m |-> [read.m EXCEPT !.position = @, !.error = @ \/ FALSE, !.eof = @ \/ Len(got) < n], r |-> got]
    <3> HIDE DEF read, got, u
    <3> QED BY <2>2, <2>7 DEF Taken
  <2> HIDE DEF read, got
  <2>5. [read.m EXCEPT !.position = @, !.error = @ \/ FALSE, !.eof = @ \/ Len(got) < n] = u
    BY <2>2 DEF Record
  <2> QED BY <2>4, <2>5
<1> HIDE DEF read
<1>9. /\ got \in Seq(Stored) /\ Len(got) = Len(pushed) + Len(read.r)
      /\ \A i \in 1..Len(pushed) + Len(read.r) :
           got[i] = IF i <= Len(pushed) THEN pushed[i] ELSE read.r[i - Len(pushed)]
  <2>1. PICK x \in Seq(Stored), y \in Seq(Stored) : x = pushed /\ y = read.r
    BY <1>5, <1>7
  <2>2. /\ x \o y \in Seq(Stored) /\ Len(x \o y) = Len(x) + Len(y)
        /\ \A i \in 1..Len(x) + Len(y) : (x \o y)[i] = IF i <= Len(x) THEN x[i] ELSE y[i - Len(x)]
    BY ConcatProperties
  <2>3. got = x \o y
    BY <2>1
  <2> HIDE DEF got
  <2> QED BY <2>1, <2>2, <2>3
<1> HIDE DEF got
<1>10. /\ u \in Streams /\ u.content = s.content /\ ~u.failing /\ u.error = s.error
       /\ u.position = p + Len(read.r) /\ Pending(u) = EOF /\ (Len(got) < n => u.eof)
  <2>1. t \in Record /\ read.m \in Record /\ Oriented(read.m)
    BY <1>4, <1>7, Fields
  <2>2. p + Len(read.r) \in Nat
    BY <1>2, <1>7, LenProperties
  <2>3. /\ read.m.content = s.content /\ ~read.m.failing /\ read.m.error = s.error
        /\ read.m.position = p + Len(read.r) /\ read.m.pushback = EOF /\ read.m.wide_pushback = EOF
    BY <1>2, <1>4, <1>7, <2>1 DEF Record
  <2>4. u \in Streams
    BY SMTT(30), <2>1 DEF Streams, Record, Oriented
  <2> QED BY <2>1, <2>3, <2>4 DEF Record, Pending
<1> HIDE DEF u
<1>11. z \in Nat /\ a \in 0..1
  BY <1>5, <1>7, LenProperties
<1>15. PICK w, h, y, N, P, L :
         w = Whence(s) /\ h = a /\ y = z /\ N = Len(s.content) /\ P = p /\ L = Len(got)
  OBVIOUS
<1>16. /\ y \in Nat /\ N \in Nat /\ P \in Nat /\ L = h + y /\ y = Least2(N - P, k) /\ k = n - h
       /\ (h = 0 /\ w = P) \/ (h = 1 /\ w = P - 1 /\ P >= 1 /\ P <= N)
  BY <1>2, <1>5, <1>6, <1>7, <1>9, <1>11, <1>15
<1>12. Len(got) = Least2(Len(s.content) - Whence(s), n)
  <2>1. L = Least2(N - w, n)
    BY <1>16 DEF Least2
  <2> QED BY <1>15, <2>1
<1>18. y \in Nat /\ P \in Nat /\ ((h = 0 /\ w = P) \/ (h = 1 /\ w = P - 1))
  BY <1>16
<1>13. ASSUME NEW i \in 1..Len(got) PROVE got[i] = s.content[Whence(s) + i]
  <2>0. i \in Int /\ i >= 1 /\ i <= h + y
    BY <1>15, <1>16
  <2>1. CASE i <= Len(pushed)
    <3>1. i \in 1..h /\ i \in 1..h + y /\ w + i = P
      <4>1. i <= h
        BY <1>15, <2>1
      <4> QED BY <1>18, <2>0, <4>1
    <3>2. got[i] = pushed[i] /\ pushed[i] = s.content[P]
      BY <1>5, <1>9, <1>15, <2>1, <3>1
    <3> QED BY <1>15, <3>1, <3>2
  <2>2. CASE ~(i <= Len(pushed))
    <3>1. i - h \in 1..y /\ P + (i - h) = w + i /\ i \in 1..h + y
      <4>1. ~(i <= h)
        BY <1>15, <2>2
      <4> QED BY <1>18, <2>0, <4>1
    <3>2. got[i] = read.r[i - h] /\ read.r[i - h] = s.content[P + (i - h)]
      BY <1>7, <1>9, <1>15, <2>2, <3>1
    <3> QED BY <1>15, <3>1, <3>2
  <2> QED BY <2>1, <2>2
<1>14. Whence(u) = Whence(s) + Len(got)
  <2>1. Whence(u) = P + y
    BY <1>10, <1>15, <1>16 DEF Whence
  <2>2. Whence(u) = w + L
    BY <1>16, <2>1
  <2> QED BY <1>15, <2>2
<1>17. fread(s, n, 1).m = u /\ fread(s, n, 1).r = got
  BY <1>8
<1> QED BY <1>9, <1>10, <1>12, <1>13, <1>14, <1>17

LEMMA freadDelivers ==
  ASSUME StreamAssumption, NEW s \in Streams, Honest(s), CanRead(s, "byte"), NEW n \in Nat \ {0}
  PROVE  LET o == fread(s, n, 1)
         IN /\ Delivers(s, o, o.r, n) /\ (Len(o.r) < n => o.m.eof)
            /\ o.r = Decoded(s, fgetpos(s), n).text
<1> DEFINE o == fread(s, n, 1)
           b == Bound(s, "byte")
<1>0. "byte" \in Orientations
  BY DEF Orientations
<1>1. CASE ~s.binary
  <2>1. /\ b \in Streams /\ Honest(b) /\ CanRead(b, "byte") /\ Alike(s, b) /\ Whence(b) = Whence(s)
        /\ \A v, got, k : Delivers(b, v, got, k) => Delivers(s, v, got, k)
        /\ fgetpos(b) = fgetpos(s)
    BY <1>0, BoundSame
  <2>2. __wcrt_orient_stream(s, "byte") = b /\ ~Opposed(b, "byte") /\ b.readable /\ ~b.binary
    BY <1>0, <1>1, BoundIs
  <2> DEFINE g == Gather("byte", FALSE, n, b)
  <2>3. o = g
    <3>1. n * 1 = n /\ n # 0
      OBVIOUS
    <3> HIDE DEF b
    <3> QED BY <2>2, <3>1 DEF fread
  <2> HIDE DEF b
  <2>4. Gathers("byte", FALSE, b, n, g)
    BY <1>0, <2>1, GatherTells
  <2> HIDE DEF g, o
  <2>5. o.m = g.m
    BY <2>3
  <2>6. /\ Delivers(b, o, g.r, n)
        /\ Len(g.r) < n => o.m.eof
        /\ g.r = Decoded(b, fgetpos(b), n).text
    BY <1>0, <2>1, <2>4, <2>5, GatheredDelivers
  <2>7. Decoded(b, fgetpos(b), n) = Decoded(s, fgetpos(s), n)
    BY <2>1, AlikeDecoded
  <2> QED BY <2>1, <2>3, <2>6, <2>7 DEF o
<1>2. CASE s.binary
  <2> DEFINE at == Whence(s)
             d == Decoded(s, at, n)
             e == Decoded(s, at, Len(o.r))
  <2>1. /\ o.r \in Seq(Stored) /\ Len(o.r) = Least2(Len(s.content) - at, n)
        /\ \A i \in 1..Len(o.r) : o.r[i] = s.content[at + i]
        /\ o.m \in Streams /\ ~o.m.failing /\ o.m.content = s.content /\ (o.m.error => s.error)
        /\ Whence(o.m) = at + Len(o.r) /\ (Len(o.r) < n => o.m.eof)
    BY <1>2, BinaryBlock
  <2> HIDE DEF o
  <2>2. at \in Nat /\ fgetpos(s) = at /\ fgetpos(o.m) = Whence(o.m)
    BY <2>1, Whereabouts, Telling DEF Honest
  <2>3. Bytewise(s, at, n, d)
    BY <1>2, <2>2, BinaryDecoded
  <2>4. d.text \in Seq(Stored) /\ d.offset \in Nat /\ Len(d.text) \in Nat
    BY <2>2, DecodedIs
  <2>5. o.r = d.text
    <3>1. PICK x \in Seq(Stored), y \in Seq(Stored) : x = o.r /\ y = d.text
      BY <2>1, <2>4
    <3>2. Len(x) = Len(y) /\ \A i \in 1..Len(x) : x[i] = y[i]
      BY <2>1, <2>3, <3>1 DEF Bytewise
    <3>3. x = y
      BY <3>2, SeqEqual
    <3> QED BY <3>1, <3>3
  <2>6. e = d /\ (Len(d.text) = n \/ d.offset >= Len(s.content))
    BY <2>2, <2>5, DecodedLength
  <2>7. d.offset = at + Len(o.r)
    BY <2>3, <2>5 DEF Bytewise
  <2>8. Delivers(s, o, o.r, n)
    <3> HIDE DEF d
    <3> QED BY <2>1, <2>2, <2>5, <2>6, <2>7 DEF Delivers, e
  <2> QED BY <2>1, <2>2, <2>5, <2>8 DEF o
<1> QED BY <1>1, <1>2

-----------------------------------------------------------------------------
(* A read that gives nothing says why, and one that is not refused leaves  *)
(* the error indicator alone.                                              *)
Kept(s, x) ==
  x \in Outcomes /\ x.m.error = s.error /\ x.m.orientation = "byte" /\ (x.r = EOF => x.m.eof)

LEMMA ungetcKeeps ==
  ASSUME NEW s \in Streams, s.orientation = "byte", NEW c \in Char
  PROVE  ungetc(c, s).m.error = s.error /\ ungetc(c, s).m.orientation = "byte"
<1>1. __wcrt_orient_stream(s, "byte") = s /\ ~Opposed(s, "byte") /\ s \in Record
  BY Binding, Fields DEF Orientations, Opposed, Opposite
<1> QED BY <1>1 DEF ungetc, Record

LEMMA TranslatedKeeps ==
  ASSUME StreamAssumption, NEW s \in Streams, s.orientation = "byte", NEW p \in Nat,
         NEW x, p < Len(s.content) => Kept(s, x)
  PROVE  Kept(s, Translated(__wcrt_file_read(Moves(s, p), 1), x))
<1> DEFINE t == Moves(s, p)
           read == __wcrt_file_read(t, 1)
           o == Translated(read, x)
<1>1. /\ t \in Streams /\ t.position = p /\ t.content = s.content /\ t.error = s.error /\ t.orientation = "byte"
      /\ Len(s.content) \in Nat
  BY MovesTwice, Fields
<1> HIDE DEF t
<1>2. CASE p >= Len(s.content)
  <2>1. read = [m |-> t, r |-> <<>>]
    BY <1>1, <1>2, ReadOne
  <2> DEFINE u == [t EXCEPT !.eof = TRUE]
  <2>2. o = [m |-> u, r |-> EOF]
    <3>1. read.m = t /\ read.r = <<>>
      BY <2>1
    <3> HIDE DEF read
    <3> QED BY <3>1 DEF Translated
  <2>3. u \in Streams /\ u.error = t.error /\ u.orientation = t.orientation /\ u.eof
    BY <1>1 DEF Streams, Record, Oriented
  <2> HIDE DEF u, o
  <2>4. o \in Outcomes /\ o.m = u
    BY <2>2, <2>3 DEF Outcomes, Char
  <2> QED BY <1>1, <2>3, <2>4 DEF Kept, o, t
<1>3. CASE p < Len(s.content)
  <2> DEFINE c == s.content[p + 1]
             u == Moves(t, p + 1)
  <2>1. c \in Stored /\ read = [m |-> u, r |-> <<c>>]
    BY <1>1, <1>3, ReadOne DEF Moves
  <2>2. p + 1 \in Nat
    OBVIOUS
  <2>3. u \in Streams /\ u.error = t.error /\ u.orientation = t.orientation
    BY <1>1, <2>2, MovesTwice
  <2> HIDE DEF c, u
  <2>4. o = IF u.binary \/ c # "CR" THEN [m |-> u, r |-> c]
            ELSE IF x.r = "LF" THEN x
            ELSE [m |-> ungetc(x.r, x.m).m, r |-> "CR"]
    <3>1. read.m = u /\ read.r = <<c>> /\ <<c>> # <<>> /\ <<c>>[1] = c /\ (<<c>> # <<"CR">> <=> c # "CR")
      BY <2>1
    <3> HIDE DEF read
    <3> QED BY <3>1 DEF Translated
  <2>5. Kept(s, x) /\ x.m \in Streams /\ x.r \in Char
    BY <1>3 DEF Kept, Outcomes
  <2>6. Kept(s, [m |-> u, r |-> c])
    BY <1>1, <2>1, <2>3, Characters DEF Kept, Outcomes, Char
  <2>7. Kept(s, [m |-> ungetc(x.r, x.m).m, r |-> "CR"])
    <3>0. PICK v : v = ungetc(x.r, x.m).m
      OBVIOUS
    <3>1. v.error = x.m.error /\ v.orientation = "byte"
      BY <2>5, <3>0, ungetcKeeps DEF Kept
    <3>2. v \in Streams
      BY <2>5, <3>0, ungetcType DEF Outcomes
    <3>3. "CR" \in Char /\ "CR" # EOF
      BY Characters DEF Char
    <3>4. v.error = s.error
      BY <2>5, <3>1 DEF Kept
    <3>5. Kept(s, [m |-> v, r |-> "CR"])
      BY <3>1, <3>2, <3>3, <3>4 DEF Kept, Outcomes
    <3> QED BY <3>0, <3>5
  <2> HIDE DEF o
  <2>8. Kept(s, o)
    BY <2>4, <2>5, <2>6, <2>7
  <2> QED BY <2>8 DEF o, t
<1> QED BY <1>1, <1>2, <1>3

LEMMA InsideKeeps ==
  ASSUME StreamAssumption, NEW s \in Streams, s.orientation = "byte"
  PROVE  \A left \in 0..Len(s.content) : Kept(s, Inside(s)[left])
<1> DEFINE N == Len(s.content)
           g == Inside(s)
           T == {n \in Nat : n <= N => Kept(s, g[n])}
<1>0. N \in Nat
  BY Fields
<1>1. ASSUME NEW n \in 0..N, n # 0 => Kept(s, g[n - 1]) PROVE Kept(s, g[n])
  <2>0. N - n \in Nat
    BY <1>0
  <2>1. PICK p \in Nat : p = N - n
    BY <2>0
  <2>2. g[n] = Translated(__wcrt_file_read(Moves(s, p), 1), g[n - 1])
    BY <1>0, <2>1, InnerCalls DEF Inner, Moves
  <2>3. p < N => n # 0
    BY <1>0, <2>1
  <2> HIDE DEF g
  <2> QED BY <1>1, <2>2, <2>3, TranslatedKeeps
<1> HIDE DEF g
<1>2. 0 \in T
  BY <1>0, <1>1
<1>3. ASSUME NEW n \in Nat, n \in T PROVE n + 1 \in T
  <2> SUFFICES ASSUME n + 1 <= N PROVE Kept(s, g[n + 1])
    OBVIOUS
  <2>1. n + 1 \in 0..N /\ (n + 1) - 1 = n /\ Kept(s, g[n])
    BY <1>0, <1>3
  <2> QED BY <1>1, <2>1
<1>4. \A n \in Nat : n \in T
  <2> HIDE DEF T
  <2> QED BY <1>2, <1>3, Induction
<1> QED BY <1>0, <1>4 DEF g

LEMMA fgetcExplained ==
  ASSUME StreamAssumption, NEW stream \in Streams
  PROVE  LET o == fgetc(stream)
         IN /\ o.r = EOF => o.m.eof \/ o.m.error
            /\ CanRead(stream, "byte") /\ ~stream.failing => o.m.error = stream.error /\ (o.r = EOF => o.m.eof)
<1> DEFINE s == __wcrt_orient_stream(stream, "byte")
           read == __wcrt_file_read(s, 1)
           x == Inside(s)[Left(read.m)]
           o == fgetc(stream)
<1>0. "byte" \in Orientations
  BY DEF Orientations
<1>1. /\ s \in Streams /\ s \in Record /\ Opposed(s, "byte") = Opposed(stream, "byte")
      /\ (~Opposed(s, "byte") => s.orientation = "byte")
      /\ s.readable = stream.readable /\ s.failing = stream.failing /\ s.error = stream.error
  <2>1. /\ s \in Streams /\ Opposed(s, "byte") = Opposed(stream, "byte")
        /\ (~Opposed(s, "byte") => s.orientation = "byte") /\ s = [stream EXCEPT !.orientation = s.orientation]
    BY <1>0, Binding
  <2>2. stream \in Record
    BY Fields
  <2> HIDE DEF s
  <2> QED BY <2>1, <2>2, Fields DEF Record
<1>2. o = IF Opposed(s, "byte") \/ ~s.readable THEN Err(s)
          ELSE IF s.pushback # EOF THEN [m |-> [s EXCEPT !.pushback = EOF], r |-> s.pushback]
          ELSE IF s.failing THEN Err(s)
          ELSE Translated(read, x)
  BY fgetcInside
<1> HIDE DEF s, o
<1>3. Err(s).m.error
  BY <1>1 DEF Err, Record
<1>4. [s EXCEPT !.pushback = EOF].error = s.error
  BY <1>1 DEF Record
<1>5. ASSUME ~Opposed(s, "byte") PROVE Kept(s, Translated(read, x))
  <2>1. PICK p \in Nat : p = s.position
    BY <1>1, Fields
  <2>2. s = Moves(s, p) /\ Len(s.content) \in Nat /\ s.orientation = "byte"
    BY <1>1, <1>5, <2>1, Fields DEF Record, Moves
  <2>3. ASSUME p < Len(s.content) PROVE Kept(s, x)
    <3>1. read.m = Moves(s, p + 1)
      BY <1>1, <2>1, <2>3, ReadOne DEF Moves
    <3>2. read.m.content = s.content /\ read.m.position = p + 1
      BY <1>1, <3>1, MovesTwice
    <3> HIDE DEF read
    <3>3. Left(read.m) \in 0..Len(s.content)
      BY <2>2, <2>3, <3>2 DEF Left
    <3> QED BY <1>1, <2>2, <3>3, InsideKeeps
  <2> HIDE DEF x
  <2>4. Kept(s, Translated(__wcrt_file_read(Moves(s, p), 1), x))
    BY <1>1, <2>2, <2>3, TranslatedKeeps
  <2> QED BY <2>2, <2>4
<1> HIDE DEF read, x
<1>6. o.r = EOF => o.m.eof \/ o.m.error
  BY <1>2, <1>3, <1>4, <1>5 DEF Kept
<1>7. ASSUME CanRead(stream, "byte"), ~stream.failing
      PROVE  o.m.error = stream.error /\ (o.r = EOF => o.m.eof)
  BY <1>1, <1>2, <1>4, <1>5, <1>7 DEF CanRead, Kept
<1> QED BY <1>6, <1>7 DEF o

(* So does the loop, when it is cut short.                                 *)
LEMMA GatherExplained ==
  ASSUME StreamAssumption, NEW s \in Streams, NEW n \in Nat
  PROVE  LET g == Gather("byte", FALSE, n, s)
         IN /\ Len(g.r) \in Nat /\ Len(g.r) <= n
            /\ Len(g.r) < n => g.m.eof \/ g.m.error
<1> DEFINE g == Gathering("byte", FALSE, s)
           Fine(j) == /\ Len(g[j].r) \in Nat /\ Len(g[j].r) <= j
                      /\ g[j].more => Len(g[j].r) = j
                      /\ ~g[j].more => g[j].m.eof \/ g[j].m.error
           T == {j \in Nat : Fine(j)}
<1>1. /\ g \in [Nat -> Gathered] /\ g[0] = GatherFrom(s)
      /\ \A j \in Nat : g[j + 1] = Turn("byte", FALSE, g[j])
      /\ \A j \in Nat : Gather("byte", FALSE, j, s) = g[j]
  BY ZenonT(60), GatherTurns
<1> HIDE DEF g
<1>2. 0 \in T
  BY <1>1 DEF GatherFrom
<1>3. ASSUME NEW j \in Nat, j \in T PROVE j + 1 \in T
  <2> DEFINE so == g[j]
             o == fgetc(so.m)
  <2>1. so \in Gathered /\ Fine(j) /\ g[j + 1] = Turn("byte", FALSE, so)
    BY <1>1, <1>3
  <2>2. so.m \in Streams /\ so.r \in Seq(Stored) /\ so.more \in BOOLEAN
    BY <2>1 DEF Gathered
  <2>3. /\ o.r = EOF => o.m.eof \/ o.m.error
        /\ o.r \in Char
    BY <2>2, fgetcExplained, fgetcType DEF Outcomes
  <2>4. g[j + 1] = IF ~so.more THEN so
                   ELSE IF o.r = EOF THEN [m |-> o.m, r |-> so.r, more |-> FALSE]
                   ELSE [m |-> o.m, r |-> Append(so.r, o.r), more |-> TRUE]
    BY <2>1 DEF Turn, Took, Get
  <2>5. o.r # EOF => Len(Append(so.r, o.r)) = Len(so.r) + 1
    <3>1. o.r # EOF => o.r \in Stored
      BY <2>3 DEF Char
    <3> QED BY <2>2, <3>1, AppendProperties
  <2> HIDE DEF o
  <2>6. CASE ~so.more
    BY <2>1, <2>4, <2>6
  <2>7. CASE so.more /\ o.r = EOF
    BY <2>1, <2>3, <2>4, <2>7
  <2>8. CASE so.more /\ o.r # EOF
    BY <2>1, <2>4, <2>5, <2>8
  <2> QED BY <2>2, <2>6, <2>7, <2>8
<1>4. \A j \in Nat : j \in T
  <2> HIDE DEF T
  <2> QED BY <1>2, <1>3, Induction
<1>5. g[n] \in Gathered /\ Fine(n) /\ Gather("byte", FALSE, n, s) = g[n]
  BY <1>1, <1>4
<1>6. g[n].more \in BOOLEAN
  BY <1>5 DEF Gathered
<1>7. PICK u : u = g[n]
  OBVIOUS
<1>8. /\ Len(u.r) \in Nat /\ Len(u.r) <= n
      /\ Len(u.r) < n => u.m.eof \/ u.m.error
  BY <1>5, <1>6, <1>7
<1> QED BY <1>5, <1>7, <1>8

-----------------------------------------------------------------------------
(* Where the characters of a text lie when they are written one after      *)
(* another.                                                                *)
Place(s, text, k) == At(s) + k + (IF s.binary THEN 0 ELSE LineEnds(text, k))

LEMMA Feeds ==
  ASSUME NEW text, NEW k \in Nat
  PROVE  /\ LineEnds(text, k) \in Nat /\ LineEnds(text, 0) = 0
         /\ LineEnds(text, k + 1) = LineEnds(text, k) + (IF text[k + 1] = "LF" THEN 1 ELSE 0)
<1> DEFINE F(j) == {i \in 1..j : text[i] = "LF"}
<1>1. IsFiniteSet(1..k) /\ IsFiniteSet(F(k))
  <2>1. 0 + 1 \in Int /\ k \in Int /\ 1 \in Int
    OBVIOUS
  <2>2. IsFiniteSet(1..k)
    BY <2>1, FS_Interval
  <2>3. F(k) \subseteq 1..k
    OBVIOUS
  <2> HIDE DEF F
  <2> QED BY <2>2, <2>3, FS_Subset
<1>2. Cardinality(F(k)) \in Nat
  <2> HIDE DEF F
  <2> QED BY <1>1, FS_CardinalityType
<1>3. F(0) = {}
  OBVIOUS
<1>4. Cardinality(F(0)) = 0
  BY <1>3, FS_EmptySet
<1>5. CASE text[k + 1] = "LF"
  <2>1. F(k + 1) = F(k) \cup {k + 1} /\ k + 1 \notin F(k)
    BY <1>5
  <2> HIDE DEF F
  <2>2. Cardinality(F(k) \cup {k + 1}) = Cardinality(F(k)) + 1
    BY <1>1, <2>1, FS_AddElement
  <2>3. Cardinality(F(k + 1)) = Cardinality(F(k)) + 1
    BY <2>1, <2>2
  <2> QED BY <1>2, <1>4, <1>5, <2>3 DEF LineEnds, F
<1>6. CASE text[k + 1] # "LF"
  <2>1. F(k + 1) = F(k)
    BY <1>6
  <2>2. Cardinality(F(k + 1)) = Cardinality(F(k)) + 0
    BY <1>2, <2>1
  <2> QED BY <1>2, <1>4, <1>6, <2>2 DEF LineEnds, F
<1> QED BY <1>5, <1>6

LEMMA AtType ==
  ASSUME NEW s \in Streams
  PROVE  At(s) \in Nat
BY Fields DEF At

LEMMA Places ==
  ASSUME NEW s \in Streams, NEW text, NEW k \in Nat
  PROVE  /\ Place(s, text, k) \in Nat /\ Place(s, text, 0) = At(s)
         /\ Place(s, text, k + 1) = Place(s, text, k) + Width(s, text[k + 1])
         /\ s.binary => Place(s, text, k) = At(s) + k
         /\ ~s.binary => Place(s, text, k) = At(s) + k + LineEnds(text, k)
<1>1. PICK a, f, g, z : /\ a = At(s) /\ f = LineEnds(text, k) /\ g = LineEnds(text, k + 1) /\ z = LineEnds(text, 0)
  OBVIOUS
<1>2. a \in Nat /\ f \in Nat /\ z = 0 /\ g = f + (IF text[k + 1] = "LF" THEN 1 ELSE 0)
  BY <1>1, AtType, Feeds
<1>3. CASE s.binary
  <2>1. Place(s, text, k) = a + k + 0 /\ Place(s, text, 0) = a + 0 + 0 /\ Place(s, text, k + 1) = a + (k + 1) + 0
        /\ Width(s, text[k + 1]) = 1
    BY <1>1, <1>3 DEF Place, Width
  <2> QED BY <1>1, <1>2, <1>3, <2>1
<1>4. CASE ~s.binary
  <2>1. Place(s, text, k) = a + k + f /\ Place(s, text, 0) = a + 0 + z /\ Place(s, text, k + 1) = a + (k + 1) + g
    BY <1>1, <1>4 DEF Place
  <2>2. CASE text[k + 1] = "LF"
    <3>1. Width(s, text[k + 1]) = 2 /\ g = f + 1
      BY <1>2, <1>4, <2>2 DEF Width
    <3> QED BY <1>1, <1>2, <1>4, <2>1, <3>1
  <2>3. CASE text[k + 1] # "LF"
    <3>1. Width(s, text[k + 1]) = 1 /\ g = f
      BY <1>2, <1>4, <2>3 DEF Width
    <3> QED BY <1>1, <1>2, <1>4, <2>1, <3>1
  <2> QED BY <2>2, <2>3
<1> QED BY <1>3, <1>4

(* Writing binds the orientation as reading does.                          *)
LEMMA Binds ==
  ASSUME NEW s \in Streams, NEW orientation \in Orientations, ~Opposed(s, orientation),
         NEW b, b = Bound(s, orientation)
  PROVE  /\ __wcrt_orient_stream(s, orientation) = b /\ b \in Streams /\ ~Opposed(b, orientation)
         /\ b.orientation = orientation /\ At(b) = At(s)
         /\ b.content = s.content /\ b.position = s.position /\ b.binary = s.binary /\ b.append = s.append
         /\ b.writable = s.writable /\ b.failing = s.failing /\ b.readable = s.readable
         /\ s.orientation = orientation => b = s
<1> DEFINE o == __wcrt_orient_stream(s, orientation)
<1>1. /\ o \in Streams /\ o = [s EXCEPT !.orientation = o.orientation] /\ o.orientation = orientation
      /\ Opposed(o, orientation) = Opposed(s, orientation) /\ (s.orientation = orientation => o = s)
  BY Binding
<1>2. s \in Record
  BY Fields
<1>3. o = b
  BY <1>1 DEF Bound
<1> HIDE DEF o
<1>4. /\ b.orientation = orientation
      /\ b.content = s.content /\ b.position = s.position /\ b.binary = s.binary /\ b.append = s.append
      /\ b.writable = s.writable /\ b.failing = s.failing /\ b.readable = s.readable
  BY <1>2 DEF Bound, Record
<1>5. At(b) = At(s)
  BY <1>4 DEF At
<1> QED BY <1>1, <1>3, <1>4, <1>5 DEF o

(* What a file holds when the first n characters of a text are written.    *)
CanGive(orientation, s) == ~Opposed(s, orientation) /\ s.writable /\ ~s.failing
Lies(s, text, n, q, k) ==
  LET p == Place(s, text, k)
  IN /\ p \in 1..Len(q) /\ q[p] = text[k] /\ p <= Place(s, text, n)
     /\ Width(s, text[k]) = 2 => p - 1 \in 1..Len(q) /\ q[p - 1] = "CR"
Stays(s, text, n, q, i) ==
  i \in 1..Len(q) /\ (i <= At(s) \/ i > Place(s, text, n) => q[i] = s.content[i])
Holds(s, text, n, q) ==
  (\A k \in 1..n : Lies(s, text, n, q, k)) /\ (\A i \in 1..Len(s.content) : Stays(s, text, n, q, i))

LEMMA HoldsMore ==
  ASSUME NEW s \in Streams, NEW text, NEW n \in Nat,
         NEW u \in Streams, At(u) = Place(s, text, n), Holds(s, text, n, u.content),
         NEW c, c = text[n + 1], NEW w, w = Width(s, c), NEW o, Wrote(u, o, w, c)
  PROVE  Holds(s, text, n + 1, o.content)
<1>1. PICK P, Q, q, v, a :
        P = Place(s, text, n) /\ Q = Place(s, text, n + 1) /\ q = u.content /\ v = o.content /\ a = At(s)
  OBVIOUS
<1>2. P \in Nat /\ Q = P + w /\ w \in {1, 2} /\ a \in Nat /\ a <= P
  <2>1. P \in Nat /\ Q = P + w
    BY <1>1, Places
  <2>2. w \in {1, 2}
    BY DEF Width
  <2>3. LineEnds(text, n) \in Nat /\ a \in Nat
    BY <1>1, Feeds, AtType
  <2>4. P = a + n \/ P = a + n + LineEnds(text, n)
    BY <1>1, Places
  <2> QED BY <2>1, <2>2, <2>3, <2>4
<1>3. /\ Q \in 1..Len(v) /\ v[Q] = c
      /\ w = 2 => P + 1 \in 1..Len(v) /\ v[P + 1] = "CR"
      /\ \A i \in 1..Len(q) : i \in 1..Len(v) /\ (i \notin P + 1..P + w => v[i] = q[i])
  BY <1>1, <1>2 DEF Wrote
<1>4. ASSUME NEW k \in 1..n PROVE Lies(s, text, n + 1, v, k)
  <2>1. PICK p : p = Place(s, text, k)
    OBVIOUS
  <2>2. /\ p \in 1..Len(q) /\ q[p] = text[k] /\ p <= P
        /\ Width(s, text[k]) = 2 => p - 1 \in 1..Len(q) /\ q[p - 1] = "CR"
    BY <1>1, <2>1 DEF Holds, Lies
  <2>3. p \in Int /\ p <= P /\ p \notin P + 1..P + w /\ p - 1 \notin P + 1..P + w /\ p <= Q
    BY <1>2, <2>2
  <2>4. p \in 1..Len(v) /\ v[p] = text[k]
    BY <1>3, <2>2, <2>3
  <2>5. Width(s, text[k]) = 2 => p - 1 \in 1..Len(v) /\ v[p - 1] = "CR"
    BY <1>3, <2>2, <2>3
  <2> QED BY <1>1, <2>1, <2>3, <2>4, <2>5 DEF Lies
<1>5. Lies(s, text, n + 1, v, n + 1)
  <2>1. w = 2 => Q - 1 = P + 1
    BY <1>2
  <2>2. Q <= Q
    BY <1>2
  <2> QED BY <1>1, <1>3, <2>1, <2>2 DEF Lies
<1>6. ASSUME NEW i \in 1..Len(s.content) PROVE Stays(s, text, n + 1, v, i)
  <2>1. i \in 1..Len(q) /\ (i <= a \/ i > P => q[i] = s.content[i])
    BY <1>1 DEF Holds, Stays
  <2>2. i \in 1..Len(v) /\ (i \notin P + 1..P + w => v[i] = q[i])
    BY <1>3, <2>1
  <2>3. i \in Int
    OBVIOUS
  <2>4. i <= a \/ i > Q => (i <= a \/ i > P) /\ i \notin P + 1..P + w
    BY <1>2, <2>3
  <2> QED BY <1>1, <2>1, <2>2, <2>4 DEF Stays
<1>7. \A k \in 1..n + 1 : k \in 1..n \/ k = n + 1
  OBVIOUS
<1> QED BY <1>1, <1>4, <1>5, <1>6, <1>7 DEF Holds

(* After n turns of the loop over a stream that takes them.                *)
Given(orientation, s, text, n, g) ==
  /\ g \in Spreads /\ g.r = n /\ g.m \in Streams /\ CanGive(orientation, g.m)
  /\ Rewrites(Bound(s, orientation), Bound(g.m, orientation))
  /\ g.m.binary = s.binary /\ g.m.readable = s.readable /\ g.m.append = s.append
  /\ At(g.m) = Place(s, text, n) /\ Holds(s, text, n, g.m.content)
  /\ n > 0 => g.m.orientation = orientation /\ g.m.position = Place(s, text, n)

LEMMA RewritesKeeps ==
  ASSUME NEW b \in Record, NEW o, Rewrites(b, o)
  PROVE  /\ o.binary = b.binary /\ o.readable = b.readable /\ o.append = b.append /\ o.writable = b.writable
         /\ o.failing = b.failing /\ o.orientation = b.orientation
<1>1. PICK p, q : o = [b EXCEPT !.position = p, !.content = q]
  BY DEF Rewrites
<1> QED BY <1>1 DEF Record

LEMMA GivenOn ==
  ASSUME StreamAssumption, NEW orientation \in Orientations, NEW text \in Seq(Bytes), NEW s \in Streams,
         ~Opposed(s, orientation), NEW n \in Nat, n + 1 \in 1..Len(text), NEW g, Given(orientation, s, text, n, g),
         NEW whole, n + 1 <= whole, NEW rest
  PROVE  Given(orientation, s, text, n + 1, SpreadTurn(orientation, text, whole, rest, n + 1, g))
<1>1. PICK h, b, u, c, w : /\ h = SpreadTurn(orientation, text, whole, rest, n + 1, g)
                           /\ b = Bound(g.m, orientation) /\ u = Put(b, text[n + 1])
                           /\ c = text[n + 1] /\ w = Width(s, c)
  OBVIOUS
<1>2. /\ g.m \in Streams /\ ~Opposed(g.m, orientation) /\ g.m.writable /\ ~g.m.failing /\ g.m.binary = s.binary
      /\ g.r = n /\ g.m.readable = s.readable /\ g.m.append = s.append
      /\ Rewrites(Bound(s, orientation), b)
      /\ At(g.m) = Place(s, text, n) /\ Holds(s, text, n, g.m.content)
  BY <1>1 DEF Given, CanGive
<1>3. c \in Stored /\ c # "wide" /\ c # EOF
  BY <1>1, TextCharacters
<1>4. /\ __wcrt_orient_stream(g.m, orientation) = b /\ b \in Streams /\ b.orientation = orientation
      /\ At(b) = At(g.m) /\ b.content = g.m.content /\ b.binary = g.m.binary /\ b.writable = g.m.writable
      /\ b.failing = g.m.failing /\ b.readable = g.m.readable /\ b.append = g.m.append
  <2>1. PICK t \in Streams : t = g.m
    BY <1>2
  <2>2. ~Opposed(t, orientation) /\ b = Bound(t, orientation)
    BY <1>1, <1>2, <2>1
  <2>3. /\ __wcrt_orient_stream(t, orientation) = b /\ b \in Streams /\ b.orientation = orientation
        /\ At(b) = At(t) /\ b.content = t.content /\ b.binary = t.binary /\ b.writable = t.writable
        /\ b.failing = t.failing /\ b.readable = t.readable /\ b.append = t.append
    BY <2>2, Binds
  <2> QED BY <2>1, <2>3
<1>5. Give(orientation, c, g.m, "all") = [m |-> u, r |-> c] /\ Share(n + 1, whole, rest) = "all"
  <2>1. CanWrite(orientation, c, g.m)
    BY <1>2, <1>3 DEF CanWrite
  <2>2. c \in Stored \cup {"wide"}
    BY <1>3
  <2>3. Give(orientation, c, g.m, "all") = Written(b, c, "all")
    BY <1>2, <1>4, <2>1, <2>2, GiveOne
  <2> QED BY <1>1, <2>3 DEF Written, Share
<1>6. h = [m |-> u, r |-> n + 1]
  <2>1. (n + 1) - 1 = n /\ ~(n < n)
    OBVIOUS
  <2>2. h = [m |-> Give(orientation, c, g.m, "all").m,
             r |-> IF Give(orientation, c, g.m, "all").r = EOF THEN g.r ELSE n + 1]
    BY <1>1, <1>2, <1>5, <2>1 DEF SpreadTurn
  <2> QED BY <1>3, <1>5, <2>2
<1>7. w = Width(b, c)
  BY <1>1, <1>2, <1>4 DEF Width
<1>8. Wrote(b, u, w, c)
  BY <1>1, <1>3, <1>4, <1>7, PutOne
<1>9. u \in Streams /\ Rewrites(b, u) /\ u.position = At(b) + w /\ At(u) = u.position
  BY <1>8 DEF Wrote
<1>10. /\ u.orientation = orientation /\ u.binary = s.binary /\ u.readable = s.readable /\ u.append = s.append
       /\ u.writable /\ ~u.failing
  <2>1. b \in Record
    BY <1>4, Fields
  <2> QED BY ZenonT(60), <1>2, <1>4, <1>9, <2>1, RewritesKeeps
<1>11. orientation # Opposite[orientation]
  BY DEF Orientations, Opposite
<1>12. CanGive(orientation, u)
  BY <1>10, <1>11 DEF CanGive, Opposed
<1>13. Bound(u, orientation) = u
  <2>1. ~Opposed(u, orientation)
    BY <1>12 DEF CanGive
  <2> QED BY <1>9, <1>10, <2>1, Binds
<1>14. Rewrites(Bound(s, orientation), u)
  <2>1. PICK z : z = Bound(s, orientation)
    OBVIOUS
  <2>2. z \in Record
    BY <2>1, Binds, Fields
  <2> QED BY <1>2, <1>9, <2>1, <2>2, Rewritten
<1>15. Place(s, text, n + 1) = At(b) + w
  BY <1>1, <1>2, <1>4, Places
<1>16. Holds(s, text, n + 1, u.content)
  BY <1>1, <1>2, <1>4, <1>8, HoldsMore
<1>17. h.m = u /\ h.r = n + 1 /\ h \in Spreads
  BY <1>6, <1>9 DEF Spreads
<1>18. Given(orientation, s, text, n + 1, h)
  BY <1>9, <1>10, <1>12, <1>13, <1>14, <1>15, <1>16, <1>17 DEF Given
<1> QED BY <1>1, <1>18

LEMMA SpreadGiven ==
  ASSUME StreamAssumption, NEW orientation \in Orientations, NEW text \in Seq(Bytes), NEW s \in Streams,
         CanGive(orientation, s), NEW whole \in 0..Len(text), NEW rest
  PROVE  Given(orientation, s, text, whole, Spreading(orientation, text, s, whole, rest)[whole])
<1> DEFINE g == Spreading(orientation, text, s, whole, rest)
           T == {n \in Nat : n <= whole => Given(orientation, s, text, n, g[n])}
<1>0. Len(text) \in Nat /\ ~Opposed(s, orientation) /\ whole \in Nat /\ whole <= Len(text)
  BY TextCharacters DEF CanGive
<1>1. /\ \A n \in 0..Len(text) : g[n] \in Spreads
      /\ g[0] = SpreadFrom(s)
      /\ \A n \in 1..Len(text) : g[n] = SpreadTurn(orientation, text, whole, rest, n, g[n - 1])
  BY SpreadTurns
<1> HIDE DEF g
<1>2. 0 \in T
  <2>1. PICK u : u = g[0]
    OBVIOUS
  <2>2. u.m = s /\ u.r = 0 /\ u \in Spreads
    BY <1>0, <1>1, <2>1 DEF SpreadFrom
  <2>3. At(s) = Place(s, text, 0)
    BY Places
  <2>4. Holds(s, text, 0, s.content)
    BY DEF Holds, Stays
  <2>5. PICK z : z = Bound(s, orientation)
    OBVIOUS
  <2>6. z \in Record
    BY <1>0, <2>5, Binds, Fields
  <2>7. Rewrites(z, z)
    BY <2>6 DEF Rewrites, Record
  <2>8. Given(orientation, s, text, 0, u)
    BY <2>2, <2>3, <2>4, <2>5, <2>7 DEF Given
  <2> QED BY <2>1, <2>8
<1>3. ASSUME NEW n \in Nat, n \in T PROVE n + 1 \in T
  <2> SUFFICES ASSUME n + 1 <= whole PROVE Given(orientation, s, text, n + 1, g[n + 1])
    OBVIOUS
  <2>1. n + 1 \in 1..Len(text) /\ (n + 1) - 1 = n /\ Given(orientation, s, text, n, g[n])
    BY <1>0, <1>3
  <2>2. g[n + 1] = SpreadTurn(orientation, text, whole, rest, n + 1, g[n])
    BY <1>1, <2>1
  <2> QED BY <1>0, <2>1, <2>2, GivenOn
<1>4. \A n \in Nat : n \in T
  <2> HIDE DEF T
  <2> QED BY <1>2, <1>3, Induction
<1>5. whole <= whole
  BY <1>0
<1> QED BY <1>0, <1>4, <1>5 DEF g

(* A loop that has stopped at a turn leaves things as that turn did.       *)
LEMMA SpreadEnds ==
  ASSUME StreamAssumption, NEW orientation \in Orientations, NEW text \in Seq(Bytes), NEW s \in Streams,
         NEW whole, NEW rest, NEW k \in 1..Len(text), NEW x,
         x = Spreading(orientation, text, s, whole, rest)[k], x.r = k - 1
  PROVE  Spread(orientation, text, s, whole, rest) = x
<1> DEFINE g == Spreading(orientation, text, s, whole, rest)
<1> DEFINE T == {n \in Nat : k + n <= Len(text) => g[k + n] = x}
<1>1. /\ \A n \in 1..Len(text) : g[n] = SpreadTurn(orientation, text, whole, rest, n, g[n - 1])
      /\ Spread(orientation, text, s, whole, rest) = g[Len(text)]
      /\ g[k] = x
  BY SpreadTurns
<1>2. Len(text) \in Nat
  BY TextCharacters
<1> HIDE DEF g
<1>3. 0 \in T
  BY <1>1, <1>2
<1>4. ASSUME NEW n \in Nat, n \in T PROVE n + 1 \in T
  <2> SUFFICES ASSUME k + (n + 1) <= Len(text) PROVE g[k + (n + 1)] = x
    OBVIOUS
  <2>1. k + (n + 1) \in 1..Len(text) /\ (k + (n + 1)) - 1 = k + n /\ g[k + n] = x
    BY <1>2, <1>4
  <2>2. g[k + (n + 1)] = SpreadTurn(orientation, text, whole, rest, k + (n + 1), x)
    BY <1>1, <2>1
  <2>3. x.r < (k + (n + 1)) - 1
    BY <1>2
  <2> QED BY <2>2, <2>3 DEF SpreadTurn
<1>5. \A n \in Nat : n \in T
  <2> HIDE DEF T
  <2> QED BY <1>3, <1>4, Induction
<1>6. PICK N \in Nat : k + N = Len(text)
  <2>1. Len(text) - k \in Nat /\ k + (Len(text) - k) = Len(text)
    BY <1>2
  <2> QED BY <2>1
<1>7. N \in T /\ k + N <= Len(text)
  BY <1>2, <1>5, <1>6
<1>8. g[k + N] = x
  BY <1>7
<1> QED BY <1>1, <1>6, <1>8

(* A stream that does not take the first character takes none.             *)
LEMMA SpreadRefused ==
  ASSUME StreamAssumption, NEW orientation \in Orientations, NEW text \in Seq(Bytes), NEW s \in Streams,
         ~CanGive(orientation, s), text # <<>>, NEW whole, NEW rest
  PROVE  Spread(orientation, text, s, whole, rest) = [m |-> Err(__wcrt_orient_stream(s, orientation)).m, r |-> 0]
<1> DEFINE g == Spreading(orientation, text, s, whole, rest)
<1>0. PICK x : x = [m |-> Err(__wcrt_orient_stream(s, orientation)).m, r |-> 0]
  OBVIOUS
<1>1. /\ g[0] = SpreadFrom(s)
      /\ \A n \in 1..Len(text) : g[n] = SpreadTurn(orientation, text, whole, rest, n, g[n - 1])
  BY SpreadTurns
<1>2. Len(text) \in Nat \ {0}
  BY EmptySeq
<1> HIDE DEF g
<1>3. 1 \in 1..Len(text) /\ 1 - 1 = 0
  BY <1>2
<1>4. text[1] \in Stored \cup {"wide"} /\ ~CanWrite(orientation, text[1], s)
  BY <1>3, TextCharacters DEF CanWrite, CanGive
<1>5. PICK taken : taken = Share(1, whole, rest)
  OBVIOUS
<1>6. Give(orientation, text[1], s, taken) = Err(__wcrt_orient_stream(s, orientation))
  BY <1>4, GiveOne
<1>7. g[1] = SpreadTurn(orientation, text, whole, rest, 1, SpreadFrom(s))
  BY <1>1, <1>3
<1>8. SpreadTurn(orientation, text, whole, rest, 1, SpreadFrom(s)) = x
  <2>1. PICK e : e = Err(__wcrt_orient_stream(s, orientation))
    OBVIOUS
  <2>2. e.r = EOF /\ Give(orientation, text[1], s, taken) = e /\ x = [m |-> e.m, r |-> 0]
    BY <1>0, <1>6, <2>1 DEF Err
  <2>3. SpreadFrom(s).m = s /\ SpreadFrom(s).r = 0 /\ ~(0 < 1 - 1)
    BY DEF SpreadFrom
  <2> QED BY <1>5, <2>2, <2>3 DEF SpreadTurn
<1>9. x = g[1] /\ x.r = 1 - 1
  BY <1>0, <1>7, <1>8
<1> QED BY <1>0, <1>3, <1>9, SpreadEnds DEF g

(* A stream that takes the first n characters, and h bytes of the next:    *)
(* they lie where a whole write puts them, and the rest stays.             *)
LeftBy(orientation, s, text, n, h, t) ==
  /\ t \in Streams /\ t.readable = s.readable /\ ~t.failing /\ t.binary = s.binary
  /\ t.orientation = orientation /\ t.position = Place(s, text, n) + h
  /\ \A k \in 1..n : Lies(s, text, n, t.content, k)
  /\ \A i \in 1..Len(s.content) : i <= At(s) \/ i > t.position => t.content[i] = s.content[i]
Halved(s, text, n, rest) == IF rest = "half" /\ n < Len(text) /\ Width(s, text[n + 1]) = 2 THEN 1 ELSE 0

LEMMA SpreadLeft ==
  ASSUME StreamAssumption, NEW orientation \in Orientations, NEW text \in Seq(Bytes), text # <<>>,
         NEW s \in Streams, CanGive(orientation, s), NEW n \in 0..Len(text), NEW rest \in {"half", "none"},
         NEW o, o = Spread(orientation, text, s, n, rest)
  PROVE  /\ o \in Spreads /\ o.r = n /\ (n < Len(text) => o.m.error)
         /\ LeftBy(orientation, s, text, n, Halved(s, text, n, rest), o.m)
<1> DEFINE f == Spreading(orientation, text, s, n, rest)
<1>0. Len(text) \in Nat \ {0} /\ n \in Nat /\ n <= Len(text)
  BY EmptySeq
<1>1. /\ \A j \in 1..Len(text) : f[j] = SpreadTurn(orientation, text, n, rest, j, f[j - 1])
      /\ o = f[Len(text)] /\ o \in Spreads
  <2>1. Len(text) \in 0..Len(text)
    BY <1>0
  <2> QED BY <2>1, SpreadTurns
<1>2. PICK g : g = f[n] /\ Given(orientation, s, text, n, g)
  BY SpreadGiven
<1> HIDE DEF f
<1>3. PICK P, q, a : P = Place(s, text, n) /\ q = g.m.content /\ a = At(s)
  OBVIOUS
<1>4. P \in Nat /\ a \in Nat /\ a <= P
  <2>1. P \in Nat /\ (P = a + n \/ P = a + n + LineEnds(text, n))
    BY <1>0, <1>3, Places
  <2>2. LineEnds(text, n) \in Nat /\ a \in Nat
    BY <1>0, <1>3, Feeds, AtType
  <2> QED BY <1>0, <2>1, <2>2
<1>5. /\ g \in Spreads /\ g.r = n /\ g.m \in Streams /\ ~Opposed(g.m, orientation) /\ g.m.writable /\ ~g.m.failing
      /\ g.m.binary = s.binary /\ g.m.readable = s.readable /\ At(g.m) = P
      /\ \A k \in 1..n : Lies(s, text, n, q, k)
      /\ \A i \in 1..Len(s.content) : i \in 1..Len(q) /\ (i <= a \/ i > P => q[i] = s.content[i])
      /\ n > 0 => g.m.orientation = orientation /\ g.m.position = P
  BY <1>2, <1>3 DEF Given, CanGive, Holds, Stays
<1>6. CASE n = Len(text)
  <2>1. o = g /\ n > 0 /\ ~(n < Len(text))
    BY <1>0, <1>1, <1>2, <1>6
  <2>2. Halved(s, text, n, rest) = 0 /\ P + 0 = P
    BY <1>4, <2>1 DEF Halved
  <2> QED BY <1>3, <1>5, <2>1, <2>2 DEF LeftBy
<1>7. CASE n # Len(text)
  <2>1. n + 1 \in 1..Len(text) /\ (n + 1) - 1 = n /\ n < Len(text) /\ ~(n + 1 <= n) /\ ~(n < n)
    BY <1>0, <1>7
  <2>2. PICK b, c, z, h : /\ b = Bound(g.m, orientation) /\ c = text[n + 1]
                          /\ z = Cut(b, c, rest) /\ h = Halved(s, text, n, rest)
    OBVIOUS
  <2>3. c \in Stored /\ c # "wide" /\ c # EOF
    BY <2>1, <2>2, TextCharacters
  <2>4. /\ __wcrt_orient_stream(g.m, orientation) = b /\ b \in Streams /\ b.orientation = orientation
        /\ At(b) = P /\ b.content = q /\ b.binary = s.binary /\ ~b.failing /\ b.readable = s.readable
    <3>1. PICK t \in Streams : t = g.m
      BY <1>5
    <3>2. ~Opposed(t, orientation) /\ b = Bound(t, orientation)
      BY <1>5, <2>2, <3>1
    <3>3. /\ __wcrt_orient_stream(t, orientation) = b /\ b \in Streams /\ b.orientation = orientation
          /\ At(b) = At(t) /\ b.content = t.content /\ b.binary = t.binary
          /\ b.failing = t.failing /\ b.readable = t.readable
      BY <3>2, Binds
    <3> QED BY <1>3, <1>5, <3>1, <3>3
  <2>5. Half(b, c, rest) = h /\ h \in {0, 1}
    <3>1. Width(b, c) = Width(s, c)
      BY <2>4 DEF Width
    <3> QED BY <2>1, <2>2, <3>1 DEF Half, Halved
  <2>6. Stopped(b, z, h)
    BY <2>2, <2>4, <2>5, CutOne
  <2>7. /\ z \in Streams /\ z.position = P + h
        /\ \A i \in 1..Len(q) :
             i \in 1..Len(z.content) /\ (i # P + 1 \/ h = 0 => z.content[i] = q[i])
    BY <2>4, <2>6 DEF Stopped
  <2>8. z.binary = s.binary /\ z.readable = s.readable /\ ~z.failing /\ z.orientation = orientation
    <3>1. b \in Record /\ Rewrites(b, z)
      BY <2>4, <2>6, Fields DEF Stopped
    <3> QED BY <2>4, <3>1, RewritesKeeps
  <2>9. PICK e : e = [z EXCEPT !.error = TRUE]
    OBVIOUS
  <2>10. /\ e \in Streams /\ e.error /\ e.position = P + h /\ e.content = z.content
         /\ e.binary = s.binary /\ e.readable = s.readable /\ ~e.failing /\ e.orientation = orientation
    <3>1. z \in Record
      BY <2>7, Fields
    <3>2. e = Err(z).m /\ e \in Streams
      BY <2>7, <2>9, Refusals DEF Outcomes
    <3> QED BY <2>7, <2>8, <2>9, <3>1, <3>2 DEF Record
  <2>11. Give(orientation, c, g.m, rest) = [m |-> e, r |-> EOF]
    <3>1. CanWrite(orientation, c, g.m)
      BY <1>5, <2>3 DEF CanWrite
    <3>2. c \in Stored \cup {"wide"} /\ g.m \in Streams
      BY <1>5, <2>3
    <3>3. Give(orientation, c, g.m, rest) = Written(b, c, rest)
      BY <2>4, <3>1, <3>2, GiveOne
    <3>4. Written(b, c, rest) = Err(z)
      BY <2>2 DEF Written
    <3> QED BY <2>9, <3>3, <3>4 DEF Err
  <2>12. f[n + 1] = [m |-> e, r |-> n]
    <3>1. f[n + 1] = SpreadTurn(orientation, text, n, rest, n + 1, g)
      BY <1>1, <1>2, <2>1
    <3>2. Share(n + 1, n, rest) = rest
      BY <2>1 DEF Share
    <3> QED BY <1>5, <2>1, <2>2, <2>11, <3>1, <3>2 DEF SpreadTurn
  <2>13. o = [m |-> e, r |-> n]
    <3>1. PICK x, k : x = f[n + 1] /\ k = n + 1
      OBVIOUS
    <3>2. x.r = k - 1 /\ k \in 1..Len(text) /\ x = f[k]
      BY <2>1, <2>12, <3>1
    <3>3. o = x
      BY <3>2, SpreadEnds DEF f
    <3> QED BY <2>12, <3>1, <3>3
  <2>14. ASSUME NEW k \in 1..n PROVE Lies(s, text, n, e.content, k)
    <3>1. PICK p : p = Place(s, text, k)
      OBVIOUS
    <3>2. /\ p \in 1..Len(q) /\ q[p] = text[k] /\ p <= P
          /\ Width(s, text[k]) = 2 => p - 1 \in 1..Len(q) /\ q[p - 1] = "CR"
      BY <1>3, <1>5, <3>1 DEF Lies
    <3>3. p \in Int /\ p # P + 1 /\ p - 1 # P + 1
      BY <1>4, <3>2
    <3>4. p \in 1..Len(e.content) /\ e.content[p] = text[k]
      BY <2>7, <2>10, <3>2, <3>3
    <3>5. Width(s, text[k]) = 2 => p - 1 \in 1..Len(e.content) /\ e.content[p - 1] = "CR"
      BY <2>7, <2>10, <3>2, <3>3
    <3> QED BY <1>3, <3>1, <3>2, <3>4, <3>5 DEF Lies
  <2>15. ASSUME NEW i \in 1..Len(s.content), i <= a \/ i > P + h PROVE e.content[i] = s.content[i]
    <3>1. i \in Int /\ (i <= a \/ i > P) /\ (i # P + 1 \/ h = 0)
      BY <1>4, <2>5, <2>15
    <3> QED BY <1>5, <2>7, <2>10, <3>1
  <2>16. LeftBy(orientation, s, text, n, h, e)
    BY <1>3, <2>10, <2>14, <2>15 DEF LeftBy
  <2> QED BY <1>1, <2>2, <2>10, <2>13, <2>16
<1> QED BY <1>6, <1>7

(* The same as the properties say it.                                      *)
LEMMA LeavesIt ==
  ASSUME NEW s \in Streams, NEW text \in Seq(Bytes), NEW n \in 0..Len(text), NEW rest, NEW orientation, NEW t,
         LeftBy(orientation, s, text, n, Halved(s, text, n, rest), t)
  PROVE  Leaves(s, text, n, rest, t)
<1>1. PICK h : h = Halved(s, text, n, rest)
  OBVIOUS
<1>2. h = IF rest = "half" /\ n < Len(text) /\ Width(s, text[n + 1]) = 2 THEN 1 ELSE 0
  BY <1>1 DEF Halved
<1>3. /\ t.position = At(s) + n + (IF s.binary THEN 0 ELSE LineEnds(text, n)) + h
      /\ \A i \in 1..Len(s.content) : i <= At(s) \/ i > t.position => t.content[i] = s.content[i]
  BY <1>1 DEF LeftBy, Place
<1> QED BY <1>2, <1>3 DEF Leaves

-----------------------------------------------------------------------------
(* Reading back what was written.  The stream r stands where s was before  *)
(* the text was written.                                                   *)
Returned(orientation, s, text, N, r) ==
  /\ r \in Streams /\ r.readable /\ ~r.failing /\ r.orientation = orientation
  /\ r.pushback = EOF /\ r.wide_pushback = EOF
  /\ r.position = At(s) /\ r.binary = s.binary /\ (\A k \in 1..N : Lies(s, text, N, r.content, k))
  /\ s.binary \/ \A i \in 1..N : text[i] # "CR"
Backed(s, text, r, n, g) ==
  /\ g \in Gathered /\ g.more /\ g.m = Moves(r, Place(s, text, n))
  /\ g.r \in Seq(Stored) /\ Len(g.r) = n /\ \A i \in 1..n : g.r[i] = text[i]

LEMMA FirstOf ==
  ASSUME StreamAssumption, NEW text \in Seq(Bytes), NEW N \in 0..Len(text), NEW y, y = SubSeq(text, 1, N)
  PROVE  y \in Seq(Stored) /\ Len(y) = N /\ \A i \in 1..N : y[i] = text[i]
<1>1. Len(text) \in Nat /\ N \in Nat /\ N <= Len(text) /\ 0 \in Nat
  BY TextCharacters
<1>2. text \in Seq(Stored)
  <2>1. Bytes \subseteq Stored
    BY Characters
  <2> QED BY <2>1
<1>3. PICK z \in Nat : z = 0
  OBVIOUS
<1>4. /\ Part(text, z, N) \in Seq(Stored)
      /\ Len(Part(text, z, N)) = IF z < N THEN N - z ELSE 0
      /\ \A i \in 1..Len(Part(text, z, N)) : Part(text, z, N)[i] = text[z + i]
  BY <1>1, <1>2, Stretch
<1>5. Part(text, z, N) = y
  BY <1>3 DEF Part
<1>6. Len(y) = N
  BY <1>1, <1>3, <1>4, <1>5
<1> QED BY <1>1, <1>3, <1>4, <1>5, <1>6

LEMMA BackedOn ==
  ASSUME StreamAssumption, NEW orientation \in Orientations, NEW text \in Seq(Bytes), NEW s \in Streams,
         NEW N \in 0..Len(text), NEW r, Returned(orientation, s, text, N, r), NEW n \in Nat, n + 1 \in 1..N,
         NEW g, Backed(s, text, r, n, g)
  PROVE  Backed(s, text, r, n + 1, Turn(orientation, FALSE, g))
<1>1. PICK h, t, o, c, q, P, w :
        /\ h = Turn(orientation, FALSE, g) /\ t = g.m /\ o = Get(orientation, t) /\ c = text[n + 1]
        /\ q = r.content /\ P = Place(s, text, n) /\ w = Width(s, c)
  OBVIOUS
<1>2. /\ r \in Streams /\ r.readable /\ ~r.failing /\ r.orientation = orientation
      /\ r.pushback = EOF /\ r.wide_pushback = EOF /\ r.binary = s.binary /\ Len(q) \in Nat
      /\ s.binary \/ c # "CR"
  BY <1>1, Fields DEF Returned
<1>3. /\ g \in Gathered /\ g.more /\ t = Moves(r, P) /\ g.r \in Seq(Stored) /\ Len(g.r) = n
      /\ \A i \in 1..n : g.r[i] = text[i]
  BY <1>1 DEF Backed
<1>4. /\ P \in Nat /\ P + 1 \in Nat /\ P + 2 \in Nat /\ w \in {1, 2} /\ Place(s, text, n + 1) = P + w
  <2>1. P \in Nat /\ Place(s, text, n + 1) = P + w
    BY <1>1, Places
  <2> QED BY <1>1, <2>1 DEF Width
<1>5. /\ P + w \in 1..Len(q) /\ q[P + w] = c
      /\ w = 2 => (P + w) - 1 \in 1..Len(q) /\ q[(P + w) - 1] = "CR"
  BY <1>1, <1>4 DEF Returned, Lies
<1>6. /\ t \in Streams /\ t.position = P /\ t.content = q /\ t.binary = s.binary /\ ~t.failing
      /\ t.readable /\ t.orientation = orientation /\ Pending(t) = EOF
  BY <1>1, <1>2, <1>3, <1>4, MovesTwice DEF Pending
<1>7. CanRead(t, orientation) /\ Bound(t, orientation) = t
  <2>1. orientation # Opposite[orientation]
    BY DEF Orientations, Opposite
  <2>2. ~Opposed(t, orientation)
    BY <1>6, <2>1 DEF Opposed
  <2> QED BY <1>6, <2>2, Binds DEF CanRead
<1>8. ReadSays(orientation, t, o)
  BY <1>1, <1>6, <1>7, GetReads
<1>9. P < Len(q)
  BY <1>2, <1>4, <1>5
<1>10. /\ s.binary \/ q[P + 1] # "CR" => o.r = q[P + 1] /\ o.m = Moves(t, P + 1)
       /\ Pair(t, P) => o.r = "LF" /\ o.m = Moves(t, P + 2)
  BY <1>6, <1>7, <1>8, <1>9 DEF ReadSays
<1>11. o.r = c /\ o.m = Moves(r, P + w)
  <2>1. CASE w = 1
    <3>1. o.r = c /\ o.m = Moves(t, P + 1)
      BY <1>2, <1>5, <1>10, <2>1
    <3>2. Moves(t, P + 1) = Moves(r, P + 1)
      BY <1>2, <1>3, <1>4, MovesTwice
    <3> QED BY <2>1, <3>1, <3>2
  <2>2. CASE w = 2
    <3>1. ~s.binary /\ c = "LF"
      BY <1>1, <2>2 DEF Width
    <3>2. (P + w) - 1 = P + 1 /\ P + w = P + 2 /\ P + 2 <= Len(q)
      BY <1>2, <1>4, <1>5, <2>2
    <3>3. q[P + 1] = "CR" /\ q[P + 2] = "LF"
      BY <1>5, <2>2, <3>1, <3>2
    <3>4. Pair(t, P)
      BY <1>6, <3>1, <3>2, <3>3 DEF Pair
    <3>5. o.r = "LF" /\ o.m = Moves(t, P + 2)
      BY <1>10, <3>4
    <3>6. Moves(t, P + 2) = Moves(r, P + 2)
      BY <1>2, <1>3, <1>4, MovesTwice
    <3> QED BY <2>2, <3>1, <3>5, <3>6
  <2> QED BY <1>4, <2>1, <2>2
<1>12. c \in Stored /\ c # EOF
  <2>1. n + 1 \in 1..Len(text)
    BY TextCharacters
  <2> QED BY <1>1, <2>1, TextCharacters
<1>13. h = [m |-> o.m, r |-> Append(g.r, c), more |-> TRUE]
  BY <1>1, <1>3, <1>11, <1>12 DEF Turn, Took
<1>14. h \in Gathered
  BY <1>1, <1>3, TurnType
<1>15. PICK x : x = Append(g.r, c)
  OBVIOUS
<1>16. x \in Seq(Stored) /\ Len(x) = n + 1 /\ x[n + 1] = c /\ \A i \in 1..n : x[i] = g.r[i]
  <2>1. PICK y \in Seq(Stored) : y = g.r
    BY <1>3
  <2>2. /\ Append(y, c) \in Seq(Stored) /\ Len(Append(y, c)) = Len(y) + 1 /\ Append(y, c)[Len(y) + 1] = c
        /\ \A i \in 1..Len(y) : Append(y, c)[i] = y[i]
    BY <1>12, AppendProperties
  <2> QED BY <1>3, <1>15, <2>1, <2>2
<1>17. \A i \in 1..n + 1 : x[i] = text[i]
  <2>1. \A i \in 1..n + 1 : i \in 1..n \/ i = n + 1
    OBVIOUS
  <2> QED BY <1>1, <1>3, <1>16, <2>1
<1>18. h.m = o.m /\ h.r = x /\ h.more
  BY <1>13, <1>15
<1>19. Backed(s, text, r, n + 1, h)
  BY <1>4, <1>11, <1>14, <1>16, <1>17, <1>18 DEF Backed
<1> QED BY <1>1, <1>19

LEMMA GatherBack ==
  ASSUME StreamAssumption, NEW orientation \in Orientations, NEW text \in Seq(Bytes), NEW s \in Streams,
         NEW N \in 0..Len(text), NEW r, Returned(orientation, s, text, N, r)
  PROVE  Gather(orientation, FALSE, N, r).r = SubSeq(text, 1, N)
<1> DEFINE g == Gathering(orientation, FALSE, r)
           T == {n \in Nat : n <= N => Backed(s, text, r, n, g[n])}
<1>0. Len(text) \in Nat /\ N \in Nat /\ r \in Streams
  BY TextCharacters DEF Returned
<1>1. /\ g \in [Nat -> Gathered] /\ g[0] = GatherFrom(r)
      /\ \A j \in Nat : g[j + 1] = Turn(orientation, FALSE, g[j])
      /\ \A j \in Nat : Gather(orientation, FALSE, j, r) = g[j]
  BY ZenonT(60), <1>0, GatherTurns
<1> HIDE DEF g
<1>2. 0 \in T
  <2>1. PICK u : u = g[0]
    OBVIOUS
  <2>2. u.m = r /\ u.r = <<>> /\ u.more
    BY <1>1, <2>1 DEF GatherFrom
  <2>6. u \in Gathered
    BY <1>1, <2>1
  <2>3. Place(s, text, 0) = r.position
    BY Places DEF Returned
  <2>4. r = Moves(r, r.position)
    BY <1>0, Fields DEF Record, Moves
  <2>5. Backed(s, text, r, 0, u)
    BY <2>2, <2>3, <2>4, <2>6 DEF Backed
  <2> QED BY <2>1, <2>5
<1>3. ASSUME NEW n \in Nat, n \in T PROVE n + 1 \in T
  <2> SUFFICES ASSUME n + 1 <= N PROVE Backed(s, text, r, n + 1, g[n + 1])
    OBVIOUS
  <2>1. n + 1 \in 1..N /\ Backed(s, text, r, n, g[n])
    BY <1>0, <1>3
  <2> QED BY <1>1, <2>1, BackedOn
<1>4. \A n \in Nat : n \in T
  <2> HIDE DEF T
  <2> QED BY <1>2, <1>3, Induction
<1>5. Backed(s, text, r, N, g[N]) /\ Gather(orientation, FALSE, N, r) = g[N]
  <2>1. N \in T /\ N <= N
    BY <1>0, <1>4
  <2> QED BY <1>0, <1>1, <2>1
<1>6. PICK x, y : x = g[N].r /\ y = SubSeq(text, 1, N)
  OBVIOUS
<1>7. x \in Seq(Stored) /\ Len(x) = N /\ \A i \in 1..N : x[i] = text[i]
  BY <1>5, <1>6 DEF Backed
<1>8. y \in Seq(Stored) /\ Len(y) = N /\ \A i \in 1..N : y[i] = text[i]
  BY <1>6, FirstOf
<1>9. Len(x) = Len(y) /\ \A i \in 1..Len(x) : x[i] = y[i]
  BY <1>7, <1>8
<1>10. x = y
  BY <1>7, <1>8, <1>9, SeqEqual
<1> QED BY <1>5, <1>6, <1>10

(* fread does the same, for a binary stream in one read of the file.       *)
LEMMA BlockBack ==
  ASSUME StreamAssumption, NEW text \in Seq(Bytes), NEW s \in Streams, NEW n \in 1..Len(text),
         NEW r, Returned("byte", s, text, n, r)
  PROVE  fread(r, 1, n).r = SubSeq(text, 1, n)
<1>0. /\ "byte" \in Orientations /\ n \in Nat \ {0}
      /\ r \in Streams /\ r.readable /\ ~r.failing /\ r.orientation = "byte" /\ r.pushback = EOF
      /\ r.position = At(s) /\ r.binary = s.binary /\ At(s) \in Nat
  BY AtType DEF Returned, Orientations
<1>1. n \in Nat \ {0} /\ n \in 0..Len(text)
  BY <1>0, TextCharacters
<1>2. __wcrt_orient_stream(r, "byte") = r /\ ~Opposed(r, "byte") /\ 1 * n = n /\ n # 0
  BY <1>0, Binding DEF Opposed, Opposite
<1>3. CASE ~r.binary
  <2>1. fread(r, 1, n) = Gather("byte", FALSE, n, r)
    BY <1>0, <1>2, <1>3 DEF fread
  <2>2. PICK or \in Orientations : or = "byte"
    BY <1>0
  <2>3. Returned(or, s, text, n, r)
    BY <2>2
  <2>4. Gather(or, FALSE, n, r).r = SubSeq(text, 1, n)
    BY <1>1, <2>3, GatherBack
  <2> QED BY <1>1, <2>1, <2>2, <2>4
<1>4. CASE r.binary
  <2> DEFINE read == __wcrt_file_read(r, n)
  <2>1. [r EXCEPT !.pushback = EOF] = r
    BY <1>0, Fields DEF Record
  <2>2. n - Len(<<>>) = n
    OBVIOUS
  <2>3. /\ read.r \in Seq(Stored)
        /\ Len(read.r) = Least2(Len(r.content) - r.position, n)
        /\ \A i \in 1..Len(read.r) : read.r[i] = r.content[r.position + i]
    BY <1>0, FileRead DEF Least2
  <2>4. fread(r, 1, n).r = <<>> \o read.r
    BY <1>0, <1>2, <1>4, <2>1, <2>2 DEF fread
  <2> HIDE DEF read
  <2>5. PICK x : x = read.r
    OBVIOUS
  <2>6. <<>> \o x = x
    BY <2>3, <2>5, ConcatEmptySeq
  <2>7. PICK a, L, q : a = At(s) /\ L = Len(q) /\ q = r.content
    OBVIOUS
  <2>8. \A k \in 1..n : a + k \in 1..L /\ q[a + k] = text[k]
    <3>1. ASSUME NEW k \in 1..n PROVE Lies(s, text, n, q, k)
      BY <1>1, <2>7 DEF Returned
    <3>2. s.binary
      BY <1>0, <1>4
    <3>3. ASSUME NEW k \in 1..n PROVE Place(s, text, k) = a + k
      <4>1. k \in Nat
        BY <1>1
      <4> QED BY <2>7, <3>2, <4>1, Places
    <3> QED BY <2>7, <3>1, <3>3 DEF Lies
  <2>9. L \in Nat /\ a \in Nat
    BY <1>0, <2>7, Fields
  <2>10. n \in 1..n /\ a + n \in 1..L
    BY <1>1, <2>8
  <2>11. Least2(L - a, n) = n
    BY <2>9, <2>10 DEF Least2
  <2>12. x \in Seq(Stored) /\ Len(x) = n /\ \A i \in 1..n : x[i] = q[a + i]
    BY <1>0, <2>3, <2>5, <2>7, <2>11
  <2>13. PICK y : y = SubSeq(text, 1, n)
    OBVIOUS
  <2>14. y \in Seq(Stored) /\ Len(y) = n /\ \A i \in 1..n : y[i] = text[i]
    BY <1>1, <2>13, FirstOf
  <2>15. Len(y) = Len(x) /\ \A i \in 1..Len(x) : x[i] = y[i]
    BY <2>8, <2>12, <2>14
  <2>16. x = y
    BY <2>12, <2>14, <2>15, SeqEqual
  <2> QED BY <1>1, <2>4, <2>5, <2>6, <2>13, <2>16
<1> QED BY <1>3, <1>4, <1>0, Fields

-----------------------------------------------------------------------------
(* Reading in order.                                                       *)
LEMMA LineDelivers ==
  ASSUME StreamAssumption, NEW s \in Streams, NEW orientation \in Orientations, Honest(s), CanRead(s, orientation),
         NEW n \in Nat \ {0}, NEW o, NEW g, g = Gather(orientation, TRUE, n, s), o.m = g.m, o.r = g.r,
         o.null => g.r = <<>>
  PROVE  Delivers(s, o, o.r, n) /\ (o.null => o.m.eof)
<1>1. n \in Nat /\ n # 0
  OBVIOUS
<1>2. PICK line \in BOOLEAN : line = TRUE
  OBVIOUS
<1>3. Gathers(orientation, line, s, n, g)
  BY <1>1, <1>2, GatherTells
<1>4. Delivers(s, o, g.r, n) /\ (g.r = <<>> /\ n # 0 => o.m.eof)
  BY ZenonT(60), <1>1, <1>3, GatheredDelivers
<1> QED BY <1>1, <1>4

LEMMA InOrder ==
  ASSUME StreamAssumption, m \in Streams
  PROVE  TextInOrder
<1> SUFFICES ASSUME NEW s \in Streams, s = m, Honest(s)
             PROVE  TextInOrder
  BY DEF TextInOrder
<1>0. "byte" \in Orientations /\ "wide" \in Orientations
  BY DEF Orientations
<1>1. \A n \in Counts : n \in Nat \ {0} /\ (n + 1) - 1 = n /\ n + 1 > 1
  BY DEF StreamAssumption
<1>2. ASSUME CanRead(s, "byte")
      PROVE  LET o == fgetc(s) IN Delivers(s, o, One(o.r), 1) /\ (o.r = EOF => o.m.eof)
  <2>1. Get("byte", s) = fgetc(s)
    BY DEF Get
  <2> QED BY <1>0, <1>2, <2>1, OneDelivers
<1>3. ASSUME CanRead(s, "byte"), NEW n \in Counts
      PROVE  LET o == fgets(s, n + 1, EOF) IN Delivers(s, o, o.r, n) /\ (o.null => o.m.eof)
  <2>1. PICK o, g : o = fgets(s, n + 1, EOF) /\ g = Gather("byte", TRUE, n, s)
    OBVIOUS
  <2>2. o.m = g.m /\ o.r = g.r /\ (o.null => g.r = <<>>)
    BY <1>1, <2>1 DEF fgets
  <2> QED BY <1>0, <1>1, <1>3, <2>1, <2>2, LineDelivers
<1>4. ASSUME CanRead(s, "byte"), NEW n \in Counts
      PROVE  LET o == fread(s, n, 1)
             IN /\ Delivers(s, o, o.r, n) /\ (Len(o.r) < n => o.m.eof)
                /\ o.r = Decoded(s, fgetpos(s), n).text
  BY <1>1, <1>4, freadDelivers
<1>5. ASSUME CanRead(s, "wide")
      PROVE  LET o == fgetwc(s) IN Delivers(s, o, One(o.r), 1) /\ (o.r = EOF => o.m.eof)
  <2>1. Get("wide", s) = fgetwc(s)
    BY DEF Get
  <2> QED BY <1>0, <1>5, <2>1, OneDelivers
<1>6. ASSUME CanRead(s, "wide"), NEW n \in Counts
      PROVE  LET o == fgetws(s, n + 1) IN Delivers(s, o, o.r, n) /\ (o.null => o.m.eof)
  <2>1. PICK o, g : o = fgetws(s, n + 1) /\ g = Gather("wide", TRUE, n, s)
    OBVIOUS
  <2>2. o.m = g.m /\ o.r = g.r /\ (o.null => g.r = <<>>)
    BY <1>1, <2>1 DEF fgetws
  <2> QED BY <1>0, <1>1, <1>6, <2>1, <2>2, LineDelivers
<1> QED BY <1>2, <1>3, <1>4, <1>5, <1>6 DEF TextInOrder


-----------------------------------------------------------------------------
(* Short transfers.                                                        *)
LEMMA OneGathered ==
  ASSUME StreamAssumption, NEW s \in Streams
  PROVE  Gather("byte", FALSE, 1, s).m = fgetc(s).m
<1> DEFINE g == Gathering("byte", FALSE, s)
<1>1. /\ g[0] = GatherFrom(s)
      /\ \A j \in Nat : g[j + 1] = Turn("byte", FALSE, g[j])
      /\ \A j \in Nat : Gather("byte", FALSE, j, s) = g[j]
  BY GatherTurns
<1> HIDE DEF g
<1>2. Gather("byte", FALSE, 1, s) = g[0 + 1]
  <2>1. PICK k \in Nat : k = 1
    OBVIOUS
  <2>2. Gather("byte", FALSE, k, s) = g[k]
    BY <1>1
  <2>3. k = 0 + 1
    BY <2>1
  <2>4. g[k] = g[0 + 1]
    BY <2>3
  <2> QED BY <2>1, <2>2, <2>4
<1>3. g[0 + 1] = Turn("byte", FALSE, GatherFrom(s))
  BY <1>1
<1>4. PICK c, f : c = fgetc(s) /\ f = GatherFrom(s)
  OBVIOUS
<1>5. f.m = s /\ f.more
  BY <1>4 DEF GatherFrom
<1>6. Turn("byte", FALSE, f).m = c.m
  BY <1>4, <1>5 DEF Turn, Took, Get
<1> QED BY <1>2, <1>3, <1>4, <1>6

LEMMA BlockExplained ==
  ASSUME StreamAssumption, NEW s \in Streams, NEW n \in Nat \ {0}
  PROVE  LET o == fread(s, 1, n)
         IN /\ o.r \in Seq(Stored)
            /\ Len(o.r) < n => o.m.eof \/ o.m.error
            /\ n = 1 /\ CanRead(s, "byte") /\ ~s.failing => o.m.error = s.error
<1>1. PICK o, b : o = fread(s, 1, n) /\ b = __wcrt_orient_stream(s, "byte")
  OBVIOUS
<1>2. /\ b \in Streams /\ b = [s EXCEPT !.orientation = b.orientation]
      /\ Opposed(b, "byte") = Opposed(s, "byte") /\ s \in Record
  BY <1>1, Binding, Fields DEF Orientations
<1>3. /\ b.readable = s.readable /\ b.binary = s.binary /\ b.failing = s.failing /\ b.error = s.error
      /\ b.readable \in BOOLEAN /\ b.binary \in BOOLEAN /\ b.failing \in BOOLEAN
      /\ b.pushback \in Char /\ b.position \in Nat /\ b.eof \in BOOLEAN /\ b.error \in BOOLEAN
  <2>1. b \in Record
    BY <1>2, Fields
  <2> QED BY <1>2, <2>1 DEF Record
<1>4. 1 * n = n /\ n # 0 /\ n \in Nat
  OBVIOUS
<1>5. CASE Opposed(b, "byte") \/ ~b.readable
  <2>1. o = [m |-> Err(b).m, r |-> <<>>]
    BY <1>1, <1>4, <1>5 DEF fread
  <2>2. Err(b).m.error
    BY ZenonT(60), <1>2, Refusals, Fields DEF Record
  <2>3. ~CanRead(s, "byte")
    BY <1>2, <1>3, <1>5 DEF CanRead
  <2>4. o.r \in Seq(Stored) /\ o.m.error
    BY <2>1, <2>2
  <2> QED BY <1>1, <2>3, <2>4
<1>6. CASE ~(Opposed(b, "byte") \/ ~b.readable) /\ ~b.binary
  <2>1. o = Gather("byte", FALSE, n, b)
    BY <1>1, <1>4, <1>6 DEF fread
  <2>2. o.r \in Seq(Stored) /\ (Len(o.r) < n => o.m.eof \/ o.m.error)
    <3>1. o.r \in Seq(Stored)
      BY <1>2, <1>4, <2>1, GatherType
    <3> QED BY <1>2, <1>4, <2>1, <3>1, GatherExplained
  <2>3. ASSUME n = 1, CanRead(s, "byte"), ~s.failing PROVE o.m.error = s.error
    <3>3. PICK c : c = fgetc(b)
      OBVIOUS
    <3>5. o.m = c.m
      BY <1>2, <2>1, <2>3, <3>3, OneGathered
    <3>6. CanRead(b, "byte") /\ ~b.failing
      BY <1>2, <1>3, <2>3 DEF CanRead
    <3>7. c.m.error = b.error
      BY <1>2, <3>3, <3>6, fgetcExplained
    <3> QED BY <1>3, <3>5, <3>7
  <2> QED BY <1>1, <2>2, <2>3
<1>7. CASE ~(Opposed(b, "byte") \/ ~b.readable) /\ b.binary
  <2>1. PICK pushed, t, read, got :
          /\ pushed = (IF b.pushback = EOF THEN <<>> ELSE <<b.pushback>>)
          /\ t = [b EXCEPT !.pushback = EOF]
          /\ read = __wcrt_file_read(t, n - Len(pushed))
          /\ got = pushed \o (IF b.failing THEN <<>> ELSE read.r)
    OBVIOUS
  <2>2. /\ o.m = [read.m EXCEPT !.position = IF b.failing THEN b.position ELSE @,
                                !.error = @ \/ (b.failing /\ Len(got) < n),
                                !.eof = @ \/ (~b.failing /\ Len(got) < n)]
        /\ o.r = got
    BY ZenonT(60), <1>1, <1>4, <1>7, <2>1 DEF fread
  <2>3. pushed \in Seq(Stored) /\ n - Len(pushed) \in Nat
    BY <1>3, <2>1 DEF Char
  <2>4. t \in Streams /\ t.error = b.error
    BY <1>2, <2>1, Changes, Fields DEF Record
  <2>12. PICK k \in Nat : k = n - Len(pushed)
    BY <2>3
  <2>5. /\ read.r \in Seq(Stored) /\ read.m \in Streams
        /\ read.m = [t EXCEPT !.position = t.position + Len(read.r)]
    <3>1. read = __wcrt_file_read(t, k)
      BY <2>1, <2>12
    <3> QED BY <2>4, <3>1, FileRead
  <2>6. read.m \in Record /\ read.m.error = b.error
    BY <2>4, <2>5, Fields DEF Record
  <2>7. <<>> \in Seq(Stored)
    OBVIOUS
  <2>8. got \in Seq(Stored)
    BY <2>1, <2>3, <2>5, <2>7, ConcatProperties
  <2>9. /\ o.m.error = (read.m.error \/ (b.failing /\ Len(got) < n))
        /\ o.m.eof = (read.m.eof \/ (~b.failing /\ Len(got) < n))
    BY <2>2, <2>6 DEF Record
  <2>10. Len(got) < n => o.m.eof \/ o.m.error
    BY <2>9
  <2>11. ~s.failing => o.m.error = s.error
    BY <1>3, <2>6, <2>9
  <2> QED BY <1>1, <2>2, <2>8, <2>10, <2>11
<1> QED BY <1>5, <1>6, <1>7

LEMMA WritingExplained ==
  ASSUME StreamAssumption, NEW s \in Streams, NEW orientation \in Orientations,
         NEW e, e = Err(__wcrt_orient_stream(s, orientation)).m
  PROVE  e.error /\ e.content = s.content /\ e.position = s.position
<1>1. PICK b : b = __wcrt_orient_stream(s, orientation)
  OBVIOUS
<1>2. b \in Streams /\ b = [s EXCEPT !.orientation = b.orientation] /\ s \in Record
  BY <1>1, Binding, Fields
<1>3. b \in Record /\ b.content = s.content /\ b.position = s.position
  BY <1>2, Fields DEF Record
<1>4. e = [b EXCEPT !.error = TRUE]
  BY <1>1, <1>2, Refusals
<1> QED BY <1>3, <1>4 DEF Record

LEMMA Explained ==
  ASSUME StreamAssumption, m \in Streams
  PROVE  ShortTransfersExplained
<1> SUFFICES ASSUME NEW s \in Streams, s = m
             PROVE  ShortTransfersExplained
  OBVIOUS
<1>0. "byte" \in Orientations /\ "wide" \in Orientations
  BY DEF Orientations
<1>1. ASSUME NEW n \in Counts
      PROVE  LET o == fread(s, 1, n) IN Len(o.r) < n => o.m.eof \/ o.m.error
  <2>1. n \in Nat \ {0}
    BY DEF StreamAssumption
  <2> QED BY <2>1, BlockExplained
<1>2. ASSUME NEW orientation \in {"byte", "wide"}, NEW text \in Texts, NEW rest \in {"half", "none"},
             NEW whole \in 0..Len(text) - 1
      PROVE  LET o == Spread(orientation, text, s, whole, rest)
             IN o.r < Len(text) =>
                  /\ o.m.error
                  /\ IF Opposed(s, orientation) \/ ~s.writable \/ s.failing
                     THEN o.r = 0 /\ o.m.content = s.content /\ o.m.position = s.position
                     ELSE Leaves(s, text, o.r, rest, o.m)
  <2>1. PICK o : o = Spread(orientation, text, s, whole, rest)
    OBVIOUS
  <2>2. /\ text \in Seq(Bytes) /\ Len(text) \in Nat /\ whole \in 0..Len(text) /\ whole < Len(text)
        /\ text # <<>> /\ orientation \in Orientations
    <3>1. text \in Seq(Bytes)
      BY DEF StreamAssumption
    <3>2. Len(text) \in Nat /\ whole \in 0..Len(text) /\ whole < Len(text)
      BY <3>1, TextCharacters
    <3>3. Len(text) # 0
      BY <3>2
    <3> QED BY <3>1, <3>2, <3>3, EmptySeq DEF Orientations
  <2>3. CASE CanGive(orientation, s)
    <3>1. /\ o.r = whole /\ o.m.error
          /\ LeftBy(orientation, s, text, whole, Halved(s, text, whole, rest), o.m)
      BY <2>1, <2>2, <2>3, SpreadLeft
    <3>2. Leaves(s, text, whole, rest, o.m)
      BY <2>2, <3>1, LeavesIt
    <3> QED BY <2>1, <2>3, <3>1, <3>2 DEF CanGive
  <2>4. CASE ~CanGive(orientation, s)
    <3>1. o = [m |-> Err(__wcrt_orient_stream(s, orientation)).m, r |-> 0]
      BY <2>1, <2>2, <2>4, SpreadRefused
    <3>2. o.m = Err(__wcrt_orient_stream(s, orientation)).m /\ o.r = 0
      BY <3>1
    <3>3. o.m.error /\ o.m.content = s.content /\ o.m.position = s.position
      BY <2>2, <3>2, WritingExplained
    <3> QED BY <2>1, <2>4, <3>2, <3>3 DEF CanGive
  <2> QED BY <2>3, <2>4
<1>4. LET o == _read(s, 1)
      IN /\ o.r = -1 => ~s.readable \/ Opposed(s, "byte") \/ s.failing \/ s.error
         /\ o.r = 0 => o.m.eof
  <2>1. PICK o, f : o = _read(s, 1) /\ f = fread(s, 1, 1)
    OBVIOUS
  <2>2. /\ f.r \in Seq(Stored) /\ (Len(f.r) < 1 => f.m.eof \/ f.m.error)
        /\ CanRead(s, "byte") /\ ~s.failing => f.m.error = s.error
    BY <2>1, BlockExplained
  <2>3. CASE ~s.readable
    <3>1. o.r = -1
      BY <2>1, <2>3 DEF _read
    <3> QED BY <2>1, <2>3, <3>1
  <2>4. CASE s.readable
    <3>1. o = [m |-> f.m, r |-> IF f.r = <<>> /\ f.m.error THEN -1 ELSE Len(f.r)]
      BY <2>1, <2>4 DEF _read
    <3>2. o.r = -1 => f.m.error
      BY <2>2, <3>1
    <3>3. o.r = -1 => Opposed(s, "byte") \/ s.failing \/ s.error
      BY <2>2, <2>4, <3>2 DEF CanRead
    <3>4. o.r = 0 => o.m.eof
      <4>1. SUFFICES ASSUME o.r = 0 PROVE f.m.eof
        BY <3>1
      <4>2. Len(f.r) = 0
        BY <2>2, <3>1, <4>1
      <4>3. f.r = <<>>
        BY <2>2, <4>2, EmptySeq
      <4>4. ~f.m.error
        BY <3>1, <4>1, <4>3
      <4> QED BY <2>2, <4>2, <4>4
    <3> QED BY <2>1, <3>3, <3>4
  <2> QED BY <2>3, <2>4
<1>5. ASSUME Opposed(s, "byte")
      PROVE  fgetc(s).m = [s EXCEPT !.error = TRUE] /\ \A c \in Bytes : ungetc(c, s).r = EOF
  <2>1. __wcrt_orient_stream(s, "byte") = s
    BY <1>0, <1>5, Binding
  <2>2. fgetc(s) = Err(s)
    BY <1>5, <2>1 DEF fgetc
  <2>3. ASSUME NEW c \in Bytes PROVE ungetc(c, s).r = EOF
    BY <1>5, Refusals DEF ungetc
  <2> QED BY <2>2, <2>3, Refusals
<1> QED BY <1>1, <1>2, <1>4, <1>5 DEF ShortTransfersExplained

(* Whatever was done before, every way of reading delivers the text that   *)
(* stands where ftell says the stream is, in order and without a gap, and  *)
(* a transfer that falls short has set an indicator: a write that the      *)
(* stream refuses has then moved nothing, and one the device refuses half  *)
(* way has left the characters counted and at most the carriage return of  *)
(* the next pair.                                                          *)
THEOREM AlwaysReadsInOrder == StreamAssumption /\ Spec => []ReadsInOrder
<1> SUFFICES ASSUME StreamAssumption PROVE Spec => []ReadsInOrder
  OBVIOUS
<1>1. Spec => [](m \in Streams)
  BY AlwaysStream
<1>2. m \in Streams => ReadsInOrder
  BY InOrder, Explained DEF ReadsInOrder
<1> QED BY <1>1, <1>2, PTL


-----------------------------------------------------------------------------
(* Resizing.                                                               *)
ResizeSound(s, size, restored, reached, o) ==
  LET old == Len(s.content)
  IN /\ o.r = 0 => Len(o.m.content) = size
     /\ o.r = 0 \/ (restored /\ reached # size) => o.m.position = s.position
     /\ \A i \in 1..Len(o.m.content) : o.m.content[i] = IF i <= old THEN s.content[i] ELSE "NUL"
     /\ [o.m EXCEPT !.content = s.content, !.position = s.position] = s
     /\ (o.r = 0) = (o.errno = "none")
     /\ reached # size /\ o.m # s => o.errno = "size"
     /\ ~s.writable => o.m = s /\ o.r = -1

LEMMA Unresized ==
  ASSUME NEW s \in Streams, NEW size, NEW restored, NEW reached, NEW o, o.m = s,
         \/ o.r = -1 /\ o.errno # "none"
         \/ o.r = 0 /\ o.errno = "none" /\ size = Len(s.content) /\ s.writable
  PROVE  ResizeSound(s, size, restored, reached, o)
<1>1. s \in Record /\ Len(s.content) \in Nat
  BY Fields
<1>2. [s EXCEPT !.content = s.content, !.position = s.position] = s
  BY <1>1 DEF Record
<1>3. \A i \in 1..Len(s.content) : s.content[i] = IF i <= Len(s.content) THEN s.content[i] ELSE "NUL"
  <2>1. PICK L \in Nat : L = Len(s.content)
    BY <1>1
  <2>2. \A i \in 1..L : i <= L
    OBVIOUS
  <2> QED BY <2>1, <2>2
<1>4. (o.r = 0) = (o.errno = "none") /\ (o.r = 0 => Len(s.content) = size)
  BY SMT
<1>5. ~s.writable => o.r = -1
  OBVIOUS
<1>6. o.m.position = s.position /\ o.m.content = s.content
  OBVIOUS
<1>7. reached # size /\ o.m # s => o.errno = "size"
  OBVIOUS
<1>8. [o.m EXCEPT !.content = s.content, !.position = s.position] = s
  BY <1>2
<1> QED BY <1>3, <1>4, <1>5, <1>6, <1>7, <1>8 DEF ResizeSound

LEMMA ResizeIsSound ==
  ASSUME NEW s \in Streams, NEW size \in Int, NEW restored \in BOOLEAN, NEW reached \in Reached(s, size)
  PROVE  ResizeSound(s, size, restored, reached, __wcrt_file_resize(s, size, reached, restored))
<1>1. PICK o, q, p : /\ o = __wcrt_file_resize(s, size, reached, restored)
                     /\ q = [i \in 1..reached |-> IF i <= Len(s.content) THEN s.content[i] ELSE "NUL"]
                     /\ p = (IF restored THEN s.position ELSE IF size < Len(s.content) THEN size ELSE reached)
  OBVIOUS
<1>2. /\ s \in Record /\ s.content \in Seq(Stored) /\ Len(s.content) \in Nat /\ s.position \in Nat
      /\ \A i \in 1..Len(s.content) : s.content[i] \in Stored
  BY Fields, ElementOfSeq
<1>3. CASE size < 0 \/ ~s.writable \/ s.failing
  <2>1. /\ o = [m |-> s, r |-> -1,
                errno |-> IF size < 0 THEN "EINVAL" ELSE IF ~s.writable THEN "EACCES" ELSE "device"]
    BY <1>1, <1>3 DEF __wcrt_file_resize
  <2>2. o.m = s /\ o.r = -1 /\ o.errno # "none"
    BY <2>1
  <2> QED BY <1>1, <2>2, Unresized
<1>4. CASE ~(size < 0 \/ ~s.writable \/ s.failing) /\ size = Len(s.content)
  <2>1. o = [m |-> s, r |-> 0, errno |-> "none"]
    BY <1>1, <1>4 DEF __wcrt_file_resize
  <2> QED BY <1>1, <1>4, <2>1, Unresized
<1>5. CASE ~(size < 0 \/ ~s.writable \/ s.failing) /\ size # Len(s.content)
  <2>1. o = [m |-> [s EXCEPT !.content = q, !.position = p],
             r |-> IF reached # size \/ ~restored THEN -1 ELSE 0,
             errno |-> IF reached # size THEN "size" ELSE IF ~restored THEN "position" ELSE "none"]
    <3>1. ~(size < 0 \/ ~s.writable \/ s.failing) /\ size # Len(s.content)
      BY <1>5
    <3> QED BY <1>1, <3>1 DEF __wcrt_file_resize
  <2>2. size \in Nat /\ reached \in Nat
    BY <1>2, <1>5 DEF Reached
  <2>3. q \in Seq(Stored) /\ Len(q) = reached
    <3>1. q \in [1..reached -> Stored]
      BY <1>1, <1>2 DEF Stored
    <3> QED BY <2>2, <3>1, IsASeq, LenProperties
  <2>4. PICK u : u = o.m
    OBVIOUS
  <2>5. u = [s EXCEPT !.content = q, !.position = p]
    BY <2>1, <2>4
  <2>6. u.content = q /\ u.position = p /\ [u EXCEPT !.content = s.content, !.position = s.position] = s
    BY <1>2, <2>5 DEF Record
  <2>7. /\ o.r = (IF reached # size \/ ~restored THEN -1 ELSE 0)
        /\ o.errno = (IF reached # size THEN "size" ELSE IF ~restored THEN "position" ELSE "none")
    BY <2>1
  <2>8. o.r = 0 => reached = size /\ restored
    <3>1. reached # size \/ ~restored => o.r = -1
      BY <2>7
    <3> QED BY <3>1
  <2>9. \A i \in 1..Len(u.content) : u.content[i] = IF i <= Len(s.content) THEN s.content[i] ELSE "NUL"
    BY <1>1, <2>3, <2>6
  <2>10. o.r = 0 \/ (restored /\ reached # size) => u.position = s.position
    BY <1>1, <2>6, <2>8
  <2>11. (o.r = 0) = (o.errno = "none")
    <3>1. CASE reached # size
      BY <2>7, <3>1
    <3>2. CASE reached = size /\ restored
      BY <2>7, <3>2
    <3>3. CASE reached = size /\ ~restored
      BY <2>7, <3>3
    <3> QED BY <3>1, <3>2, <3>3
  <2>12. o.r = 0 => Len(u.content) = size
    BY <2>3, <2>6, <2>8
  <2>13. reached # size => o.errno = "size"
    BY <2>7
  <2> QED BY <1>1, <1>5, <2>4, <2>6, <2>9, <2>10, <2>11, <2>12, <2>13 DEF ResizeSound
<1> QED BY <1>3, <1>4, <1>5

LEMMA Resizes ==
  ASSUME StreamAssumption, m \in Streams
  PROVE  ResizeKeeps
<1> SUFFICES ASSUME NEW size \in -1..MaxSize, NEW restored \in BOOLEAN, NEW reached \in Reached(m, size)
             PROVE  ResizeSound(m, size, restored, reached, __wcrt_file_resize(m, size, reached, restored))
  BY Zenon DEF ResizeKeeps, ResizeSound
<1>1. size \in Int
  OBVIOUS
<1> QED BY <1>1, ResizeIsSound


-----------------------------------------------------------------------------
(* Positions.                                                              *)
LEMMA NoLine ==
  ASSUME NEW text, \A i \in 1..Len(text) : text[i] # "LF"
  PROVE  FirstLine(text) = text
<1>1. {i \in 1..Len(text) : text[i] = "LF"} = {}
  OBVIOUS
<1> QED BY <1>1 DEF FirstLine

LEMMA LineAt ==
  ASSUME NEW text \in Seq(Stored), NEW k \in 1..Len(text), text[k] = "LF",
         \A i \in 1..Len(text) : i < k => text[i] # "LF"
  PROVE  FirstLine(text) = SubSeq(text, 1, k)
<1> DEFINE ends == {i \in 1..Len(text) : text[i] = "LF"}
           first == CHOOSE i \in ends : \A j \in ends : i <= j
<1>0. Len(text) \in Nat
  OBVIOUS
<1>1. ends \subseteq 1..Len(text)
  OBVIOUS
<1>2. k \in ends
  OBVIOUS
<1>3. \A j \in ends : k <= j
  <2> SUFFICES ASSUME NEW j \in ends PROVE k <= j
    OBVIOUS
  <2>1. j \in 1..Len(text) /\ ~(j < k)
    OBVIOUS
  <2> QED BY <1>0, <2>1
<1>4. FirstLine(text) = SubSeq(text, 1, first)
  BY <1>2 DEF FirstLine
<1> HIDE DEF ends
<1>5. first \in ends /\ \A j \in ends : first <= j
  BY <1>2, <1>3
<1> HIDE DEF first
<1>6. PICK f : f = first
  OBVIOUS
<1>7. f \in ends /\ \A j \in ends : f <= j
  BY <1>5, <1>6
<1>8. f <= k /\ k <= f
  BY <1>2, <1>3, <1>7
<1>9. f \in Int /\ k \in Int
  BY <1>0, <1>1, <1>2, <1>7
<1>10. f = k
  BY <1>8, <1>9
<1> QED BY <1>4, <1>6, <1>10

(* What is read next on an honest stream is the line that stands where     *)
(* ftell says.                                                             *)
LEMMA AheadGathers ==
  ASSUME NEW s \in Streams, s.readable, NEW n \in Nat
  PROVE  \E orientation \in Orientations :
           CanRead(s, orientation) /\ Ahead(s, n) = Gather(orientation, TRUE, n, s).r
<1>0. (n + 1) - 1 = n
  OBVIOUS
<1>1. CASE Opposed(s, "byte")
  <2>1. ~Opposed(s, "wide")
    BY <1>1 DEF Opposed, Opposite
  <2>2. Ahead(s, n) = Gather("wide", TRUE, n, s).r
    BY <1>0, <1>1 DEF Ahead, fgetws
  <2> QED BY <2>1, <2>2 DEF CanRead, Orientations
<1>2. CASE ~Opposed(s, "byte")
  <2>1. Ahead(s, n) = Gather("byte", TRUE, n, s).r
    BY <1>0, <1>2 DEF Ahead, fgets
  <2> QED BY <1>2, <2>1 DEF CanRead, Orientations
<1> QED BY <1>1, <1>2

LEMMA AheadIs ==
  ASSUME StreamAssumption, NEW s \in Streams, s.readable, Honest(s), NEW n \in Nat
  PROVE  Ahead(s, n) = FirstLine(Decoded(s, Whence(s), n).text)
<1>1. PICK orientation \in Orientations :
        CanRead(s, orientation) /\ Ahead(s, n) = Gather(orientation, TRUE, n, s).r
  BY AheadGathers
<1>2. PICK line \in BOOLEAN : line = TRUE
  OBVIOUS
<1>3. PICK g, x, k, at : /\ g = Gather(orientation, line, n, s) /\ x = g.r /\ k = Len(x) /\ at = Whence(s)
  OBVIOUS
<1>4. PICK d, e : d = Decoded(s, at, k) /\ e = Decoded(s, at, n)
  OBVIOUS
<1>5. Gathers(orientation, line, s, n, g)
  BY <1>1, <1>3, GatherTells
<1>6. /\ x \in Seq(Stored) /\ k \in Nat /\ k <= n /\ x = d.text /\ g.more \in BOOLEAN
      /\ g.more => k = n /\ ~\E i \in 1..k : x[i] = "LF"
      /\ ~g.more =>
           \/ k > 0 /\ x[k] = "LF" /\ \A i \in 1..k : x[i] = "LF" => i = k
           \/ d.offset >= Len(s.content) /\ ~\E i \in 1..k : x[i] = "LF"
  <2>1. g \in Gathered
    BY <1>5 DEF Gathers
  <2>2. x \in Seq(Stored) /\ g.more \in BOOLEAN
    BY <1>3, <2>1 DEF Gathered
  <2>3. /\ k \in Nat /\ k <= n /\ x = d.text
        /\ g.more => k = n /\ ~(line /\ \E i \in 1..k : x[i] = "LF")
        /\ ~g.more =>
             \/ line /\ k > 0 /\ x[k] = "LF" /\ \A i \in 1..k : x[i] = "LF" => i = k
             \/ d.offset >= Len(s.content) /\ g.m.eof /\ ~(line /\ \E i \in 1..k : x[i] = "LF")
    BY <1>3, <1>4, <1>5 DEF Gathers
  <2> QED BY <1>2, <2>2, <2>3
<1>7. at \in Nat
  BY <1>3, Whereabouts
<1>8. Extends(s, d, e)
  BY <1>4, <1>6, <1>7, Prefix
<1>9. CASE ~\E i \in 1..k : x[i] = "LF"
  <2>1. k = n \/ d.offset >= Len(s.content)
    BY <1>6, <1>9
  <2>2. e = d
    BY <1>4, <1>8, <2>1 DEF Extends
  <2>3. FirstLine(x) = x
    BY <1>3, <1>9, NoLine
  <2> QED BY <1>1, <1>2, <1>3, <1>4, <1>6, <2>2, <2>3
<1>10. CASE k > 0 /\ x[k] = "LF" /\ \A i \in 1..k : x[i] = "LF" => i = k
  <2>1. PICK y : y = e.text
    OBVIOUS
  <2>2. y \in Seq(Stored) /\ Len(y) \in Nat
    BY <1>4, <1>7, <2>1, DecodedLength
  <2>3. k <= Len(y) /\ \A i \in 1..k : y[i] = x[i]
    BY <1>3, <1>6, <1>8, <2>1 DEF Extends
  <2>4. k \in 1..Len(y) /\ k \in 1..k
    BY <1>6, <1>10, <2>2, <2>3
  <2>5. \A i \in 1..Len(y) : i < k => i \in 1..k /\ i # k
    BY <1>6, <2>2
  <2>6. y[k] = "LF" /\ \A i \in 1..Len(y) : i < k => y[i] # "LF"
    BY <1>10, <2>3, <2>4, <2>5
  <2>7. FirstLine(y) = SubSeq(y, 1, k)
    BY <2>2, <2>4, <2>6, LineAt
  <2>8. PICK z : z = SubSeq(y, 1, k)
    OBVIOUS
  <2>9. z \in Seq(Stored) /\ Len(z) = k /\ \A i \in 1..k : z[i] = y[i]
    <3>1. PICK a \in Int, b \in Int : a = 1 /\ b = k
      BY <1>6
    <3>2. a <= b + 1 /\ \A i \in a..b : i \in 1..Len(y)
      BY <1>6, <2>2, <2>3, <3>1
    <3>3. /\ SubSeq(y, a, b) \in Seq(Stored)
          /\ Len(SubSeq(y, a, b)) = IF a <= b THEN b - a + 1 ELSE 0
          /\ \A i \in 1..b - a + 1 : SubSeq(y, a, b)[i] = y[a + i - 1]
      BY <2>2, <3>2, SubSeqProperties
    <3>4. a <= b /\ b - a + 1 = k /\ \A i \in 1..k : a + i - 1 = i
      BY <1>6, <1>10, <3>1
    <3> QED BY <2>8, <3>1, <3>3, <3>4
  <2>10. z = x
    BY <1>3, <1>6, <2>3, <2>9, SeqEqual
  <2> QED BY <1>1, <1>2, <1>3, <1>4, <2>1, <2>7, <2>8, <2>10
<1> QED BY <1>6, <1>9, <1>10

(* A seek leads to the position, with nothing pushed back.                 *)
LEMMA MovedHonest ==
  ASSUME StreamAssumption, NEW s \in Streams, s.readable, ~s.failing, NEW p \in Nat, NEW u, u = Moved(s, p)
  PROVE  /\ u \in Streams /\ u.readable /\ ~u.failing /\ ~u.eof
         /\ fgetpos(u) = p /\ _telli64(u) = p /\ Whence(u) = p
         /\ s.binary \/ NoRun(s) =>
              Honest(u) /\ \A n \in Nat : Ahead(u, n) = FirstLine(Decoded(s, p, n).text)
<1>1. u \in Streams /\ u = [s EXCEPT !.position = p, !.eof = FALSE, !.pushback = EOF, !.wide_pushback = EOF]
  BY MovedType
<1>2. s \in Record
  BY Fields
<1>3. /\ u.readable /\ ~u.failing /\ ~u.eof /\ u.position = p /\ u.pushback = EOF /\ u.wide_pushback = EOF
      /\ u.content = s.content /\ u.binary = s.binary
  BY <1>1, <1>2 DEF Record
<1>4. Pending(u) = EOF
  BY <1>3 DEF Pending
<1>5. Whence(u) = p
  <2>1. Whence(u) = p - 0
    BY <1>3, <1>4 DEF Whence
  <2> QED BY <2>1
<1>6. fgetpos(u) = p
  BY <1>1, <1>3, <1>5, Telling
<1>7. _telli64(u) = p
  <2>1. 0 + p = p /\ ~(p < 0) /\ 0 \in Int
    OBVIOUS
  <2>2. __wcrt_file_seek(u, 0, "SEEK_CUR") =
          IF u.failing \/ 0 + u.position < 0 THEN -1 ELSE 0 + u.position
    <3>1. PICK z \in Int : z = 0
      OBVIOUS
    <3>2. u \in Streams
      BY <1>1
    <3>3. __wcrt_file_seek(u, z, "SEEK_CUR") =
            IF u.failing \/ z + u.position < 0 THEN -1 ELSE z + u.position
      BY <3>2, SeekTarget
    <3> QED BY <3>1, <3>3
  <2> QED BY <1>3, <2>1, <2>2 DEF _telli64
<1>8. ASSUME s.binary \/ NoRun(s)
      PROVE  Honest(u) /\ \A n \in Nat : Ahead(u, n) = FirstLine(Decoded(s, p, n).text)
  <2>1. Honest(u)
    BY <1>3, <1>4, <1>8 DEF Honest, NoRun
  <2>2. ASSUME NEW n \in Nat PROVE Ahead(u, n) = FirstLine(Decoded(s, p, n).text)
    <3>1. Ahead(u, n) = FirstLine(Decoded(u, p, n).text)
      BY <1>1, <1>3, <1>5, <2>1, AheadIs
    <3>2. Decoded(u, p, n) = Decoded(s, p, n)
      BY <1>3, DecodedAlike
    <3> QED BY <3>1, <3>2
  <2> QED BY <2>1, <2>2
<1> QED BY <1>1, <1>3, <1>5, <1>6, <1>7, <1>8

LEMMA SeekMoves ==
  ASSUME NEW s \in Streams, ~s.failing, NEW p \in Nat
  PROVE  /\ fsetpos(s, p).m = Moved(s, p)
         /\ fseek(s, p, "SEEK_SET").m = Moved(s, p)
         /\ fseek(s, p - Len(s.content), "SEEK_END").m = Moved(s, p)
         /\ fseek(s, 0, "SEEK_CUR").m = Moved(s, s.position)
<1>1. PICK L, q : L = Len(s.content) /\ q = s.position
  OBVIOUS
<1>2. L \in Nat /\ q \in Nat
  BY <1>1, Fields
<1>3. PICK b \in Int : b = p - L
  BY <1>2
<1>4. /\ b + L = p /\ ~(b + L < 0) /\ ~(p < 0) /\ p \in Int /\ 0 \in Int /\ 0 + q = q /\ ~(0 + q < 0) /\ ~(q < 0)
  BY <1>2, <1>3
<1>5. __wcrt_file_seek(s, p, "SEEK_SET") = p
  BY <1>4, SeekTarget
<1>6. __wcrt_file_seek(s, b, "SEEK_END") = p
  BY <1>1, <1>4, SeekTarget
<1>7. __wcrt_file_seek(s, 0, "SEEK_CUR") = q
  BY <1>1, <1>4, SeekTarget
<1>8. fsetpos(s, p).m = Moved(s, p)
  BY <1>4, <1>5 DEF fsetpos
<1>9. fseek(s, p, "SEEK_SET").m = Moved(s, p)
  BY <1>4, <1>5 DEF fseek
<1>10. fseek(s, b, "SEEK_END").m = Moved(s, p)
  BY <1>4, <1>6 DEF fseek
<1>11. fseek(s, 0, "SEEK_CUR").m = Moved(s, q)
  BY <1>4, <1>7 DEF fseek
<1> QED BY <1>1, <1>3, <1>8, <1>9, <1>10, <1>11

LEMMA Returns ==
  ASSUME StreamAssumption, m \in Streams
  PROVE  PositionsLeadBack
<1> SUFFICES ASSUME NEW s \in Streams, s = m, s.readable, ~s.failing
             PROVE  PositionsLeadBack
  BY DEF PositionsLeadBack
<1>1. \A n \in Counts : n \in Nat
  BY DEF StreamAssumption
<1>2. ASSUME Honest(s), NEW n \in Counts
      PROVE  /\ Ahead(fsetpos(s, fgetpos(s)).m, n) = Ahead(s, n)
             /\ Pending(s) = EOF => Ahead(fseek(s, 0, "SEEK_CUR").m, n) = Ahead(s, n)
  <2>1. PICK p : p = Whence(s)
    OBVIOUS
  <2>2. p \in Nat /\ fgetpos(s) = p /\ (s.binary \/ NoRun(s)) /\ n \in Nat
    BY <1>1, <1>2, <2>1, Telling, Whereabouts DEF Honest
  <2>3. Ahead(Moved(s, p), n) = FirstLine(Decoded(s, p, n).text)
    BY <2>2, MovedHonest
  <2>4. Ahead(s, n) = FirstLine(Decoded(s, p, n).text)
    BY <1>2, <2>1, <2>2, AheadIs
  <2>5. Ahead(fsetpos(s, fgetpos(s)).m, n) = Ahead(s, n)
    BY <2>2, <2>3, <2>4, SeekMoves
  <2>6. ASSUME Pending(s) = EOF PROVE Ahead(fseek(s, 0, "SEEK_CUR").m, n) = Ahead(s, n)
    <3>1. s.position \in Nat
      BY Fields
    <3>2. p = s.position - 0
      BY <2>1, <2>6 DEF Whence
    <3>3. p = s.position
      BY <3>1, <3>2
    <3>4. fseek(s, 0, "SEEK_CUR").m = Moved(s, p)
      BY <3>1, <3>3, SeekMoves
    <3> QED BY <2>3, <2>4, <3>4
  <2> QED BY <2>5, <2>6
<1>3. ASSUME NEW offset \in 0..Len(s.content)
      PROVE  LET o == fseek(s, offset, "SEEK_SET").m
                 e == fseek(s, offset - Len(s.content), "SEEK_END").m
             IN /\ o = e /\ fgetpos(o) = offset /\ _telli64(o) = offset /\ ~o.eof
                /\ s.binary \/ NoRun(s) =>
                     \A n \in Counts : Ahead(o, n) = FirstLine(Decoded(s, offset, n).text)
  <2>1. offset \in Nat
    BY Fields
  <2>2. PICK u : u = Moved(s, offset)
    OBVIOUS
  <2>3. fseek(s, offset, "SEEK_SET").m = u /\ fseek(s, offset - Len(s.content), "SEEK_END").m = u
    BY <2>1, <2>2, SeekMoves
  <2>4. /\ fgetpos(u) = offset /\ _telli64(u) = offset /\ ~u.eof
        /\ s.binary \/ NoRun(s) =>
             \A n \in Nat : Ahead(u, n) = FirstLine(Decoded(s, offset, n).text)
    BY ZenonT(60), <2>1, <2>2, MovedHonest
  <2> QED BY <1>1, <2>3, <2>4
<1> QED BY <1>2, <1>3 DEF PositionsLeadBack

(* A position told and set again leads back to the same text, a seek leads *)
(* to the line that stands where it went, and a resize moves nobody, keeps *)
(* what both sizes have or reports what failed first.                      *)
THEOREM AlwaysReturns == StreamAssumption /\ Spec => []PositionsReturn
<1> SUFFICES ASSUME StreamAssumption PROVE Spec => []PositionsReturn
  OBVIOUS
<1>1. Spec => [](m \in Streams)
  BY AlwaysStream
<1>2. m \in Streams => PositionsReturn
  BY Returns, Resizes DEF PositionsReturn
<1> QED BY <1>1, <1>2, PTL


(* A text written as far as the device takes it, and the stream moved back *)
(* to where it starts.                                                     *)
LEMMA Writes ==
  ASSUME NEW s \in Streams, s.writable, ~s.failing
  PROVE  \E orientation \in Orientations :
           Opposed(s, "byte") = (orientation = "wide") /\ CanGive(orientation, s)
<1>1. CASE Opposed(s, "byte")
  <2>1. ~Opposed(s, "wide") /\ "wide" \in Orientations
    BY <1>1 DEF Opposed, Opposite, Orientations
  <2> QED BY <1>1, <2>1 DEF CanGive
<1>2. CASE ~Opposed(s, "byte")
  <2>1. CanGive("byte", s) /\ "byte" \in Orientations
    BY <1>2 DEF CanGive, Orientations
  <2>2. Opposed(s, "byte") = ("byte" = "wide")
    BY <1>2 DEF Opposed
  <2> QED BY <2>1, <2>2
<1> QED BY <1>1, <1>2

LEMMA MovedFields ==
  ASSUME NEW u \in Streams, NEW p \in Nat, NEW r, r = Moved(u, p)
  PROVE  /\ r.readable = u.readable /\ r.failing = u.failing /\ r.orientation = u.orientation
         /\ r.pushback = EOF /\ r.wide_pushback = EOF /\ r.position = p /\ r.binary = u.binary
         /\ r.content = u.content
<1>1. r = [u EXCEPT !.position = p, !.eof = FALSE, !.pushback = EOF, !.wide_pushback = EOF]
  BY MovedType
<1>2. u \in Record
  BY Fields
<1> QED BY <1>1, <1>2 DEF Record

LEMMA MovedReturned ==
  ASSUME StreamAssumption, NEW s \in Streams, s.readable, NEW text \in Seq(Bytes), NEW n \in 0..Len(text),
         s.binary \/ \A i \in 1..n : text[i] # "CR",
         NEW orientation \in Orientations, NEW h, NEW u, LeftBy(orientation, s, text, n, h, u),
         NEW r, r = fseek(u, At(s), "SEEK_SET").m
  PROVE  Returned(orientation, s, text, n, r)
<1>1. u \in Streams
  BY DEF LeftBy
<1>2. PICK q : q = u.content /\ \A k \in 1..n : Lies(s, text, n, q, k)
  BY DEF LeftBy
<1>3. ~u.failing /\ u.readable = s.readable /\ u.binary = s.binary /\ u.orientation = orientation
  BY DEF LeftBy
<1>4. At(s) \in Nat
  BY AtType
<1>5. PICK p \in Nat : p = At(s)
  BY <1>4
<1>6. r = Moved(u, p)
  <2>1. PICK v \in Streams : v = u
    BY <1>1
  <2>2. ~v.failing /\ r = fseek(v, p, "SEEK_SET").m
    BY <1>3, <1>5, <2>1
  <2> QED BY <2>1, <2>2, SeekMoves
<1>7. r \in Streams
  BY <1>1, <1>6, MovedType
<1>8. /\ r.readable = u.readable /\ r.failing = u.failing /\ r.orientation = u.orientation
      /\ r.pushback = EOF /\ r.wide_pushback = EOF /\ r.position = p /\ r.binary = u.binary
      /\ r.content = u.content
  BY <1>1, <1>6, MovedFields
<1> QED BY <1>2, <1>3, <1>5, <1>7, <1>8 DEF Returned

LEMMA ReadsBack ==
  ASSUME StreamAssumption, NEW s \in Streams, NEW text \in Seq(Bytes), NEW n \in 0..Len(text),
         NEW orientation \in Orientations, NEW r, Returned(orientation, s, text, n, r)
  PROVE  ReadBack(r, n).r = SubSeq(text, 1, n)
<1>1. r.orientation = orientation
  BY DEF Returned
<1>2. CASE orientation = "wide"
  <2>1. ReadBack(r, n) = Gather(orientation, FALSE, n, r)
    BY <1>1, <1>2 DEF ReadBack, Opposed, Opposite
  <2>2. Gather(orientation, FALSE, n, r).r = SubSeq(text, 1, n)
    BY GatherBack
  <2> QED BY <2>1, <2>2
<1>3. CASE orientation = "byte"
  <2>1. ReadBack(r, n) = fread(r, 1, n)
    BY <1>1, <1>3 DEF ReadBack, Opposed, Opposite
  <2>2. Returned("byte", s, text, n, r)
    BY <1>3
  <2>3. CASE n # 0
    <3>1. n \in 1..Len(text)
      BY <2>3, TextCharacters
    <3> QED BY <2>1, <2>2, <3>1, BlockBack
  <2>4. CASE n = 0
    <3>1. fread(r, 1, 0).r = <<>>
      BY DEF fread
    <3>2. SubSeq(text, 1, 0) = <<>>
      BY SubSeqEmpty
    <3> QED BY <2>1, <2>4, <3>1, <3>2
  <2> QED BY <2>3, <2>4
<1> QED BY <1>2, <1>3 DEF Orientations

LEMMA WriteSound ==
  ASSUME StreamAssumption, NEW s \in Streams, s.readable, s.writable, ~s.failing,
         NEW text \in Seq(Bytes), text # <<>>, NEW rest \in {"half", "none"}, NEW n \in 0..Len(text),
         NEW o, o = IF Opposed(s, "byte") THEN fputws(text, s, n, rest) ELSE fputs(text, s, n, rest)
  PROVE  /\ o.r = IF n = Len(text) THEN 0 ELSE EOF
         /\ s.binary \/ (\A i \in 1..n : text[i] # "CR") =>
              ReadBack(fseek(o.m, At(s), "SEEK_SET").m, n).r = SubSeq(text, 1, n)
         /\ ~Opposed(s, "byte") => fwrite(text, s, n, rest) = [m |-> o.m, r |-> n]
         /\ Leaves(s, text, n, rest, o.m)
<1>1. PICK orientation \in Orientations :
        Opposed(s, "byte") = (orientation = "wide") /\ CanGive(orientation, s)
  BY Writes
<1>2. PICK g : g = Spread(orientation, text, s, n, rest)
  OBVIOUS
<1>3. Len(text) \in Nat /\ n \in Nat /\ n <= Len(text)
  BY TextCharacters
<1>4. /\ g \in Spreads /\ g.r = n
      /\ LeftBy(orientation, s, text, n, Halved(s, text, n, rest), g.m)
  BY <1>1, <1>2, SpreadLeft
<1>5. o = [m |-> g.m, r |-> IF g.r < Len(text) THEN EOF ELSE 0]
  <2>1. CASE orientation = "wide"
    BY <1>1, <1>2, <2>1 DEF fputws, AllOf
  <2>2. CASE orientation = "byte"
    BY <1>1, <1>2, <2>2 DEF fputs, AllOf
  <2> QED BY <2>1, <2>2 DEF Orientations
<1>6. o.m = g.m /\ o.r = IF n = Len(text) THEN 0 ELSE EOF
  <2>1. (n < Len(text)) = (n # Len(text))
    BY <1>3
  <2> QED BY <1>4, <1>5, <2>1
<1>7. ASSUME s.binary \/ (\A i \in 1..n : text[i] # "CR")
      PROVE  ReadBack(fseek(o.m, At(s), "SEEK_SET").m, n).r = SubSeq(text, 1, n)
  <2>1. PICK r, h : r = fseek(g.m, At(s), "SEEK_SET").m /\ h = Halved(s, text, n, rest)
    OBVIOUS
  <2>2. PICK u : u = g.m
    OBVIOUS
  <2>3. LeftBy(orientation, s, text, n, h, u) /\ r = fseek(u, At(s), "SEEK_SET").m
    BY <1>4, <2>1, <2>2
  <2>4. Returned(orientation, s, text, n, r)
    BY <1>7, <2>3, MovedReturned
  <2> QED BY <1>6, <2>1, <2>4, ReadsBack
<1>8. ASSUME ~Opposed(s, "byte") PROVE fwrite(text, s, n, rest) = [m |-> o.m, r |-> n]
  <2>1. orientation = "byte"
    BY <1>1, <1>8 DEF Orientations
  <2>2. fwrite(text, s, n, rest) = g
    BY <1>2, <2>1 DEF fwrite
  <2>3. g = [m |-> g.m, r |-> g.r]
    BY <1>4 DEF Spreads
  <2> QED BY <1>4, <1>6, <2>2, <2>3
<1>9. Leaves(s, text, n, rest, o.m)
  BY <1>4, <1>6, LeavesIt
<1> QED BY <1>6, <1>7, <1>8, <1>9

WriteIsSound(s, text, rest, whole) ==
  LET o == IF Opposed(s, "byte") THEN fputws(text, s, whole, rest) ELSE fputs(text, s, whole, rest)
  IN /\ o.r = IF whole = Len(text) THEN 0 ELSE EOF
     /\ s.binary \/ (\A i \in 1..whole : text[i] # "CR") =>
          ReadBack(fseek(o.m, At(s), "SEEK_SET").m, whole).r = SubSeq(text, 1, whole)
     /\ ~Opposed(s, "byte") => fwrite(text, s, whole, rest) = [m |-> o.m, r |-> whole]
     /\ Leaves(s, text, whole, rest, o.m)

LEMMA WritesBack ==
  ASSUME StreamAssumption, m \in Streams
  PROVE  WritesReadBack
<1> SUFFICES ASSUME m.readable, m.writable, ~m.failing,
                    NEW text \in Texts, NEW rest \in {"half", "none"}, NEW whole \in 0..Len(text), text # <<>>
             PROVE  WriteIsSound(m, text, rest, whole)
  BY Zenon DEF WritesReadBack, WriteIsSound
<1>1. text \in Seq(Bytes)
  BY DEF StreamAssumption
<1>2. PICK o : o = IF Opposed(m, "byte") THEN fputws(text, m, whole, rest) ELSE fputs(text, m, whole, rest)
  OBVIOUS
<1> QED BY <1>1, <1>2, WriteSound DEF WriteIsSound

(* What is written, the whole text or what the device took of it, is what  *)
(* is read back from where it was put, the rest of the file stays, and an  *)
(* appending stream leaves all of it.                                      *)
THEOREM AlwaysWritesBack == StreamAssumption /\ Spec => []WritesReadBack
<1> SUFFICES ASSUME StreamAssumption PROVE Spec => []WritesReadBack
  OBVIOUS
<1>1. Spec => [](m \in Streams)
  BY AlwaysStream
<1>2. m \in Streams => WritesReadBack
  BY WritesBack
<1> QED BY <1>1, <1>2, PTL
=============================================================================
