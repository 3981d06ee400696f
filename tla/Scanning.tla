------------------------------ MODULE Scanning ------------------------------
(***************************************************************************)
(* Formatted input: src/stdio_scan.c, and src/wchar_scan.c, which repeats  *)
(* it over a wide string.  Input and format are sequences of codes.  The   *)
(* input is a text and a cursor: a stream gives one character ahead and    *)
(* gets it back when the call ends (wcrt_input_finish), so what a caller   *)
(* sees is the cursor.  A call stores a sequence of values: integers,      *)
(* floating results of strtod, texts, and counts.                          *)
(***************************************************************************)
EXTENDS NumericText

CONSTANTS INT_MAX, Width

FloatFormat == [precision |-> 3, minimum |-> -2, maximum |-> 2, most |-> 4]

Percent == 37
Asterisk == 42
WCHAR_MAX == 65535
Caret == 94
CloseBracket == 93
Ch == [c |-> 99, d |-> 100, h |-> 104, i |-> 105, j |-> 106, l |-> 108, n |-> 110, o |-> 111,
       p |-> 112, s |-> 115, t |-> 116, u |-> 117, x |-> 120, z |-> 122, L |-> 76, X |-> 88,
       I |-> 73, set |-> 91]
Hexadecimals == {Ch.x, Ch.X, Ch.p}
IntegerConversions == {Ch.d, Ch.i, Ch.o, Ch.u} \cup Hexadecimals
FloatConversions == {97, 65} \cup (101..103) \cup (69..71)        \* aefg, AEFG
CharacterConversions == {Ch.c, Ch.s, Ch.set}

wcrt_input_space(t, c) == Past(t, c, isspace)

(* The part of the input a field width leaves; 0 is no width.              *)
Within(t, c, width) ==
  IF width = 0 \/ c + width >= Len(t) THEN t ELSE SubSeq(t, 1, c + width)

PastSign(t, c) == IF At(t, c) \in {Plus, Minus} THEN c + 1 ELSE c

-----------------------------------------------------------------------------
(* The end of a number's input item, which is collected before it is       *)
(* converted and is longer than what converts when the subject stops       *)
(* early.                                                                  *)
Base(conversion) ==
  CASE conversion = Ch.o -> 8 [] conversion \in Hexadecimals -> 16 [] OTHER -> 10

wcrt_integer_item(t, c, conversion) ==
  LET s == PastSign(t, c)
      base == Base(conversion)
      zero == At(t, s) = Zero /\ (conversion = Ch.i \/ base = 16)
      hexadecimal == zero /\ Letter(At(t, s + 1), LowerX)
  IN CASE hexadecimal -> Past(t, s + 2, Digits(16))
       [] zero /\ ~hexadecimal -> Past(t, s + 1, Digits(IF conversion = Ch.i THEN 8 ELSE base))
       [] OTHER -> Past(t, s, Digits(base))

RECURSIVE wcrt_scan_word(_, _, _)
wcrt_scan_word(t, c, word) ==
  IF word # <<>> /\ Letter(At(t, c), Head(word)) THEN wcrt_scan_word(t, c + 1, Tail(word)) ELSE c

(* No digit is required before the point or the exponent is taken.         *)
wcrt_float_item(t, c) ==
  LET s == PastSign(t, c)
      named == wcrt_scan_word(t, s, Nan)
      payload == Past(t, named + 1, isalnum \cup {Underscore})
      hexadecimal == At(t, s) = Zero /\ Letter(At(t, s + 1), LowerX)
      class == IF hexadecimal THEN isxdigit ELSE isdigit
      whole == Past(t, IF hexadecimal THEN s + 2 ELSE s, class)
      part == IF At(t, whole) = Point THEN Past(t, whole + 1, class) ELSE whole
  IN CASE Letter(At(t, s), Head(Inf)) -> wcrt_scan_word(t, s, Inf \o Inity)
       [] Letter(At(t, s), Head(Nan)) ->
            IF At(t, named) # OpenParenthesis THEN named
            ELSE IF At(t, payload) = CloseParenthesis THEN payload + 1 ELSE payload
       [] OTHER -> IF Letter(At(t, part), IF hexadecimal THEN LowerP ELSE LowerE)
                   THEN Past(t, PastSign(t, part + 1), isdigit) ELSE part

(* A value through the destination type a modifier names.                  *)
wcrt_store_unsigned(n, length) == n % (2 ^ Width[length])
wcrt_store_signed(n, length) ==
  LET half == 2 ^ (Width[length] - 1) IN ((n + half) % (2 * half)) - half

(* A directive's result is 1 if it stored, 2 if it was told not to, 0 for  *)
(* a matching failure and -2 for one at the end of the input; -1 is an     *)
(* error.                                                                  *)
Converted(t, c, end, suppress, matched, value) ==
  [c |-> end, out |-> IF matched /\ ~suppress THEN <<value>> ELSE <<>>,
   result |-> CASE end = c -> IF c = Len(t) THEN -2 ELSE 0
                [] end # c /\ ~matched -> 0
                [] OTHER -> IF suppress THEN 2 ELSE 1]

wcrt_scan_integer(t, c, d) ==
  LET within == Within(t, c, d.width)
      end == wcrt_integer_item(within, c, d.conversion)
      item == SubSeq(t, c + 1, end)
      base == IF d.conversion = Ch.i THEN 0 ELSE Base(d.conversion)
      signed == strtoll(item, base, Width.ll)
      unsigned == wcrt_strtoull(item, base, Width.ll)
  IN IF d.conversion \in {Ch.d, Ch.i}
     THEN Converted(t, c, end, d.suppress, signed.end = Len(item),
                    wcrt_store_signed(signed.value, d.length))
     ELSE Converted(t, c, end, d.suppress, unsigned.end = Len(item),
                    wcrt_store_unsigned(unsigned.value, IF d.conversion = Ch.p THEN "z" ELSE d.length))

wcrt_scan_float(t, c, d) ==
  LET end == wcrt_float_item(Within(t, c, d.width), c)
      r == strtod(SubSeq(t, c + 1, end), FloatFormat.precision, FloatFormat.minimum,
                  FloatFormat.maximum, 1 - FloatFormat.minimum, FloatFormat.most)
  IN Converted(t, c, end, d.suppress, r.end = end - c, r)

-----------------------------------------------------------------------------
(* Characters.                                                             *)
RECURSIVE wcrt_in_set(_, _)
wcrt_in_set(c, set) ==
  CASE set = <<>> -> FALSE
    [] Len(set) > 2 /\ set[2] = Minus ->
         c \in set[1]..set[3] \/ wcrt_in_set(c, SubSeq(set, 4, Len(set)))
    [] OTHER -> c = Head(set) \/ wcrt_in_set(c, Tail(set))

Accepted(c, d) ==
  CASE d.conversion = Ch.c -> TRUE
    [] d.conversion = Ch.s -> c \notin isspace
    [] d.conversion = Ch.set -> wcrt_in_set(c, d.set) # d.invert

RECURSIVE Run(_, _, _, _)
Run(t, c, most, d) ==
  IF most > 0 /\ c < Len(t) /\ Accepted(t[c + 1], d) THEN Run(t, c + 1, most - 1, d) ELSE c

(* `size` is the destination's capacity when the function is a checking    *)
(* one.  A narrow destination of wide input takes bytes only.              *)
wcrt_scan_characters(t, c, d, secure, size, wide) ==
  LET maximum == CASE d.width # 0 -> d.width
                   [] d.width = 0 /\ d.conversion = Ch.c -> 1
                   [] OTHER -> INT_MAX
      end == Run(t, c, maximum, d)
      checked == secure /\ ~d.suppress
      text == SubSeq(t, c + 1, end)
      cut == IF size > 0 THEN size - 1 ELSE 0
      error(at, out) == [c |-> at, out |-> out, result |-> -1]
  IN CASE checked /\ d.conversion = Ch.c /\ size < maximum -> error(c, <<>>)
       [] checked /\ d.conversion # Ch.c /\ text # <<>> /\ Len(text) >= size -> error(c + cut, <<<<>>>>)
       [] ~d.suppress /\ wide /\ d.length = "l" /\ (\E i \in DOMAIN text : text[i] \notin WideByte) ->
            error(c, <<>>)
       [] OTHER ->
            IF text = <<>> \/ (d.conversion = Ch.c /\ Len(text) < maximum)
            THEN [c |-> end, out |-> <<>>, result |-> IF end = Len(t) THEN -2 ELSE 0]
            ELSE Converted(t, c, end, d.suppress, TRUE, text)

-----------------------------------------------------------------------------
(* The wide scanner has loops of its own, which take from the string what  *)
(* the narrow ones take from its input.                                    *)
wcrt_wscan_integer_end(t, c, conversion) == wcrt_integer_item(t, c, conversion)
wcrt_wscan_word(t, c, word) == wcrt_scan_word(t, c, word)
wcrt_wscan_float_end(t, c) == wcrt_float_item(t, c)
wcrt_wscan_store_signed(n, length) == wcrt_store_signed(n, length)
wcrt_wscan_store_unsigned(n, length) == wcrt_store_unsigned(n, length)
wcrt_wscan_in_set(c, set) == wcrt_in_set(c, set)
wcrt_wscan_integer(t, c, d) == wcrt_scan_integer(t, c, d)
wcrt_wscan_float(t, c, d) == wcrt_scan_float(t, c, d)
wcrt_wscan_characters(t, c, d) == wcrt_scan_characters(t, c, d, FALSE, 0, TRUE)

-----------------------------------------------------------------------------
(* The directive after the percent sign at offset i - 1.                   *)
RECURSIVE wcrt_scan_width(_, _, _)
wcrt_scan_width(f, i, value) ==
  LET d == At(f, i) - 48
  IN IF At(f, i) \notin isdigit THEN value
     ELSE wcrt_scan_width(f, i + 1, IF value > (INT_MAX - d) \div 10 THEN INT_MAX ELSE value * 10 + d)

Modifier(f, i, wide) ==
  LET c == At(f, i)
  IN CASE c \in {Ch.h, Ch.l} ->
            IF At(f, i + 1) = c THEN [length |-> IF c = Ch.h THEN "hh" ELSE "ll", end |-> i + 2]
            ELSE [length |-> IF c = Ch.h THEN "h" ELSE "l", end |-> i + 1]
       [] c \in {Ch.j, Ch.z, Ch.t, Ch.L} ->
            [length |-> CASE c = Ch.j -> "j" [] c = Ch.z -> "z" [] c = Ch.t -> "t" [] c = Ch.L -> "L",
             end |-> i + 1]
       [] c = Ch.I /\ ~wide /\ At(f, i + 1) = 54 /\ At(f, i + 2) = 52 ->
            [length |-> "ll", end |-> i + 3]
       [] OTHER -> [length |-> "none", end |-> i]

Directive(f, i, wide) ==
  LET suppress == At(f, i) = Asterisk
      digits == IF suppress THEN i + 1 ELSE i
      m == Modifier(f, Past(f, digits, isdigit), wide)
      conversion == At(f, m.end)
      invert == conversion = Ch.set /\ At(f, m.end + 1) = Caret
      first == IF invert THEN m.end + 2 ELSE m.end + 1
      last == Past(f, IF At(f, first) = CloseBracket THEN first + 1 ELSE first,
                   (1..WCHAR_MAX) \ {CloseBracket})
      after == IF At(f, last) = CloseBracket THEN last + 1 ELSE last
  IN [suppress |-> suppress, width |-> wcrt_scan_width(f, digits, 0), length |-> m.length,
      conversion |-> conversion, invert |-> invert, set |-> SubSeq(f, first + 1, last),
      next |-> IF conversion = Ch.set THEN after ELSE m.end + 1]

-----------------------------------------------------------------------------
(* The call.  `assignments` counts the values stored but for %n;           *)
(* `completed` is set by any directive that succeeded and by %n.           *)
EOF == -1
Ended(s, r) == [r |-> r, c |-> s.c, out |-> s.out]
(* Mutation of Failure: any failure at the end is EOF.                     *)
FailureAtEnd(s, t) == Ended(s, IF s.c = Len(t) THEN EOF ELSE s.assignments)

Failure(s, t) == Ended(s, IF s.c = Len(t) /\ ~s.completed THEN EOF ELSE s.assignments)

Conversion(t, c, d, secure, size, wide) ==
  CASE d.conversion \in IntegerConversions ->
         IF wide THEN wcrt_wscan_integer(t, c, d) ELSE wcrt_scan_integer(t, c, d)
    [] d.conversion \in FloatConversions ->
         IF wide THEN wcrt_wscan_float(t, c, d) ELSE wcrt_scan_float(t, c, d)
    [] d.conversion \in CharacterConversions ->
         IF wide THEN wcrt_wscan_characters(t, c, d) ELSE wcrt_scan_characters(t, c, d, secure, size, FALSE)

RECURSIVE wcrt_scan(_, _, _, _, _, _, _)
wcrt_scan(t, s, f, i, secure, sizes, wide) ==
  LET percent == At(f, i) = Percent
      literal == IF percent THEN Percent ELSE At(f, i)
      d == Directive(f, i + 1, wide)
      from == IF d.conversion \in {Ch.c, Ch.set, Ch.n} THEN s.c ELSE wcrt_input_space(t, s.c)
      takes == secure /\ ~d.suppress /\ d.conversion \in CharacterConversions
      r == Conversion(t, from, d, secure, IF takes THEN Head(sizes) ELSE 0, wide)
      then == [c |-> r.c, out |-> s.out \o r.out, completed |-> TRUE,
               assignments |-> IF r.result = 1 THEN s.assignments + 1 ELSE s.assignments]
      rest == IF takes THEN Tail(sizes) ELSE sizes
      go(state, at) == wcrt_scan(t, state, f, at, secure, sizes, wide)
  IN CASE i = Len(f) -> Ended(s, s.assignments)
       [] At(f, i) \in isspace ->
            go([s EXCEPT !.c = wcrt_input_space(t, s.c)], Past(f, i, isspace))
       [] At(f, i) \notin isspace \cup {NUL} /\ (~percent \/ At(f, i + 1) = Percent) ->
            IF At(t, s.c) = literal THEN go([s EXCEPT !.c = @ + 1], IF percent THEN i + 2 ELSE i + 1)
            ELSE Failure(s, t)
       [] OTHER ->
            CASE d.conversion = NUL -> Ended(s, s.assignments)
              [] d.conversion = Ch.n ->
                   go([s EXCEPT !.completed = TRUE,
                                !.out = IF d.suppress THEN @
                                        ELSE Append(@, wcrt_store_signed(s.c, d.length))], d.next)
              [] d.conversion \notin IntegerConversions \cup FloatConversions \cup
                                     CharacterConversions \cup {NUL, Ch.n} ->
                   Ended([s EXCEPT !.c = from], s.assignments)
              [] OTHER ->
                   CASE r.result < 0 -> Ended([then EXCEPT !.completed = s.completed],
                                              IF s.completed THEN s.assignments ELSE EOF)
                     [] r.result = 0 -> Ended(then, s.assignments)
                     [] r.result > 0 -> wcrt_scan(t, then, f, d.next, secure, rest, wide)

Initial == [c |-> 0, out |-> <<>>, completed |-> FALSE, assignments |-> 0]
vsscanf(t, f) == wcrt_scan(t, Initial, f, 0, FALSE, <<>>, FALSE)
sscanf_s(t, f, sizes) == wcrt_scan(t, Initial, f, 0, TRUE, sizes, FALSE)
wcrt_wstring_scan(t, f) == wcrt_scan(t, Initial, f, 0, FALSE, <<>>, TRUE)
vfscanf(t, f) == vsscanf(t, f)                    \* t is what the stream still holds
vswscanf(t, f) == wcrt_wstring_scan(t, f)

-----------------------------------------------------------------------------
(* What formatted input promises (docs/req-0030-stdio-c99-scan.md, C99     *)
(* 7.19.6.2): the input item of a directive is the longest sequence, of no *)
(* more characters than the field width, that is a matching sequence or    *)
(* the beginning of one; the directive succeeds if the item is matching,   *)
(* and the first character after the item remains unread.                  *)

F == INSTANCE Formatting WITH FRACTION <- 1

Rest(t, c) == SubSeq(t, c + 1, Len(t))

(* What can follow the beginning of a matching sequence to complete it.    *)
Completions == {<<>>, <<49>>, <<CloseParenthesis>>} \cup
  {Drop(Inf \o Inity, n) : n \in 0..7} \cup {Drop(Nan, n) : n \in 0..2}
  \cup {<<Point, 49>>}
Begins(s, Matches(_)) == \E x \in Completions : Matches(s \o x)

Item(t, width, Matches(_)) ==
  LET most == IF width = 0 \/ width > Len(t) THEN Len(t) ELSE width
  IN Max({0} \cup {n \in 1..most : Begins(SubSeq(t, 1, n), Matches)})

(* One numeric directive on the input t.                                   *)
Matching(conversion, s) ==
  /\ s # <<>> /\ s[1] \notin isspace
  /\ CASE conversion \in FloatConversions -> FloatSubject(s)
       [] conversion = Ch.i -> IntegerSubject(s, 0)
       [] OTHER -> IntegerSubject(s, Base(conversion))

Directed(conversion, width, length) ==
  <<Percent>> \o (IF width = 0 THEN <<>> ELSE <<48 + width>>) \o
  (CASE length = "none" -> <<>> [] length = "hh" -> Codes(<<"h", "h">>)
     [] OTHER -> Codes(<<length>>)) \o <<conversion>>

(* The integer a matching sequence stands for, through its destination.    *)
Stored(conversion, s, length) ==
  LET base == IF conversion = Ch.i THEN 0 ELSE Base(conversion)
  IN IF conversion \in {Ch.d, Ch.i}
     THEN wcrt_store_signed(SignedReference(s, base, Width.ll).value, length)
     ELSE wcrt_store_unsigned(UnsignedReference(s, base, Width.ll).value, length)

(* Where the code departs: a floating item may go on past a sign or an     *)
(* exponent letter that no digit follows, or past a word cut short.  Those *)
(* are no beginning of a number, and the code reads them all the same      *)
(* (docs/req-0030-stdio-c99-scan.md:37-39); the conversion then fails.     *)
RunsOn(conversion, succeeds) == conversion \in FloatConversions /\ ~succeeds

NumberScanned(t, conversion, width, length) ==
  LET start == wcrt_input_space(t, 0)
      rest == Rest(t, start)
      n == Item(rest, width, LAMBDA s : Matching(conversion, s))
      item == SubSeq(rest, 1, n)
      r == vfscanf(t, Directed(conversion, width, length))
      succeeds == Matching(conversion, item)
  IN /\ r.r = IF succeeds THEN 1 ELSE IF rest = <<>> THEN EOF ELSE 0
     /\ succeeds /\ conversion \in IntegerConversions => r.out = <<Stored(conversion, item, length)>>
     /\ succeeds /\ conversion \in FloatConversions => r.out[1].neg = (item[1] = Minus)
     /\ RunsOn(conversion, succeeds) \/ r.c = start + n
     /\ r.c >= start + n

-----------------------------------------------------------------------------
(* Directives one after another: a format whose first part succeeds goes   *)
(* on where that part stopped, in a string, a wide string and a stream     *)
(* alike, and stores and counts what the parts do.                         *)
PartsAdd(t, f, g) ==
  LET first == vsscanf(t, f)
      second == vfscanf(Rest(t, first.c), g)
      whole == vsscanf(t, f \o g)
      wide == vswscanf(t, f \o g)
  IN /\ wide = whole
     /\ first.r = 1 =>
          /\ whole.c = first.c + second.c
          /\ whole.out = first.out \o second.out
          /\ whole.r = 1 + (IF second.r = EOF THEN 0 ELSE second.r)

(* Where the code departs: an empty text is stored even in a destination   *)
(* of no characters, which has no room for its terminator                  *)
(* (docs/req-0046-ms-secure-stdio.md:36-38).                               *)
NoRoom(size) == size = 0

(* Texts: never longer than the width, no character of another kind; and   *)
(* of a checking call never more than fits with its terminator, else it    *)
(* fails with an empty text.                                               *)
TextScanned(t, f, class, width, size) ==
  LET start == IF At(f, Len(f) - 1) = Ch.s THEN wcrt_input_space(t, 0) ELSE 0
      rest == Rest(t, start)
      kept == Item(rest, width, LAMBDA s : ToSet(s) \subseteq class /\ s # <<>>)
      text == SubSeq(rest, 1, kept)
      r == vsscanf(t, f)
      s == sscanf_s(t, f, <<size>>)
  IN /\ r.r = IF kept > 0 THEN 1 ELSE IF rest = <<>> THEN EOF ELSE 0
     /\ kept > 0 => r.out = <<text>> /\ r.c = start + kept
     /\ kept < size \/ kept = 0 => s = r
     /\ kept >= size /\ kept # 0 => s.r = EOF /\ s.c = start + Max({0, size - 1})
     /\ kept >= size /\ kept # 0 => NoRoom(size) \/ s.out = <<<<>>>>

-----------------------------------------------------------------------------
(* What formatted output writes, formatted input reads back.               *)
ReadsBack(format, conversion, n, length) ==
  LET text == F!vsprintf(format, <<n>>)
      t == Codes(SubSeq(text.stored, 1, Len(text.stored) - 1))
      r == vsscanf(t, Directed(conversion, 0, length) \o Codes(<<" ", "%", "n">>))
      full == IF conversion \in {Ch.d, Ch.i} THEN wcrt_store_signed(n, length)
              ELSE wcrt_store_unsigned(n, length)
  IN r.r = 1 /\ r.out = <<full, wcrt_store_signed(Len(t), "none")>>
=============================================================================
