---------------------------- MODULE MCAlgorithms ----------------------------
(***************************************************************************)
(* Inputs for TLC to compare the library's pure algorithms with their      *)
(* reference definitions.  A behaviour chooses one input of one kind; the  *)
(* kinds are cut into parts so that several workers share them.  The       *)
(* properties are of the step, about the input it has chosen.              *)
(***************************************************************************)
EXTENDS Integers, Sequences

CONSTANTS
  INT_MAX,    \* the largest int of the formatting and scanning instances
  FRACTION,   \* hexadecimal digits after the point of a floating value
  NullPointer \* the null pointer

(* Bits of each integer type; L is a long double's field.                  *)
Width == [hh |-> 3, h |-> 4, none |-> 5, l |-> 5, ll |-> 6, j |-> 6, z |-> 6, t |-> 6, L |-> 5]

S == INSTANCE Strings
N == INSTANCE NumericText
U == INSTANCE GeneralUtilities
F == INSTANCE Formatting
C == INSTANCE Scanning
K == INSTANCE Calendar WITH Bias <- 330
A == INSTANCE Arguments
P == INSTANCE Patterns
G == INSTANCE Signals WITH Supported <- 1..2

(* Floating formats of seven, six and eight bits (the last has, as double  *)
(* does, values past the integer types and past 2^FRACTION_BITS * 4); a    *)
(* wide one of ten bits and a narrow one of five for the float functions.  *)
X == INSTANCE Floats WITH EXPONENT_BITS <- 3, FRACTION_BITS <- 3, STEP <- 2, RANGE <- 16,
       LONG_BITS <- 5, LLONG_BITS <- 7
M == INSTANCE Floats WITH EXPONENT_BITS <- 3, FRACTION_BITS <- 2, STEP <- 2, RANGE <- 16,
       LONG_BITS <- 4, LLONG_BITS <- 6
W == INSTANCE Floats WITH EXPONENT_BITS <- 4, FRACTION_BITS <- 3, STEP <- 4, RANGE <- 32,
       LONG_BITS <- 5, LLONG_BITS <- 7
V == INSTANCE FloatVariants WITH WIDE_EXPONENT <- 4, WIDE_FRACTION <- 5, NARROW_EXPONENT <- 3, NARROW_FRACTION <- 1
E64 == INSTANCE FloatEnvironment WITH FE_ALL_EXCEPT <- {"inexact", "invalid"}, X64 <- TRUE
E32 == INSTANCE FloatEnvironment WITH FE_ALL_EXCEPT <- {"inexact", "invalid"}, X64 <- FALSE

VARIABLE input

Texts(units, most) == UNION {[1..n -> units] : n \in 0..most}
Codes(texts) == {C!Codes(t) : t \in texts}

-----------------------------------------------------------------------------
(* Memory: six bytes, the last of them zero, of which one is past 127.     *)
Memories(first) ==
  {[i \in 0..5 |-> IF i = 0 THEN first ELSE IF i = 5 THEN 0 ELSE f[i]] : f \in [1..4 -> {0, 65, 97, 200}]}
Firsts == <<0, 65, 97, 200>>
WideTexts == Texts({65, 200, 300}, 3)

(* Texts of numbers: signs, blanks, prefixes, digits past the base.        *)
Bases == <<0, 8, 10, 16>>
IntegerTexts == Codes(Texts({" ", "-", "0", "x", "1", "f"}, 4))
Words == Codes({<<"I", "n", "F">>, <<"i", "n", "f", "i">>, <<"i", "n", "f", "i", "n", "i", "t", "y">>,
                <<"i", "n", "f", "i", "n", "i", "t">>, <<"i", "n">>, <<"n", "A", "n">>, <<"n", "a", "n", "(">>,
                <<"n", "a", "n", "(", ")">>, <<"n", "a", "n", "(", "_", "1", ")", ")">>, <<" ", "-", "i", "n", "f">>})
DecimalTexts == Codes(Texts({"-", ".", "0", "9", "e"}, 4)) \cup
  Codes({d \o <<"e">> \o s \o n : d \in {<<"1">>, <<".", "9", "9">>}, s \in {<<>>, <<"+">>, <<"-">>},
                                  n \in Texts({"0", "2", "9"}, 2)})
(* Scaled numbers, some of them around the limits of the format of four    *)
(* bits that decimals are read in: the largest is 1966080, the smallest    *)
(* normal 1/4 and the smallest 1/32.  As in double, no product but the     *)
(* last can pass the largest.                                              *)
ScaledTexts == Codes({d \o <<"e">> \o s \o <<n>> :
  d \in Texts({"0", "1", "3", "9"}, 3) \cup
        {<<"-", "1", "9", "7">>, <<"1", "9", "6", "6">>, <<"2", ".", "2">>, <<"2", "5">>, <<"2", "4">>,
         <<"1", ".", "5", "7">>, <<"0", ".", "0", "1", "5", "6">>, <<"9", "9", "9", "9">>},
  s \in {<<>>, <<"-">>}, n \in {"0", "1", "2", "3", "4", "5", "6", "7", "8", "9"}})
HexadecimalTexts == Codes({<<"0", "x">> \o d \o e :
  d \in Texts({".", "0", "1", "8", "f"}, 3),
  e \in {<<>>, <<"p">>, <<"p", "+">>, <<"p", "3">>} \cup {<<"p", "-", n>> : n \in {"1", "2", "3", "4", "5", "6"}}})

-----------------------------------------------------------------------------
(* Conversions of printf.                                                  *)
Directive(flags, width, precision, length, conversion) ==
  [flags |-> flags, width |-> width, precision |-> precision, length |-> length, conversion |-> conversion]
Integral == <<{"d"}, {"o"}, {"u", "x"}, {"X"}>>
Floating == <<{"f"}, {"e"}, {"g"}, {}>>
Significands == {<<>>, <<1>>, <<5>>, <<9, 9, 5>>, <<1, 4, 5>>, <<2, 5, 1>>, <<9, 5>>}
FloatValues == [kind : {"finite"}, neg : {FALSE}, digits : Significands, exponent : -2..1] \cup
  [kind : {"finite"}, neg : {TRUE}, digits : {<<>>, <<1, 4, 5>>}, exponent : {0}] \cup
  {[kind |-> k, neg |-> neg] : k \in {"inf", "nan"}, neg \in BOOLEAN}

(* Conversions of scanf and the texts they meet.                           *)
NumberTexts == Codes(Texts({" ", "-", "0", "9", "x", "f"}, 3))
FloatTexts == Codes(Texts({"+", ".", "3", "e"}, 4) \cup
  {<<"i", "n", "f">> \o w : w \in {<<>>, <<"i", "n">>, <<"i", "n", "i", "t", "y", "1">>}} \cup
  {<<"n", "a", "n">> \o w : w \in {<<>>, <<"(", "0">>, <<"(", ")">>, <<"(", "-">>}} \cup
  {<<"0", "x">> \o w : w \in {<<"1", "p", "1">>, <<"1", "p", "-">>, <<".", "8">>, <<"1", "e", "3">>}})
ItemTexts == Codes(Texts({" ", "a", "b", "]", "-"}, 3))
Items ==
  <<[f |-> C!Codes(<<"[", "a", "-", "b", "]">>), class |-> {97, 98}],
    [f |-> C!Codes(<<"[", "]", "a", "]">>), class |-> {93, 97}],
    [f |-> C!Codes(<<"[", "^", "a", "-", "]">>), class |-> (1..255) \ {97, 45}],
    [f |-> C!Codes(<<"s">>), class |-> (1..255) \ {32}]>>
Digits(width) == IF width = 0 THEN <<>> ELSE <<48 + width>>
FirstFormats == Codes({<<"%", "d">>, <<"%", "2", "x">>, <<" ", "%", "c">>, <<"-", "%", "i">>})
SecondFormats == Codes({<<"%", "*", "i", "%", "c">>, <<" ", "9", "%", "o">>, <<"%", "s", "%", "%">>,
                        <<"%", "[", "-", "0", "]", "%", "u">>})
Written == <<<<"%", "d">>, <<"%", "#", "o">>, <<"%", "+", "5", "d">>, <<"%", "0", "5", "u">>>>
WithLength(f, length) == IF length = "none" THEN f ELSE SubSeq(f, 1, Len(f) - 1) \o <<"h", "h", f[Len(f)]>>

-----------------------------------------------------------------------------
(* Functions registered with atexit: r registers p, x and y call exit.     *)
Functions == {"p", "q", "r", "x", "y"}
Does == [f \in Functions |->
  CASE f = "r" -> [call |-> "atexit", of |-> "p"]
    [] f = "x" -> [call |-> "exit", of |-> 7]
    [] f = "y" -> [call |-> "exit", of |-> 8]
    [] OTHER -> [call |-> "return"]]

(* Years around centuries, leap years and the epoch; instants around them. *)
Years == {1600, 1601, 1899, 1900, 1969, 1970, 1972, 1999, 2000, 2001, 2004, 2015, 2016, 2020, 2021, 2026, 2100, 2400}
Instants == [days : {-134000, -1, 0, 59, 24855, 11016}, seconds : {0, 11647, 86399}]
TimeFormats == {<<"%", c>> : c \in {"c", "F", "r", "A", "j", "Q"}} \cup
  {<<"-", "%", "R", "%", "z", "%", "E", "Y">>, <<"%", "T", "%", "Q">>, <<"%", "B", "%">>}

(* Arguments with blanks, quotes and backslashes; options with arguments   *)
(* that look like options; paths of four characters.                       *)
ArgumentWords == Texts({"a", " ", A!Quote, A!Backslash}, 3)
OptionItems ==
  [c : {"a", "z"}, arg : {NullPointer}, apart : BOOLEAN] \cup
  [c : {"r"}, arg : {<<"-">>, <<"a">>, <<"-", "-">>}, apart : BOOLEAN] \cup
  {[c |-> "o", arg |-> NullPointer, apart |-> TRUE], [c |-> "o", arg |-> <<"a">>, apart |-> FALSE]}
Takes == [a |-> "no", r |-> "required", o |-> "optional"]
LongOptions ==
  <<[name |-> <<"a", "b">>, takes |-> "no", val |-> "1", flag |-> TRUE],
    [name |-> <<"a", "b", "c">>, takes |-> "required", val |-> "2", flag |-> FALSE],
    [name |-> <<"b">>, takes |-> "optional", val |-> "3", flag |-> TRUE]>>
Paths == Texts({"a", ":", "/", A!Backslash, "."}, 4)

(* Patterns of up to three tokens and the names they meet.                 *)
Tokens ==
  [kind : {"literal"}, of : {P!Code["a"], P!Code["."], P!Code["/"], P!Code["*"]}] \cup
  [kind : {"any", "star"}, of : {0}] \cup
  [kind : {"set", "other"}, of : {P!Code["a"]..(P!Code["a"] + 2), {P!Code["]"], P!Code["."]}}]
FileNames == Texts({P!Code["a"], P!Code["."], P!Code["/"]}, 3) \cup Texts({P!Code["A"], P!Code["*"], P!Code["]"]}, 2)
MatchFlags == {{}, {"PATHNAME"}, {"PATHNAME", "PERIOD"}, {"PERIOD"}, {"CASEFOLD"}}

(* Programs that install and raise: f installs itself again, g raises the  *)
(* other signal, h its own.                                                *)
SignalCalls == [call : {"signal"}, n : {1, 2, 3}, handler : {"SIG_DFL", "SIG_IGN", "SIG_ERR", "f", "g", "h"}] \cup
  [call : {"raise"}, n : {1, 2, 3}]
HandlerCalls == [h \in {"f", "g", "h"} |->
  CASE h = "f" -> <<[call |-> "signal", n |-> 1, handler |-> "f"], [call |-> "raise", n |-> 2]>>
    [] h = "g" -> <<[call |-> "raise", n |-> 2], [call |-> "signal", n |-> 2, handler |-> "SIG_IGN"]>>
    [] OTHER -> <<[call |-> "raise", n |-> 1]>>]

(* Values of every class for the first operand of fma.                     *)
FmaOperands == {0, 1, 3, 4, 13, 22, 27, 28, 30, 32, 45, 59}
Shifts == (-17)..17

(* The two units out of step, calls, and what ends a sequence of them.     *)
Excepts == {{}, {"inexact"}, {"inexact", "invalid", "denormal"}}
Processors ==
  [x87 : {E64!Unit(flags, round, traps, "default") :
            flags \in {{}, {"inexact"}, {"denormal"}}, round \in {"nearest", "zero"}, traps \in {{}, {"invalid"}}},
   sse : {E64!Unit(flags, round, traps, "default") :
            flags \in {{}, {"invalid"}}, round \in {"nearest", "upward"}, traps \in {{}, E64!AllTraps}}]
EnvironmentCalls ==
  [call : {"clear", "get", "raise", "set", "test"}, excepts : Excepts] \cup
  [call : {"round"}, round : {"nearest", "upward", "other"}] \cup [call : {"getenv", "hold"}] \cup
  [call : {"setenv", "update"}, envp : {"FE_DFL_ENV", "null", "env"}] \cup
  [call : {"compute"}, unit : {"x87", "sse"}, raises : {{"inexact"}, {"denormal", "invalid"}}]
LastCalls == [call : {"update"}, envp : {"env"}] \cup [call : {"set"}, excepts : {{"inexact"}}]

-----------------------------------------------------------------------------
Kinds == {"text", "number", "format", "scan", "utility", "argument", "real"}
Init == input \in [op : {"start"}, kind : Kinds, part : 1..4]

ChooseText(i) ==
  \/ \E m \in Memories(Firsts[i]) : input' = [op |-> "memory", m |-> m]
  \/ i = 1 /\ \E t \in WideTexts : input' = [op |-> "multibyte", t |-> t]

ChooseNumber(i) ==
  \/ \E t \in IntegerTexts : input' = [op |-> "integer", t |-> t, base |-> Bases[i]]
  \/ \E t \in CASE i = 1 -> DecimalTexts [] i = 2 -> HexadecimalTexts [] i = 3 -> Words [] OTHER -> ScaledTexts :
       input' = [op |-> "float", t |-> t]

ChooseFormat(i) ==
  \/ \E flags \in SUBSET {"-", "+", " ", "#", "0"}, width \in {-1, 4}, precision \in {-1, 0, 3},
        length \in {"none", "hh"}, c \in Integral[i], n \in {-65, 0, 31} :
       input' = [op |-> "integers", d |-> Directive(flags, width, precision, length, c), v |-> n]
  \/ \E flags \in {{}, {"#"}, {"0"}, {"-"}, {"+"}}, width \in {-1, 7}, precision \in {-1, 0, 2},
        c \in Floating[i], v \in FloatValues :
       input' = [op |-> "decimals", d |-> Directive(flags, width, precision, "none", c), v |-> v]
  \/ i = 1 /\ \E field \in 0..6, fraction \in 0..15 :
       input' = [op |-> "hexadecimal", v |-> [kind |-> "finite", neg |-> FALSE, field |-> field, fraction |-> fraction]]
  \/ i = 2 /\ \E flags \in {{}, {"-"}}, width \in {-1, 3}, precision \in {-1, 0, 1, 2}, s \in Texts({"a", "b", "wide"}, 3) :
       input' = [op |-> "texts", d |-> Directive(flags, width, precision, "l", "s"), v |-> s]

ChooseScan(i) ==
  \/ \E t \in NumberTexts, width \in {0, 2} :
       input' = [op |-> "scan", t |-> t, width |-> width, c |-> C!Code[<<"d", "i", "o", "x">>[i]]]
  \/ i = 1 /\ \E t \in FloatTexts, width \in {0, 3} :
       input' = [op |-> "scan", t |-> t, width |-> width, c |-> C!Code["f"]]
  \/ \E t \in ItemTexts, width \in {0, 2}, size \in {0, 1, 3} :
       input' = [op |-> "item", t |-> t, width |-> width, item |-> Items[i], size |-> size]
  \/ i = 3 /\ \E t \in NumberTexts, f \in FirstFormats, g \in SecondFormats :
       input' = [op |-> "parts", t |-> t, f |-> f, g |-> g]
  \/ \E n \in {-33, -32, -5, -1, 0, 7, 8, 15, 16, 31, 32}, length \in {"none", "hh"} :
       input' = [op |-> "back", n |-> n, f |-> WithLength(Written[i], length), length |-> length,
                 c |-> C!Code[Written[i][Len(Written[i])]]]

ChooseUtility(i) ==
  \/ i = 1 /\ \E fs \in Texts(Functions, 4) : input' = [op |-> "exit", fs |-> fs]
  \/ i = 2 /\ \E ranks \in Texts(0..3, 5) : input' = [op |-> "sort", ranks |-> ranks]
  \/ i = 2 /\ \E n \in -7..7, d \in -4..4 : input' = [op |-> "divide", n |-> n, d |-> d]
  \/ i = 3 /\ input' = [op |-> "random", bits |-> 8, multiplier |-> 1103515245 % 256, increment |-> 12345 % 256]
  \/ i = 1 /\ \E a, b, c \in SignalCalls : input' = [op |-> "signals", calls |-> <<a, b, c>>]
  \/ i = 3 /\ \E y \in Years : input' = [op |-> "year", y |-> y]
  \/ i = 3 /\ \E t \in Instants, d \in {-400, 0, 30, 366}, minutes \in {-1441, 0, 60}, months \in {-13, 0, 12} :
       input' = [op |-> "normalize", t |-> t, days |-> d, minutes |-> minutes, months |-> months]
  \/ i = 4 /\ \E f \in TimeFormats, capacity \in {0, 1, 3, 4, 9, 10, 11, 12, 24, 25, 30}, t \in Instants :
       input' = [op |-> "strftime", f |-> f, capacity |-> capacity, t |-> t]

ChooseArgument(i) ==
  \/ i = 1 /\ \E a, b \in ArgumentWords, blanks \in {<<>>, <<" ">>} :
       input' = [op |-> "line", arguments |-> <<a, b>>, blanks |-> blanks]
  \/ i = 2 /\ \E items \in Texts(OptionItems, 3), colon \in BOOLEAN, operands \in {<<>>, <<<<"-", "a">>>>} :
       input' = [op |-> "options", items |-> items, operands |-> operands, options |-> [colon |-> colon, takes |-> Takes]]
  \/ i = 2 /\ \E index \in 1..3, length \in 1..3, arg \in {NullPointer, <<>>, <<"x">>}, apart \in BOOLEAN :
       /\ length <= Len(LongOptions[index].name)
       /\ input' = [op |-> "long", index |-> index, length |-> length, arg |-> arg, apart |-> apart,
                    options |-> [colon |-> FALSE, takes |-> Takes]]
  \/ i = 3 /\ \E path \in Paths : input' = [op |-> "path", path |-> path]
  \/ \E tokens \in Texts(Tokens, 2), flags \in MatchFlags :
       input' = [op |-> "match", flags |-> flags,
                 tokens |-> tokens \o <<<<[kind |-> "star", of |-> 0]>>, <<[kind |-> "any", of |-> 0]>>,
                   <<[kind |-> "literal", of |-> P!Code["a"]]>>, <<>>>>[i]]

ChooseReal(i) ==
  \/ \E x \in X!Encodings : x % 4 = i - 1 /\ input' = [op |-> "real", x |-> x]
  \/ \E x \in W!Encodings : x % 4 = i - 1 /\ input' = [op |-> "whole", x |-> x]
  \/ \E x \in FmaOperands : x % 4 = i - 1 /\ input' = [op |-> "fma", x |-> x]
  \/ \E x \in V!F!Encodings : x % 4 = i - 1 /\ input' = [op |-> "float variants", x |-> x]
  \/ \E f \in Processors, c \in EnvironmentCalls :
       /\ f.x87.round = (IF i > 2 THEN "zero" ELSE "nearest")
       /\ f.sse.round = (IF i % 2 = 0 THEN "upward" ELSE "nearest")
       /\ input' = [op |-> "environment", f |-> f, c |-> c]

Next ==
  /\ input.op = "start"
  /\ \/ input.kind = "text" /\ ChooseText(input.part)
     \/ input.kind = "number" /\ ChooseNumber(input.part)
     \/ input.kind = "format" /\ ChooseFormat(input.part)
     \/ input.kind = "scan" /\ ChooseScan(input.part)
     \/ input.kind = "utility" /\ ChooseUtility(input.part)
     \/ input.kind = "argument" /\ ChooseArgument(input.part)
     \/ input.kind = "real" /\ ChooseReal(input.part)
Spec == Init /\ [][Next]_input

-----------------------------------------------------------------------------
(* The string functions do to a memory what their definitions by indices   *)
(* say, tokens are the runs between separators, bounded copies stay within *)
(* their bounds, and wide characters survive the multibyte form            *)
(* (src/string.c, src/wchar_convert.c).                                    *)
TextMatches ==
  [][LET i == input'
      IN /\ i.op = "memory" => S!StringsCorrect(i.m) /\ S!TokensCorrect(i.m) /\ S!BoundedCorrect(i.m)
         /\ i.op = "multibyte" => U!MultibyteCorrect(i.t)]_input

(* strtol, strtoul and strtod read the longest number at the start of a    *)
(* text, with the end, the value and the range error the number has: an    *)
(* integer and a hexadecimal floating number exactly or rounded once, but  *)
(* for the value of a negative number past every unsigned long (Saturated) *)
(* and a decimal one within two units in the last place (src/stdlib.c).    *)
NumbersMatch ==
  [][LET i == input'
      IN /\ i.op = "integer" => N!IntegersCorrect(i.t, i.base, 4)
         /\ i.op = "float" => /\ N!FloatsCorrect(i.t, 3, -2, 2, 2) /\ N!HexadecimalRounded(i.t, 3, -2, 2)
                              /\ N!DecimalsScaled(i.t, 4, -2, 20, 3, 2)]_input

(* What printf writes for a conversion is its value, with the flags, width *)
(* and precision obeyed, whichever sink it goes to (src/stdio_format.c,    *)
(* src/wchar_format.c).                                                    *)
FormatsMatch ==
  [][LET i == input'
      IN /\ i.op = "integers" => F!IntegersFormatted(i.d, i.v) /\ F!SinksAgree(i.d, i.v)
         /\ i.op = "decimals" => F!DecimalsFormatted(i.d, i.v) /\ F!SinksAgree(i.d, i.v)
         /\ i.op = "hexadecimal" => F!HexadecimalReadsBack(i.v)
         /\ i.op = "texts" => F!TextsFormatted(i.d, i.v)]_input

(* What scanf takes is the longest item within the width, a format is as   *)
(* good as its two halves one after the other, and what printf wrote is    *)
(* read back (src/stdio_scan.c, src/wchar_scan.c).                         *)
ScansMatch ==
  [][LET i == input'
      IN /\ i.op = "scan" => C!NumberScanned(i.t, i.c, i.width, "none")
         /\ i.op = "item" =>
              C!TextScanned(i.t, <<C!Code["%"]>> \o Digits(i.width) \o i.item.f, i.item.class, i.width, i.size)
         /\ i.op = "parts" => C!PartsAdd(i.t, i.f, i.g)
         /\ i.op = "back" => C!ReadsBack(i.f, i.c, i.n, i.length)]_input

(* Sorting sorts and searching finds, exit calls what atexit registered in *)
(* reverse order and once, a handler is delivered once for each time it is *)
(* installed, and the calendar's days, dates, weeks and texts agree with   *)
(* counting days one by one (src/stdlib.c, src/signal.c, src/time.c).      *)
UtilitiesMatch ==
  [][LET i == input'
      IN /\ i.op = "exit" => U!EndsInOrder(i.fs, Does, 3)
         /\ i.op = "sort" => U!SortsAndFinds(i.ranks)
         /\ i.op = "divide" => U!ArithmeticCorrect(i.n, i.d)
         /\ i.op = "random" => U!FullPeriod(i.bits, i.multiplier, i.increment)
         /\ i.op = "signals" =>
              /\ G!SignalsDelivered(i.calls, HandlerCalls)
              /\ \A n \in 1..3, h \in {"SIG_ERR", "SIG_IGN", "f"} :
                   G!SignalAnswers(G!Run(G!Process, SubSeq(i.calls, 1, 2), HandlerCalls), n, h)
         /\ i.op = "year" => K!YearCounted(i.y) /\ K!WeeksCounted(i.y)
         /\ i.op = "normalize" => K!Normalized(i.t, i.days, i.minutes, i.months)
         /\ i.op = "strftime" => K!TimeFormatted(i.f, i.capacity, i.t)]_input

(* A command line, options and paths taken apart are what they were put    *)
(* together from, and a pattern matches the names its tokens describe      *)
(* (src/platform/windows/startup_console.c, src/getopt.c, src/ms_path.c,   *)
(* src/fnmatch.c).                                                         *)
ArgumentsMatch ==
  [][LET i == input'
      IN /\ i.op = "line" => \A escape \in {A!Backslash, A!Quote} :
                                  A!LineReadsBack(i.arguments, i.blanks, escape)
         /\ i.op = "options" => A!OptionsReadBack(i.items, i.operands, i.options)
         /\ i.op = "long" =>
              A!LongOptionsReadBack(LongOptions, i.index, i.length, i.arg, i.apart, i.options)
         /\ i.op = "path" => A!PathsSplit(i.path)
         /\ i.op = "match" => \A name \in FileNames : P!PatternMatches(i.tokens, name, i.flags)]_input

(* The representation functions give the exact result, or its one rounding *)
(* in the direction in force, with the range and domain errors they are to *)
(* tell; the float functions give what the detour through double should;   *)
(* and each call on the floating environment does what it promises of both *)
(* units of the processor (src/math.c, src/fenv.c).                        *)
FloatsMatch ==
  [][LET i == input'
      IN /\ i.op = "real" =>
              /\ \A n \in Shifts, mode \in X!Modes : X!ScaleMatches(i.x, n, mode)
              /\ \A y \in X!Encodings : /\ X!NextMatches(i.x, y) /\ X!FmodMatches(i.x, y)
                                        /\ X!RemainderMatches(i.x, y) /\ X!ExtremesMatch(i.x, y)
         /\ i.op = "whole" => W!SplitMatches(i.x) /\ W!IntegralMatches(i.x)
         /\ i.op = "fma" => \A y, z \in M!Encodings, mode \in M!Modes : M!FmaMatches(i.x, y, z, mode)
         /\ i.op = "float variants" =>
              /\ \A mode \in X!Modes :
                   /\ V!UnaryVariantsMatch(i.x, mode)
                   /\ \A n \in (-12)..4 : V!ScaledVariantMatches(i.x, n, mode)
                   /\ \A y \in V!F!Encodings :
                        /\ V!BinaryVariantsMatch(i.x, y, mode)
                        /\ \A z \in V!F!Encodings : V!fmaf(i.x, y, z, mode) = V!F!fma(i.x, y, z, mode)
              /\ \A direction \in V!D!Encodings : V!NextTowardMatches(i.x, direction)
         /\ i.op = "environment" =>
              \A c \in EnvironmentCalls, last \in LastCalls :
                /\ E64!CallsCorrect(E64!Program(i.f), <<i.c, c, last>>)
                /\ E32!CallsCorrect(E32!Program(i.f), <<i.c, c, last>>)]_input
=============================================================================
