------------------------------ MODULE Arguments ------------------------------
(***************************************************************************)
(* What a program is given: the command line cut into arguments            *)
(* (src/platform/windows/startup_console.c, startup_gui.c), the options    *)
(* among them (src/getopt.c) and paths in parts (src/ms_path.c).  A text   *)
(* is a sequence of characters; the first index is 1, as is that of the    *)
(* arguments, so that optind counts from 2.                                *)
(***************************************************************************)
EXTENDS Integers, Sequences, SequencesExt, FiniteSetsExt

CONSTANT NullPointer

Blanks == {" ", "tab"}
Quote == "quote"
Backslash == "backslash"
At(text, i) == IF i \in DOMAIN text THEN text[i] ELSE "NUL"

(* The first place from i on where the text is not one of these, or ends.  *)
After(text, i, these) == Min({j \in i..Len(text) + 1 : At(text, j) \notin these})
Copies(n, c) == [i \in 1..n |-> c]

-----------------------------------------------------------------------------
(* One argument: backslashes before a quote count half, and an odd one     *)
(* makes the quote a character; two quotes in a quoted part are a quote.   *)
(* A character that follows backslashes is copied whatever it is.          *)
RECURSIVE ParseFrom(_, _, _, _)
ParseFrom(line, read, quoted, write) ==
  LET after == After(line, read, {Backslash})
      slashes == after - read
      kept == write \o Copies(slashes \div 2, Backslash)
  IN IF read > Len(line) \/ (~quoted /\ line[read] \in Blanks)
     THEN [argument |-> write, next |-> After(line, read, Blanks)]
     ELSE IF At(line, after) # Quote
     THEN ParseFrom(line, after + 1, quoted,
                    write \o Copies(slashes, Backslash) \o SubSeq(line, after, after))
     ELSE IF slashes % 2 = 1 THEN ParseFrom(line, after + 1, quoted, Append(kept, Quote))
     ELSE IF quoted /\ At(line, after + 1) = Quote
     THEN ParseFrom(line, after + 2, quoted, Append(kept, Quote))
     ELSE ParseFrom(line, after + 1, ~quoted, kept)
wcrt_parse_argument(line, read) == ParseFrom(line, read, FALSE, <<>>)

RECURSIVE ArgumentsFrom(_, _)
ArgumentsFrom(line, cursor) ==
  LET parsed == wcrt_parse_argument(line, cursor)
  IN IF cursor > Len(line) THEN <<>>
     ELSE <<parsed.argument>> \o ArgumentsFrom(line, parsed.next)
_start(line) == ArgumentsFrom(line, After(line, 1, Blanks))

(* The part of the line WinMain gets: past the program's name.             *)
Quotes(line, i) == Cardinality({j \in 1..i : line[j] = Quote})
wcrt_gui_arguments(line) ==
  LET end == Min({Len(line) + 1} \cup {i \in DOMAIN line : line[i] \in Blanks /\ Quotes(line, i) % 2 = 0})
  IN SubSeq(line, After(line, end, Blanks), Len(line))

-----------------------------------------------------------------------------
(* The state of the option parser: cursor is what is left of a cluster of  *)
(* short options, r what the call returns, long_index and flag what        *)
(* getopt_long last stored through its last argument and through the flag  *)
(* of an option.  options is [colon: it begins with one, takes: option ->  *)
(* "no", "required" or "optional"], a long option [name, takes, val, flag: *)
(* it has one].                                                            *)
Parser == [optind |-> 2, cursor |-> <<>>, optarg |-> NullPointer, optopt |-> "none", r |-> "none",
           long_index |-> 0, flag |-> "none"]
(* Mutation of wcrt_getopt_prepare: the cursor and the argument stay.      *)
PrepareNothing(p) == p

(* An optind that was set back to the first argument begins anew.          *)
wcrt_getopt_prepare(p) ==
  [p EXCEPT !.optind = IF @ < 2 THEN 2 ELSE @, !.cursor = IF p.optind <= 2 THEN <<>> ELSE @, !.optarg = NullPointer]

Missing(options) == IF options.colon THEN ":" ELSE "?"
Option(p, arguments, options) ==
  LET option == Head(p.cursor)
      rest == Tail(p.cursor)
      known == option \in DOMAIN options.takes
      q == [p EXCEPT !.cursor = <<>>, !.r = option]
  IN CASE ~known -> [p EXCEPT !.cursor = rest, !.optopt = option, !.r = "?"]
       [] known /\ options.takes[option] = "no" -> [q EXCEPT !.cursor = rest]
       [] known /\ options.takes[option] # "no" /\ rest # <<>> -> [q EXCEPT !.optarg = rest]
       [] known /\ options.takes[option] = "optional" /\ rest = <<>> -> q
       [] OTHER -> IF p.optind <= Len(arguments)
                   THEN [q EXCEPT !.optarg = arguments[p.optind], !.optind = @ + 1]
                   ELSE [q EXCEPT !.optopt = option, !.r = Missing(options)]
wcrt_getopt_short(p, arguments, options) ==
  LET argument == arguments[p.optind]
  IN IF p.cursor # <<>> THEN Option(p, arguments, options)
     ELSE IF p.optind > Len(arguments) \/ argument = <<"-">> \/ At(argument, 1) # "-" THEN [p EXCEPT !.r = "end"]
     ELSE IF argument = <<"-", "-">> THEN [p EXCEPT !.optind = @ + 1, !.r = "end"]
     ELSE Option([p EXCEPT !.cursor = Tail(argument), !.optind = @ + 1], arguments, options)
getopt(p, arguments, options) ==
  IF arguments = NullPointer \/ options = NullPointer THEN [p EXCEPT !.r = "end"]
  ELSE wcrt_getopt_short(wcrt_getopt_prepare(p), arguments, options)

(* The place of the option in the list: an exact name, or the only one     *)
(* that begins so; 0 if there is none.                                     *)
wcrt_long_index(name, longs) ==
  LET matches == {i \in DOMAIN longs : IsPrefix(name, longs[i].name)}
      exact == {i \in matches : longs[i].name = name}
  IN IF exact # {} THEN Min(exact) ELSE IF Cardinality(matches) = 1 THEN Min(matches) ELSE 0

(* An option with a flag stores its value there and is told as 0.          *)
getopt_long(before, arguments, options, longs) ==
  LET p == wcrt_getopt_prepare(before)
      argument == arguments[p.optind]
      text == SubSeq(argument, 3, Len(argument))
      equal == Min({Len(text) + 1} \cup {i \in DOMAIN text : text[i] = "="})
      index == wcrt_long_index(SubSeq(text, 1, equal - 1), longs)
      long == longs[index]
      q == [p EXCEPT !.optind = @ + 1, !.long_index = IF index = 0 THEN @ ELSE index]
      found == IF long.flag THEN [q EXCEPT !.flag = long.val, !.r = "0"] ELSE [q EXCEPT !.r = long.val]
  IN IF arguments = NullPointer \/ options = NullPointer \/ longs = NullPointer THEN [p EXCEPT !.r = "end"]
     ELSE IF \/ p.cursor # <<>> \/ p.optind > Len(arguments)
             \/ At(argument, 1) # "-" \/ At(argument, 2) # "-" \/ text = <<>>
     THEN wcrt_getopt_short(p, arguments, options)
     ELSE IF index = 0 THEN [q EXCEPT !.r = "?"]
     ELSE IF equal <= Len(text)
     THEN IF long.takes = "no" THEN [q EXCEPT !.r = "?"]
          ELSE [found EXCEPT !.optarg = SubSeq(text, equal + 1, Len(text))]
     ELSE IF long.takes # "required" THEN found
     ELSE IF q.optind <= Len(arguments) THEN [found EXCEPT !.optarg = arguments[q.optind], !.optind = @ + 1]
     ELSE [q EXCEPT !.optopt = long.val, !.r = Missing(options)]

-----------------------------------------------------------------------------
(* Paths.                                                                  *)
Separators == {"/", Backslash}
_splitpath(path) ==
  LET start == IF Len(path) > 1 /\ path[2] = ":" THEN 3 ELSE 1
      basename == Max({start} \cup {i + 1 : i \in {j \in start..Len(path) : path[j] \in Separators}})
      dot == Max({0} \cup {i \in basename..Len(path) : path[i] = "."})
      end == IF dot = 0 THEN Len(path) + 1 ELSE dot
  IN [drive |-> SubSeq(path, 1, start - 1), directory |-> SubSeq(path, start, basename - 1),
      filename |-> SubSeq(path, basename, end - 1), extension |-> SubSeq(path, end, Len(path))]
_makepath(parts) ==
  LET drive == IF parts.drive = <<>> THEN <<>> ELSE <<parts.drive[1], ":">>
      directory == IF parts.directory = <<>> \/ Last(parts.directory) \in Separators
                   THEN parts.directory ELSE Append(parts.directory, Backslash)
      extension == IF parts.extension = <<>> \/ Head(parts.extension) = "."
                   THEN parts.extension ELSE <<".">> \o parts.extension
  IN drive \o directory \o parts.filename \o extension

-----------------------------------------------------------------------------
(* What the operators of Arguments promise: what was written down as a     *)
(* command line or as options is what is read back.                        *)

(* An argument as the Windows convention has it written: bare if it may    *)
(* be, else quoted, with the backslashes before a quote and those at   *)
(* the end doubled and a quote escaped, or doubled.  An argument that ends *)
(* in a backslash is always quoted: a blank after a bare one is not seen.  *)
RECURSIVE Escaped(_, _)
Escaped(text, escape) ==
  IF text = <<>> THEN <<>>
  ELSE LET after == After(text, 1, {Backslash})
           slashes == after - 1
           doubled == Copies(2 * slashes, Backslash)
       IN IF after > Len(text) THEN doubled
          ELSE (IF text[after] = Quote THEN doubled \o <<escape, Quote>>
                ELSE Copies(slashes, Backslash) \o <<text[after]>>)
               \o Escaped(SubSeq(text, after + 1, Len(text)), escape)
Bare(text) == /\ text # <<>> /\ Last(text) # Backslash
              /\ \A i \in DOMAIN text : text[i] \notin Blanks \cup {Quote}
Written(text, escape) ==
  IF Bare(text) THEN text ELSE <<Quote>> \o Escaped(text, escape) \o <<Quote>>

(* A command line of written arguments is read back as those arguments,    *)
(* blanks around them add none, and what WinMain gets is the line after    *)
(* the program's name.                                                     *)
LineReadsBack(arguments, blanks, escape) ==
  LET texts == [i \in DOMAIN arguments |-> Written(arguments[i], escape)]
      line == blanks \o FlattenSeq([i \in DOMAIN texts |-> texts[i] \o (IF i = Len(texts) THEN <<>> ELSE <<" ">>)])
              \o blanks
      rest == FlattenSeq([i \in DOMAIN texts |-> IF i = 1 THEN <<>>
                                                 ELSE texts[i] \o (IF i = Len(texts) THEN <<>> ELSE <<" ">>)])
  IN /\ _start(line) = arguments
     /\ blanks = <<>> /\ (\A i \in DOMAIN arguments[1] : arguments[1][i] # Quote) => wcrt_gui_arguments(line) = rest

-----------------------------------------------------------------------------
(* Every call of getopt or getopt_long until the end, with what it told.   *)
RECURSIVE AllOptions(_, _, _, _)
AllOptions(p, arguments, options, longs) ==
  LET q == IF longs = <<>> THEN getopt(p, arguments, options) ELSE getopt_long(p, arguments, options, longs)
  IN IF q.r = "end" THEN [told |-> <<>>, optind |-> q.optind, long_index |-> q.long_index, flag |-> q.flag]
     ELSE LET rest == AllOptions(q, arguments, options, longs)
          IN [rest EXCEPT !.told = <<[r |-> q.r, optarg |-> q.optarg]>> \o @]

(* Options [c, arg, apart] written as arguments: those without an argument *)
(* of their own may share one with their follower.                         *)
RECURSIVE Clustered(_, _)
Clustered(items, open) ==
  IF items = <<>> THEN IF open = <<>> THEN <<>> ELSE <<open>>
  ELSE LET item == Head(items)
           begun == IF open = <<>> THEN <<"-", item.c>> ELSE Append(open, item.c)
       IN IF item.arg = NullPointer /\ ~item.apart THEN Clustered(Tail(items), begun)
          ELSE (IF item.arg = NullPointer THEN <<begun>>
                ELSE IF item.apart THEN <<begun, item.arg>> ELSE <<begun \o item.arg>>)
               \o Clustered(Tail(items), <<>>)

(* docs/req-0069-posix-getopt.md: options come back one by one, in their   *)
(* order, each with its argument, and optind is left at the first operand, *)
(* whatever it looks like after "--"; a required argument missing at the   *)
(* end is told as such; a caller that sets optind back, in the middle of a *)
(* cluster too, gets it all again, or all of other arguments if it has     *)
(* others by then; and null arguments end the scan and store nothing.      *)
OptionsReadBack(items, operands, options) ==
  LET written == Clustered(items, <<>>)
      arguments == <<<<"p">>>> \o written \o <<<<"-", "-">>>> \o operands
      all == AllOptions(Parser, arguments, options, <<>>)
      truncated == <<<<"p">>>> \o written \o <<<<"-", "r">>>>
  IN /\ all.told = [i \in DOMAIN items |->
                      [r |-> IF items[i].c \in DOMAIN options.takes THEN items[i].c ELSE "?",
                       optarg |-> items[i].arg]]
     /\ SubSeq(arguments, all.optind, Len(arguments)) = operands
     /\ Last(AllOptions(Parser, truncated, options, <<>>).told).r = Missing(options)
     /\ \A optind \in 1..2 :
          LET again == [getopt(Parser, arguments, options) EXCEPT !.optind = optind]
          IN /\ AllOptions(again, arguments, options, <<>>) = all
             /\ AllOptions(again, truncated, options, <<>>) = AllOptions(Parser, truncated, options, <<>>)
     /\ \A given \in {<<NullPointer, options>>, <<arguments, NullPointer>>} :
          getopt(Parser, given[1], given[2]) = [Parser EXCEPT !.r = "end"]

(* The same of long options, by any unambiguous beginning of their names:  *)
(* one with a flag is told as 0 and stores its value, and only one that is *)
(* found stores its place.                                                 *)
LongOptionsReadBack(longs, index, length, arg, apart, options) ==
  LET name == SubSeq(longs[index].name, 1, length)
      others == {i \in DOMAIN longs : IsPrefix(name, longs[i].name)}
      dashed == <<"-", "-">> \o name
      valued == IF arg = NullPointer THEN <<dashed>>
                ELSE IF apart THEN <<dashed, arg>> ELSE <<dashed \o <<"=">> \o arg>>
      all == AllOptions(Parser, <<<<"p">>>> \o valued \o <<<<"x">>>>, options, longs)
      clear == length = Len(longs[index].name) \/ others = {index}
      proper == \/ longs[index].takes = "no" /\ arg = NullPointer
                \/ longs[index].takes = "optional" /\ (arg = NullPointer \/ ~apart)
                \/ longs[index].takes = "required" /\ arg # NullPointer
  IN length > 0 =>
     /\ clear /\ proper =>
          all = [told |-> <<[r |-> IF longs[index].flag THEN "0" ELSE longs[index].val, optarg |-> arg]>>,
                 optind |-> 2 + Len(valued), long_index |-> index,
                 flag |-> IF longs[index].flag THEN longs[index].val ELSE "none"]
     /\ ~clear /\ (\A i \in DOMAIN longs : longs[i].name # name) =>
          Head(all.told).r = "?" /\ all.long_index = 0 /\ all.flag = "none"
     /\ clear /\ longs[index].takes = "no" /\ arg # NullPointer /\ ~apart =>
          Head(all.told).r = "?" /\ all.long_index = index /\ all.flag = "none"
     /\ \A given \in {<<NullPointer, options, longs>>, <<valued, NullPointer, longs>>, <<valued, options, NullPointer>>} :
          getopt_long(Parser, given[1], given[2], given[3]) = [Parser EXCEPT !.r = "end"]

-----------------------------------------------------------------------------
(* The parts of a path put together are the path, and the parts of a path  *)
(* put together from parts are those parts.                                *)
PathsSplit(path) ==
  LET parts == _splitpath(path)
  IN /\ parts.drive \o parts.directory \o parts.filename \o parts.extension = path
     /\ _makepath(parts) = path
     /\ \A i \in DOMAIN parts.filename : parts.filename[i] \notin Separators
     /\ \A i \in DOMAIN parts.extension : (parts.extension[i] = ".") = (i = 1)
=============================================================================
