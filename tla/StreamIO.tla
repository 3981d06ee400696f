------------------------------ MODULE StreamIO ------------------------------
(***************************************************************************)
(* One stream over a disk file: the byte functions of src/stdio.c, the     *)
(* wide ones of src/wchar_io.c and the file they reach through             *)
(* src/platform/windows/file.c.  Nothing is buffered: a read or a write is *)
(* a read or a write of the file, at the position of the native object,    *)
(* which duplicated descriptors share.                                     *)
(*                                                                         *)
(* An operation takes the stream m and gives [m |-> the stream after it,   *)
(* r |-> its result].  Bytes are "a", "CR", "LF" and, where a resize or a  *)
(* write beyond the end leaves them, "NUL".  In m, a pushback of EOF is an *)
(* empty one, and failing says that the device refuses every operation.    *)
(* A write also says how much of it the device takes before it refuses.    *)
(* Loops are recursive functions of the number of turns.                   *)
(***************************************************************************)
EXTENDS Integers, Sequences, FiniteSets

CONSTANTS
  Bytes,      \* what may be written or pushed back
  Texts,      \* the texts a call may be given to write
  Counts,     \* how many characters a call may be asked to read
  MaxSize,    \* a bound on the size of the file and on positions
  Files       \* what may stand in the file when it is opened

VARIABLE m

EOF == "EOF"
Stored == Bytes \cup {"CR", "LF", "NUL"}

(* EOF and a wide character without a byte are not bytes.                  *)
StreamAssumption ==
  /\ EOF \notin Bytes /\ "wide" \notin Bytes
  /\ Texts \subseteq Seq(Bytes) /\ Counts \subseteq Nat \ {0}
  /\ Files \subseteq Seq(Stored) /\ MaxSize \in Nat

Opposite == [byte |-> "wide", wide |-> "byte"]

(* fopen: the mode's flags, and whether it empties or creates the file.    *)
Opened(content, letter, update, binary) ==
  [content |-> IF letter = "w" THEN <<>> ELSE content,
   position |-> IF letter = "a" THEN Len(content) ELSE 0,
   readable |-> letter = "r" \/ update, writable |-> letter # "r" \/ update,
   append |-> letter = "a", binary |-> binary, failing |-> FALSE,
   pushback |-> EOF, wide_pushback |-> EOF, orientation |-> "none", eof |-> FALSE, error |-> FALSE]

Err(s) == [m |-> [s EXCEPT !.error = TRUE], r |-> EOF]

-----------------------------------------------------------------------------
(* The file.                                                               *)
Here(s) == s.position + 1
(* Mutation of __wcrt_file_read: the position moves by what was asked.     *)
ReadMovingByCount(s, count) ==
  LET end == IF s.position + count < Len(s.content) THEN s.position + count ELSE Len(s.content)
  IN [m |-> [s EXCEPT !.position = @ + count], r |-> SubSeq(s.content, Here(s), end)]

__wcrt_file_read(s, count) ==
  LET end == IF s.position + count < Len(s.content) THEN s.position + count ELSE Len(s.content)
      taken == SubSeq(s.content, Here(s), end)
  IN [m |-> [s EXCEPT !.position = @ + Len(taken)], r |-> taken]

(* Mutation of __wcrt_file_write: it does not go to the end to append.     *)
WriteInPlace(s, byte) ==
  LET at == s.position
      size == IF at < Len(s.content) THEN Len(s.content) ELSE at + 1
  IN [s EXCEPT !.position = at + 1,
        !.content = [i \in 1..size |-> IF i = at + 1 THEN byte
                                       ELSE IF i <= Len(@) THEN @[i] ELSE "NUL"]]

(* Where a write goes, which is where one that is refused leaves it.       *)
At(s) == IF s.append THEN Len(s.content) ELSE s.position
__wcrt_file_write(s, byte) ==
  LET at == At(s)
      size == IF at < Len(s.content) THEN Len(s.content) ELSE at + 1
  IN [s EXCEPT !.position = at + 1,
        !.content = [i \in 1..size |-> IF i = at + 1 THEN byte
                                       ELSE IF i <= Len(@) THEN @[i] ELSE "NUL"]]

(* The new position, or -1.                                                *)
__wcrt_file_seek(s, offset, origin) ==
  LET target == offset + CASE origin = "SEEK_SET" -> 0
                           [] origin = "SEEK_CUR" -> s.position
                           [] origin = "SEEK_END" -> Len(s.content)
  IN IF s.failing \/ target < 0 THEN -1 ELSE target

-----------------------------------------------------------------------------
(* Orientation: the first operation binds it, and one of the other kind is *)
(* refused.                                                                *)
__wcrt_reset_stream_conversion(s) == [s EXCEPT !.wide_pushback = EOF]
__wcrt_orient_stream(s, mode) ==
  IF s.orientation = "none" THEN __wcrt_reset_stream_conversion([s EXCEPT !.orientation = mode]) ELSE s
Opposed(s, orientation) == s.orientation = Opposite[orientation]

(* Reading.  Text mode turns a carriage return and a line feed into a line *)
(* feed: it peeks at what follows a carriage return and pushes it back.    *)
ungetc(c, stream) ==
  LET s == __wcrt_orient_stream(stream, "byte")
  IN IF c = EOF \/ stream.pushback # EOF THEN [m |-> stream, r |-> EOF]
     ELSE IF Opposed(stream, "byte") THEN Err(stream)
     ELSE [m |-> [s EXCEPT !.pushback = c, !.eof = FALSE], r |-> c]

(* What fgetc makes of what it read, given the call inside it, which finds *)
(* the stream oriented, readable and without a pushback, and so differs    *)
(* from it by the position alone.                                          *)
Translated(read, inside) ==
  IF read.r = <<>> THEN [m |-> [read.m EXCEPT !.eof = TRUE], r |-> EOF]
  ELSE IF read.m.binary \/ read.r # <<"CR">> THEN [m |-> read.m, r |-> read.r[1]]
  ELSE IF inside.r = "LF" THEN inside
  ELSE [m |-> ungetc(inside.r, inside.m).m, r |-> "CR"]
Left(s) == Len(s.content) - s.position

fgetc(stream) ==
  LET s == __wcrt_orient_stream(stream, "byte")
      read == __wcrt_file_read(s, 1)
      inside[left \in 0..Len(s.content)] ==
        Translated(__wcrt_file_read([s EXCEPT !.position = Len(s.content) - left], 1), inside[left - 1])
  IN CASE Opposed(s, "byte") \/ ~s.readable -> Err(s)
       [] OTHER ->
          IF s.pushback # EOF THEN [m |-> [s EXCEPT !.pushback = EOF], r |-> s.pushback]
          ELSE IF s.failing THEN Err(s)
          ELSE Translated(read, inside[Left(read.m)])

(* The wide functions: one byte is one wide character, "wide" one that has *)
(* no byte.  Here the character after a carriage return is read raw.       *)
wcrt_read_wide_byte(s) ==
  LET read == __wcrt_file_read(s, 1)
  IN IF s.failing THEN Err(s)
     ELSE IF read.r = <<>> THEN [m |-> [s EXCEPT !.eof = TRUE], r |-> EOF]
     ELSE [m |-> read.m, r |-> read.r[1]]

WideTranslated(binary, first, next) ==
  IF binary \/ first.r # "CR" THEN first
  ELSE IF next.r = "LF" THEN next
  ELSE IF next.r # EOF THEN [m |-> [next.m EXCEPT !.wide_pushback = next.r], r |-> "CR"]
  ELSE [m |-> [next.m EXCEPT !.eof = @ /\ next.m.error], r |-> "CR"]
fgetwc(stream) ==
  LET s == __wcrt_orient_stream(stream, "wide")
      first == wcrt_read_wide_byte(s)
      next == wcrt_read_wide_byte(first.m)
  IN IF Opposed(s, "wide") \/ ~s.readable THEN Err(s)
     ELSE IF s.wide_pushback # EOF THEN [m |-> [s EXCEPT !.wide_pushback = EOF], r |-> s.wide_pushback]
     ELSE WideTranslated(s.binary, first, next)

ungetwc(c, stream) ==
  LET s == __wcrt_orient_stream(stream, "wide")
  IN IF c = EOF THEN [m |-> stream, r |-> EOF]
     ELSE IF Opposed(s, "wide") \/ c = "wide" THEN Err(s)
     ELSE IF s.wide_pushback # EOF THEN [m |-> s, r |-> EOF]
     ELSE [m |-> [s EXCEPT !.wide_pushback = c, !.eof = FALSE], r |-> c]

-----------------------------------------------------------------------------
(* Many at once.                                                           *)
Get(orientation, s) == IF orientation = "byte" THEN fgetc(s) ELSE fgetwc(s)
(* A turn of the loop, given what there is so far and what is read next.   *)
Took(line, so, o) ==
  IF ~so.more THEN so
  ELSE IF o.r = EOF THEN [m |-> o.m, r |-> so.r, more |-> FALSE]
  ELSE [m |-> o.m, r |-> Append(so.r, o.r), more |-> ~(line /\ o.r = "LF")]
Turn(orientation, line, so) == Took(line, so, Get(orientation, so.m))
(* At most most characters, up to the end of a line if line says so.       *)
Gather(orientation, line, most, s) ==
  LET after[n \in Nat] ==
        IF n = 0 THEN [m |-> s, r |-> <<>>, more |-> TRUE] ELSE Turn(orientation, line, after[n - 1])
  IN after[most]

(* A line, or null.  With a count of 1 fgets tests a character it has not  *)
(* read: garbage.                                                          *)
fgets(s, count, garbage) ==
  LET g == Gather("byte", TRUE, count - 1, s)
  IN [m |-> g.m, r |-> g.r, null |-> g.r = <<>> /\ (count > 1 \/ garbage = EOF)]
(* gets has no count and drops the line feed.                              *)
gets(s) ==
  LET g == Gather("byte", TRUE, Len(s.content) + 1, s)
      ended == g.r # <<>> /\ g.r[Len(g.r)] = "LF"
  IN [m |-> g.m, r |-> IF ended THEN SubSeq(g.r, 1, Len(g.r) - 1) ELSE g.r, null |-> g.r = <<>>]

fgetws(s, capacity) ==
  LET g == Gather("wide", TRUE, capacity - 1, s)
  IN [m |-> g.m, r |-> g.r, null |-> g.r = <<>> /\ capacity > 1]

(* The bytes stored; the result is how many whole elements they make.      *)
fread(stream, size, count) ==
  LET s == __wcrt_orient_stream(stream, "byte")
      total == size * count
      pushed == IF s.pushback = EOF THEN <<>> ELSE <<s.pushback>>
      read == __wcrt_file_read([s EXCEPT !.pushback = EOF], total - Len(pushed))
      got == pushed \o (IF s.failing THEN <<>> ELSE read.r)
  IN IF total = 0 THEN [m |-> stream, r |-> <<>>]
     ELSE IF Opposed(s, "byte") \/ ~s.readable THEN [m |-> Err(s).m, r |-> <<>>]
     ELSE IF ~s.binary THEN Gather("byte", FALSE, total, s)
     ELSE [m |-> [read.m EXCEPT !.position = IF s.failing THEN s.position ELSE @,
                                !.error = @ \/ (s.failing /\ Len(got) < total),
                                !.eof = @ \/ (~s.failing /\ Len(got) < total)], r |-> got]

(* Writing: text mode puts a carriage return before a line feed.  Of a     *)
(* character the device takes all, or the carriage return alone, or none.  *)
Shares == {"all", "half", "none"}
Width(s, c) == IF ~s.binary /\ c = "LF" THEN 2 ELSE 1
Put(s, c) ==
  __wcrt_file_write(IF Width(s, c) = 2 THEN __wcrt_file_write(s, "CR") ELSE s, c)
Cut(s, c, taken) ==
  LET t == IF taken = "half" /\ Width(s, c) = 2 THEN __wcrt_file_write(s, "CR") ELSE s
  IN [t EXCEPT !.position = At(t)]
Written(s, c, taken) == IF taken = "all" THEN [m |-> Put(s, c), r |-> c] ELSE Err(Cut(s, c, taken))

fputc(c, stream, taken) ==
  LET s == __wcrt_orient_stream(stream, "byte")
  IN IF Opposed(s, "byte") \/ ~s.writable \/ s.failing THEN Err(s) ELSE Written(s, c, taken)
fputwc(c, stream, taken) ==
  LET s == __wcrt_orient_stream(stream, "wide")
  IN IF Opposed(s, "wide") \/ ~s.writable \/ c = "wide" \/ s.failing THEN Err(s) ELSE Written(s, c, taken)

(* How many were put, up to the first that cannot be: the device takes     *)
(* whole characters and, of the next one, the rest.                        *)
Give(orientation, c, s, taken) == IF orientation = "byte" THEN fputc(c, s, taken) ELSE fputwc(c, s, taken)
Share(n, whole, rest) == IF n <= whole THEN "all" ELSE rest
Spread(orientation, text, s, whole, rest) ==
  LET after[n \in 0..Len(text)] ==
        IF n = 0 THEN [m |-> s, r |-> 0]
        ELSE LET so == after[n - 1]
                 o == Give(orientation, text[n], so.m, Share(n, whole, rest))
             IN IF so.r < n - 1 THEN so
                ELSE [m |-> o.m, r |-> IF o.r = EOF THEN so.r ELSE n]
  IN after[Len(text)]
fwrite(text, s, whole, rest) == Spread("byte", text, s, whole, rest)
AllOf(text, o) == [m |-> o.m, r |-> IF o.r < Len(text) THEN EOF ELSE 0]
fputs(text, s, whole, rest) == AllOf(text, Spread("byte", text, s, whole, rest))
puts(text, s, whole, rest) == fputs(Append(text, "LF"), s, whole, rest)
fputws(text, s, whole, rest) == AllOf(text, Spread("wide", text, s, whole, rest))

-----------------------------------------------------------------------------
(* Positions.  fgetpos counts a pushed-back character as not yet read;     *)
(* seeking starts from the native position and forgets it.                 *)
(* Mutation of Moved: the pushed-back character stays.                     *)
MovedKeeping(s, position) ==
  __wcrt_reset_stream_conversion([s EXCEPT !.position = position, !.eof = FALSE])

Moved(s, position) ==
  __wcrt_reset_stream_conversion([s EXCEPT !.position = position, !.eof = FALSE, !.pushback = EOF])
Pending(s) == IF s.pushback # EOF THEN s.pushback ELSE s.wide_pushback

fgetpos(s) ==
  LET current == __wcrt_file_seek(s, 0, "SEEK_CUR")
  IN IF current < 0 THEN EOF ELSE current - (IF Pending(s) # EOF THEN 1 ELSE 0)
fseek(s, offset, origin) ==
  LET position == __wcrt_file_seek(s, offset, origin)
  IN IF position < 0 THEN Err(s) ELSE [m |-> Moved(s, position), r |-> 0]
fsetpos(s, saved) ==
  LET position == __wcrt_file_seek(s, saved, "SEEK_SET")
  IN IF position < 0 THEN [m |-> s, r |-> EOF] ELSE [m |-> Moved(s, position), r |-> 0]
wcrt_descriptor_seek(s, offset, origin) ==
  LET position == __wcrt_file_seek(s, offset, origin)
  IN IF position < 0 THEN [m |-> s, r |-> -1] ELSE [m |-> Moved(s, position), r |-> position]
_telli64(s) == __wcrt_file_seek(s, 0, "SEEK_CUR")
_eof(s) == IF s.failing THEN -1 ELSE IF _telli64(s) = Len(s.content) THEN 1 ELSE 0
clearerr(s) == [s EXCEPT !.error = FALSE, !.eof = FALSE]
rewind(s) == fseek(clearerr(s), 0, "SEEK_SET").m

(* _read and _write: the stream's error indicator decides what nothing     *)
(* transferred means.                                                      *)
_read(s, count) ==
  LET o == fread(s, 1, count)
  IN IF ~s.readable THEN [m |-> s, r |-> -1]
     ELSE [m |-> o.m, r |-> IF o.r = <<>> /\ o.m.error THEN -1 ELSE Len(o.r)]
_write(text, s, whole, rest) ==
  LET o == fwrite(text, s, whole, rest)
  IN IF ~s.writable THEN [m |-> s, r |-> -1]
     ELSE [m |-> o.m, r |-> IF o.r = 0 /\ o.m.error THEN -1 ELSE o.r]

(* _chsize: the file is cut or filled with zeros, piece by piece, up to    *)
(* reached; then the position is put back, if restored: if not, it is      *)
(* where the zeros end or where the cut was to be made.  errno is the      *)
(* first failure's.                                                        *)
__wcrt_file_resize(s, size, reached, restored) ==
  LET old == Len(s.content)
      resized == [i \in 1..reached |-> IF i <= old THEN s.content[i] ELSE "NUL"]
      failed == reached # size
  IN IF size < 0 \/ ~s.writable \/ s.failing
       THEN [m |-> s, r |-> -1, errno |-> IF size < 0 THEN "EINVAL" ELSE IF ~s.writable THEN "EACCES" ELSE "device"]
     ELSE IF size = old THEN [m |-> s, r |-> 0, errno |-> "none"]
     ELSE [m |-> [s EXCEPT !.content = resized, !.position = IF restored THEN @ ELSE IF size < old THEN size ELSE reached],
           r |-> IF failed \/ ~restored THEN -1 ELSE 0,
           errno |-> IF failed THEN "size" ELSE IF ~restored THEN "position" ELSE "none"]
(* How far it may get: a cut happens or not, zeros stop anywhere.          *)
Reached(s, size) ==
  IF size <= Len(s.content) THEN {size, Len(s.content)} ELSE Len(s.content)..size

_setmode(s, binary) == [m |-> [s EXCEPT !.binary = binary], r |-> s.binary]
_fdopen(s, letter, update, binary) ==
  IF \/ letter = "r" /\ ~s.readable
     \/ letter \in {"w", "a"} /\ ~s.writable
     \/ update /\ ~(s.readable /\ s.writable)
  THEN [m |-> s, r |-> EOF]
  ELSE [m |-> [s EXCEPT !.append = @ \/ letter = "a", !.binary = @ \/ binary], r |-> 0]

-----------------------------------------------------------------------------
Init == \E content \in Files, letter \in {"r", "w", "a"}, update, binary \in BOOLEAN :
          m = Opened(content, letter, update, binary)

Bounded(s) == Len(s.content) <= MaxSize /\ s.position <= MaxSize
Becomes(o) == Bounded(o.m) /\ m' = o.m

ReadByte == Becomes(fgetc(m))
(* The garbage decides what fgets returns, not what becomes of the stream. *)
ReadLine == \E n \in Counts \cup {0} : Becomes(fgets(m, n + 1, EOF))
ReadBlock == \E size \in Counts, count \in 0..1 : Becomes(fread(m, size, count))
Push == \E c \in Bytes \cup {EOF} : Becomes(ungetc(c, m))
WriteByte == \E c \in Bytes, taken \in Shares : Becomes(fputc(c, m, taken))
WriteText == \E text \in Texts : \E whole \in 0..Len(text), rest \in {"half", "none"} :
               Becomes(fputs(text, m, whole, rest))
ReadWide == Becomes(fgetwc(m)) \/ \E n \in Counts : Becomes(fgetws(m, n + 1))
WriteWide == \E c \in Bytes \cup {"wide"}, taken \in Shares : Becomes(fputwc(c, m, taken))
PushWide == \E c \in Bytes \cup {EOF, "wide"} : Becomes(ungetwc(c, m))
Seek == \E offset \in -1..1, origin \in {"SEEK_SET", "SEEK_CUR", "SEEK_END"} :
          Becomes(fseek(m, offset, origin)) \/ Becomes(wcrt_descriptor_seek(m, offset, origin))
Restore == \E saved \in -1..MaxSize : Becomes(fsetpos(m, saved))
Rewind == m' = rewind(m)
Clear == m' = clearerr(m)
Resize == \E size \in 0..MaxSize, restored \in BOOLEAN : \E reached \in Reached(m, size) :
            Becomes(__wcrt_file_resize(m, size, reached, restored))
Switch == \E binary \in BOOLEAN : Becomes(_setmode(m, binary))
Attach == \E letter \in {"r", "w", "a"}, update, binary \in BOOLEAN : Becomes(_fdopen(m, letter, update, binary))
Reopen == \E letter \in {"r", "w", "a"}, update, binary \in BOOLEAN :
            ~m.failing /\ m' = Opened(m.content, letter, update, binary)
(* A duplicate of the descriptor moves the position they share.            *)
Duplicate == \E position \in 0..MaxSize : m' = [m EXCEPT !.position = position]
Fail == ~m.failing /\ m' = [m EXCEPT !.failing = TRUE]

Next == ReadByte \/ ReadLine \/ ReadBlock \/ Push \/ WriteByte \/ WriteText \/ ReadWide \/ WriteWide
        \/ PushWide \/ Seek \/ Restore \/ Rewind \/ Clear \/ Resize \/ Switch \/ Attach \/ Reopen
        \/ Duplicate \/ Fail
Spec == Init /\ [][Next]_m
-----------------------------------------------------------------------------
(* What reading the file as text gives: from an offset, at most most       *)
(* characters, and the offset after them.                                  *)
Pair(s, offset) ==
  /\ ~s.binary /\ offset + 2 <= Len(s.content)
  /\ s.content[offset + 1] = "CR" /\ s.content[offset + 2] = "LF"
Decoded(s, offset, most) ==
  LET after[n \in Nat] ==
        IF n = 0 THEN [text |-> <<>>, offset |-> offset]
        ELSE LET so == after[n - 1]
             IN IF so.offset >= Len(s.content) THEN so
                ELSE IF Pair(s, so.offset) THEN [text |-> Append(so.text, "LF"), offset |-> so.offset + 2]
                ELSE [text |-> Append(so.text, s.content[so.offset + 1]), offset |-> so.offset + 1]
  IN after[most]

(* States in which the next character is the file's: what is pushed back   *)
(* came from where ftell points, and is not one half of a pair.  Runs of   *)
(* carriage returns are left out: the code loses some of them (README).    *)
NoRun(s) == \A i \in 1..Len(s.content) - 1 : s.content[i] = "CR" => s.content[i + 1] # "CR"
Honest(s) ==
  /\ ~s.failing /\ (s.binary \/ NoRun(s))
  /\ Pending(s) # EOF => /\ Pending(s) # "CR" /\ s.position \in 1..Len(s.content)
                         /\ s.content[s.position] = Pending(s)
CanRead(s, orientation) == s.readable /\ ~Opposed(s, orientation)

(* Every way of reading delivers the text that stands where ftell says     *)
(* the stream is, in order and without a gap, and leaves ftell after it;   *)
(* fewer characters than asked for mean the end of the file, and say so.   *)
Delivers(s, o, got, asked) ==
  LET d == Decoded(s, fgetpos(s), Len(got))
  IN /\ got = d.text
     /\ Len(got) = asked \/ (got # <<>> /\ got[Len(got)] = "LF") \/ d.offset >= Len(s.content)
     /\ fgetpos(o.m) = d.offset
     /\ o.m.content = s.content /\ (o.m.error => s.error)
One(r) == IF r = EOF THEN <<>> ELSE <<r>>
TextInOrder ==
  Honest(m) =>
    /\ CanRead(m, "byte") =>
         /\ LET o == fgetc(m) IN Delivers(m, o, One(o.r), 1) /\ (o.r = EOF => o.m.eof)
         /\ \A n \in Counts :
              /\ LET o == fgets(m, n + 1, EOF) IN Delivers(m, o, o.r, n) /\ (o.null => o.m.eof)
              /\ LET o == fread(m, n, 1)
                 IN /\ Delivers(m, o, o.r, n) /\ (Len(o.r) < n => o.m.eof)
                    /\ o.r = Decoded(m, fgetpos(m), n).text
    /\ CanRead(m, "wide") =>
         /\ LET o == fgetwc(m) IN Delivers(m, o, One(o.r), 1) /\ (o.r = EOF => o.m.eof)
         /\ \A n \in Counts :
              LET o == fgetws(m, n + 1) IN Delivers(m, o, o.r, n) /\ (o.null => o.m.eof)

(* A position taken with fgetpos and set again, and a seek by nothing,     *)
(* lead back to the same text, whatever was peeked at in between; the      *)
(* seek only if nothing is pushed back, since it starts from the native    *)
(* position.  Wherever a seek leads, the line that stands there is read    *)
(* next, and no character of before the seek.                              *)
Ahead(s, n) == IF Opposed(s, "byte") THEN fgetws(s, n + 1).r ELSE fgets(s, n + 1, EOF).r
FirstLine(text) ==
  LET ends == {i \in 1..Len(text) : text[i] = "LF"}
  IN IF ends = {} THEN text ELSE SubSeq(text, 1, CHOOSE i \in ends : \A j \in ends : i <= j)
PositionsLeadBack ==
  m.readable /\ ~m.failing =>
    /\ Honest(m) => \A n \in Counts :
         /\ Ahead(fsetpos(m, fgetpos(m)).m, n) = Ahead(m, n)
         /\ Pending(m) = EOF => Ahead(fseek(m, 0, "SEEK_CUR").m, n) = Ahead(m, n)
    /\ \A offset \in 0..Len(m.content) :
         LET o == fseek(m, offset, "SEEK_SET").m
             e == fseek(m, offset - Len(m.content), "SEEK_END").m
         IN /\ o = e /\ fgetpos(o) = offset /\ _telli64(o) = offset /\ ~o.eof
            /\ m.binary \/ NoRun(m) =>
                 \A n \in Counts : Ahead(o, n) = FirstLine(Decoded(m, offset, n).text)

(* What a write puts, the whole text or the characters the device took of  *)
(* it, is what a read from there gives back, by bytes or by wide           *)
(* characters, and what fwrite counts.  In text mode a carriage return     *)
(* that is written may be taken for half of a pair.                        *)
LineEnds(text, n) == Cardinality({i \in 1..n : text[i] = "LF"})
ReadBack(s, n) == IF Opposed(s, "byte") THEN Gather("wide", FALSE, n, s) ELSE fread(s, 1, n)
(* A write that stopped after n characters, and perhaps the carriage       *)
(* return of the next, leaves the stream after them and has touched        *)
(* nothing else: an appending one leaves all that was there, wherever the  *)
(* position it shares has been moved to.                                   *)
Leaves(s, text, n, rest, t) ==
  LET half == rest = "half" /\ n < Len(text) /\ Width(s, text[n + 1]) = 2
  IN /\ t.position = At(s) + n + (IF s.binary THEN 0 ELSE LineEnds(text, n)) + (IF half THEN 1 ELSE 0)
     /\ \A i \in 1..Len(s.content) : i <= At(s) \/ i > t.position => t.content[i] = s.content[i]
WritesReadBack ==
  m.readable /\ m.writable /\ ~m.failing =>
    \A text \in Texts, rest \in {"half", "none"} : \A whole \in 0..Len(text) :
      LET o == IF Opposed(m, "byte") THEN fputws(text, m, whole, rest) ELSE fputs(text, m, whole, rest)
      IN text # <<>> =>
           /\ o.r = IF whole = Len(text) THEN 0 ELSE EOF
           /\ m.binary \/ (\A i \in 1..whole : text[i] # "CR") =>
                ReadBack(fseek(o.m, At(m), "SEEK_SET").m, whole).r = SubSeq(text, 1, whole)
           /\ ~Opposed(m, "byte") => fwrite(text, m, whole, rest) = [m |-> o.m, r |-> whole]
           /\ Leaves(m, text, whole, rest, o.m)

(* A short transfer is explained: an indicator is set, and _read tells a   *)
(* refusal from the end of the file.  A write the stream refuses moves     *)
(* nothing; one the device refuses half way leaves the characters counted, *)
(* at most the carriage return of a pair, and the rest as it was.          *)
ShortTransfersExplained ==
  /\ \A n \in Counts : LET o == fread(m, 1, n) IN Len(o.r) < n => o.m.eof \/ o.m.error
  /\ \A orientation \in {"byte", "wide"}, text \in Texts, rest \in {"half", "none"} :
       \A whole \in 0..Len(text) - 1 :
         LET o == Spread(orientation, text, m, whole, rest)
         IN o.r < Len(text) =>
              /\ o.m.error
              /\ IF Opposed(m, orientation) \/ ~m.writable \/ m.failing
                 THEN o.r = 0 /\ o.m.content = m.content /\ o.m.position = m.position
                 ELSE Leaves(m, text, o.r, rest, o.m)
  /\ LET o == _read(m, 1)
     IN /\ o.r = -1 => ~m.readable \/ Opposed(m, "byte") \/ m.failing \/ m.error
        /\ o.r = 0 => o.m.eof
  /\ Opposed(m, "byte") =>
       fgetc(m).m = [m EXCEPT !.error = TRUE] /\ \A c \in Bytes : ungetc(c, m).r = EOF

(* docs/req-0094: a resize keeps the bytes both sizes have, fills with     *)
(* zeros, leaves position and stream state as they were, and reports the   *)
(* first failure.                                                          *)
ResizeKeeps ==
  \A size \in -1..MaxSize, restored \in BOOLEAN : \A reached \in Reached(m, size) :
    LET o == __wcrt_file_resize(m, size, reached, restored)
        old == Len(m.content)
    IN /\ o.r = 0 => Len(o.m.content) = size
       /\ o.r = 0 \/ (restored /\ reached # size) => o.m.position = m.position
       /\ \A i \in 1..Len(o.m.content) : o.m.content[i] = IF i <= old THEN m.content[i] ELSE "NUL"
       /\ [o.m EXCEPT !.content = m.content, !.position = m.position] = m
       /\ (o.r = 0) = (o.errno = "none")
       /\ reached # size /\ o.m # m => o.errno = "size"
       /\ ~m.writable => o.m = m /\ o.r = -1

-----------------------------------------------------------------------------
(* Reading: what comes from a stream is what is left of the file, in order *)
(* and translated, and a transfer that falls short says why                *)
(* (src/stdio.c:746-954, src/platform/windows/file.c:373-400).             *)
ReadsInOrder == TextInOrder /\ ShortTransfersExplained

(* A position told is a position returned to, and changing the size of a   *)
(* file moves nobody (src/stdio.c:973-1026, src/platform/windows/          *)
(* file.c:402-496).                                                        *)
PositionsReturn == PositionsLeadBack /\ ResizeKeeps
=============================================================================
