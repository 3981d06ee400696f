------------------------------ MODULE Calendar ------------------------------
(***************************************************************************)
(* Calendar time: src/time.c, src/wchar_time.c and the conversions of      *)
(* src/platform/windows/clock.c.  A time is [days, seconds], the seconds   *)
(* since 1970-01-01 split by 86400; a broken-down time has the fields of   *)
(* struct tm.  Bias is the minutes the system's zone is behind UTC, which  *)
(* Windows applies to every time alike.                                    *)
(***************************************************************************)
EXTENDS Integers, Sequences, FiniteSetsExt

CONSTANT Bias

NULL == [null |-> TRUE]
wcrt_floor_div(a, b) == a \div b           \* TLA+ divides towards minus infinity
DAY == 86400

(* Days relative to the epoch from a date, in eras of 400 years whose      *)
(* years begin in March; and back.                                         *)
wcrt_days_from_civil(y, month, day) ==
  LET year == IF month <= 2 THEN y - 1 ELSE y
      era == wcrt_floor_div(year, 400)
      year_of_era == year - era * 400
      day_of_year == (153 * (month + (IF month > 2 THEN -3 ELSE 9)) + 2) \div 5 + day - 1
      day_of_era == year_of_era * 365 + year_of_era \div 4 - year_of_era \div 100 + day_of_year
  IN era * 146097 + day_of_era - 719468

wcrt_civil_from_days(days) ==
  LET adjusted == days + 719468
      era == wcrt_floor_div(adjusted, 146097)
      day_of_era == adjusted - era * 146097
      year_of_era == (day_of_era - day_of_era \div 1460 + day_of_era \div 36524
                      - day_of_era \div 146096) \div 365
      day_of_year == day_of_era - (365 * year_of_era + year_of_era \div 4 - year_of_era \div 100)
      month_piece == (5 * day_of_year + 2) \div 153
      month == month_piece + (IF month_piece < 10 THEN 3 ELSE -9)
  IN [year |-> year_of_era + era * 400 + (IF month <= 2 THEN 1 ELSE 0),
      month |-> month, day |-> day_of_year - (153 * month_piece + 2) \div 5 + 1]

(* The weekday is corrected for C's remainder, which is negative before    *)
(* the epoch.                                                              *)
CRemainder(a, b) == IF a >= 0 THEN a % b ELSE -((-a) % b)
wcrt_break_down(t) ==
  LET civil == wcrt_civil_from_days(t.days)
      r == CRemainder(t.days + 4, 7)
  IN [tm_sec |-> t.seconds % 60, tm_min |-> (t.seconds \div 60) % 60,
      tm_hour |-> t.seconds \div 3600, tm_mday |-> civil.day, tm_mon |-> civil.month - 1,
      tm_year |-> civil.year - 1900, tm_wday |-> IF r < 0 THEN r + 7 ELSE r,
      tm_yday |-> t.days - wcrt_days_from_civil(civil.year, 1, 1), tm_isdst |-> -1]

Time(days, seconds) ==
  [days |-> days + wcrt_floor_div(seconds, DAY), seconds |-> seconds % DAY]
Before(s, t) == s.days < t.days \/ (s.days = t.days /\ s.seconds < t.seconds)
Failed == [days |-> -1, seconds |-> DAY - 1]        \* (time_t)-1

(* Windows converts the times it can represent, from 1601 on.              *)
Representable(t) == t.days >= -134774
__wcrt_utc_to_local(t) == IF Representable(t) THEN Time(t.days, t.seconds - 60 * Bias) ELSE t
__wcrt_local_to_utc(t) == IF Representable(t) THEN Time(t.days, t.seconds + 60 * Bias) ELSE Failed

gmtime(t) == IF t = NULL THEN NULL ELSE wcrt_break_down(t)
localtime(t) == IF t = NULL THEN NULL ELSE wcrt_break_down(__wcrt_utc_to_local(t))

wcrt_local_calendar_seconds(tm) ==
  LET total_months == (tm.tm_year + 1900) * 12 + tm.tm_mon
      year == wcrt_floor_div(total_months, 12)
      month == total_months - year * 12 + 1
      days == wcrt_days_from_civil(year, month, 1) + tm.tm_mday - 1
  IN Time(days, tm.tm_hour * 3600 + tm.tm_min * 60 + tm.tm_sec)

(* The result and what the argument becomes.                               *)
mktime(tm) ==
  LET utc == __wcrt_local_to_utc(wcrt_local_calendar_seconds(tm))
  IN IF tm = NULL THEN [r |-> Failed, tm |-> NULL]
     ELSE IF utc = Failed THEN [r |-> Failed, tm |-> tm]
     ELSE [r |-> utc, tm |-> localtime(utc)]

(* The forms over a 32-bit long: times of 1970 to 2038, the rest EINVAL.   *)
Last32 == [days |-> 24855, seconds |-> 11647]
wcrt_narrow_calendar(t) ==
  IF t.days < 0 \/ Before(Last32, t) THEN [r |-> Failed, errno |-> "EINVAL"]
  ELSE [r |-> t, errno |-> ""]
wcrt_mktime32(tm) ==
  LET local == wcrt_local_calendar_seconds(tm)
      m == mktime(tm)
      narrowed == wcrt_narrow_calendar(m.r)
      refused == [r |-> Failed, tm |-> tm, errno |-> "EINVAL"]
  IN CASE tm = NULL -> refused
       [] tm # NULL /\ (local.days < -134774 \/ local.days > 376564) -> refused
       [] OTHER -> IF narrowed.errno # "" THEN refused
                   ELSE [r |-> m.r, tm |-> m.tm, errno |-> ""]
Checked32(t, result) ==
  IF t = NULL \/ t.days < 0 THEN [r |-> NULL, errno |-> "EINVAL"] ELSE [r |-> result, errno |-> ""]
wcrt_gmtime32(t) == Checked32(t, gmtime(t))
wcrt_localtime32(t) == Checked32(t, localtime(t))

-----------------------------------------------------------------------------
(* Weeks of ISO 8601.                                                      *)
wcrt_is_leap_year(y) == y % 4 = 0 /\ (y % 100 # 0 \/ y % 400 = 0)
wcrt_iso_weeks(y, january_first) ==
  IF january_first = 4 \/ (january_first = 3 /\ wcrt_is_leap_year(y)) THEN 53 ELSE 52

wcrt_iso_week(tm) ==
  LET year == tm.tm_year + 1900
      weekday == IF tm.tm_wday = 0 THEN 7 ELSE tm.tm_wday
      january_first == (tm.tm_wday - (tm.tm_yday % 7) + 7) % 7
      result == (tm.tm_yday + 10 - weekday) \div 7
      days == IF wcrt_is_leap_year(year - 1) THEN 366 ELSE 365
      previous_first == (january_first - (days % 7) + 7) % 7
  IN CASE result < 1 -> [year |-> year - 1, week |-> wcrt_iso_weeks(year - 1, previous_first)]
       [] result >= 1 /\ result > wcrt_iso_weeks(year, january_first) -> [year |-> year + 1, week |-> 1]
       [] OTHER -> [year |-> year, week |-> result]

-----------------------------------------------------------------------------
(* Text.  A character is <<"digit", n>>, <<"char", c>> or, in a name,      *)
(* <<kind, which, place>>; the short names are the first three letters of  *)
(* the long ones.                                                          *)
Digit(n) == <<"digit", n>>
Char(c) == <<<<"char", c>>>>
DayLength == <<6, 6, 7, 9, 8, 6, 8>>
MonthLength == <<7, 8, 5, 5, 3, 4, 4, 6, 9, 7, 8, 8>>
Name(kind, which, length) == [i \in 1..length |-> <<kind, which, i>>]
ShortDay(tm) == Name("day", tm.tm_wday, 3)
ShortMonth(tm) == Name("month", tm.tm_mon, 3)

Number(n, width) == [i \in 1..width |-> Digit((n \div 10 ^ (width - i)) % 10)]
wcrt_two_digits(n) == Number(n, 2)
SpaceNumber(n) == (IF n < 10 THEN Char(" ") ELSE <<Digit((n \div 10) % 10)>>) \o <<Digit(n % 10)>>

asctime(tm) ==
  IF tm = NULL \/ tm.tm_wday \notin 0..6 \/ tm.tm_mon \notin 0..11 THEN NULL
  ELSE ShortDay(tm) \o Char(" ") \o ShortMonth(tm) \o Char(" ") \o SpaceNumber(tm.tm_mday) \o
       Char(" ") \o wcrt_two_digits(tm.tm_hour) \o Char(":") \o wcrt_two_digits(tm.tm_min) \o
       Char(":") \o wcrt_two_digits(tm.tm_sec) \o Char(" ") \o Number(tm.tm_year + 1900, 4) \o
       Char("newline")
ctime(t) == asctime(localtime(t))

(* The destination keeps room for the terminator; a text that does not fit *)
(* is stored as far as it does, and the call returns 0.                    *)
wcrt_append_text(stored, capacity, text) ==
  LET room == capacity - 1 - Len(stored)
  IN [ok |-> Len(text) <= room,
      stored |-> stored \o SubSeq(text, 1, IF Len(text) <= room THEN Len(text) ELSE room)]

(* The directives that stand for others, the texts and the numbers.        *)
Composite == [D |-> <<"%", "m", "/", "%", "d", "/", "%", "y">>,
              F |-> <<"%", "Y", "-", "%", "m", "-", "%", "d">>,
              r |-> <<"%", "I", ":", "%", "M", ":", "%", "S", " ", "%", "p">>,
              R |-> <<"%", "H", ":", "%", "M">>,
              T |-> <<"%", "H", ":", "%", "M", ":", "%", "S">>,
              x |-> <<"%", "m", "/", "%", "d", "/", "%", "y">>,
              X |-> <<"%", "H", ":", "%", "M", ":", "%", "S">>,
              c |-> <<"%", "a", " ", "%", "b", " ", "%", "d", " ", "%", "H", ":", "%", "M", ":",
                      "%", "S", " ", "%", "Y">>]
TextOf(conversion, tm) ==
  CASE conversion = "a" -> ShortDay(tm)
    [] conversion = "A" -> Name("day", tm.tm_wday, DayLength[tm.tm_wday + 1])
    [] conversion \in {"b", "h"} -> ShortMonth(tm)
    [] conversion = "B" -> Name("month", tm.tm_mon, MonthLength[tm.tm_mon + 1])
    [] conversion = "e" -> SpaceNumber(tm.tm_mday)
    [] conversion = "p" -> Name(IF tm.tm_hour < 12 THEN "AM" ELSE "PM", 0, 2)
    [] conversion = "Z" -> IF tm.tm_isdst < 0 THEN <<>> ELSE Name("Local", 0, 5)
    [] conversion = "z" -> <<>>
    [] conversion = "%" -> Char("%")
    [] conversion = "n" -> Char("newline")
    [] conversion = "t" -> Char("tab")
NumberOf(conversion, tm) ==
  LET year == tm.tm_year + 1900
  IN CASE conversion = "C" -> year \div 100
       [] conversion = "d" -> tm.tm_mday
       [] conversion = "H" -> tm.tm_hour
       [] conversion = "I" -> IF tm.tm_hour % 12 = 0 THEN 12 ELSE tm.tm_hour % 12
       [] conversion = "j" -> tm.tm_yday + 1
       [] conversion = "m" -> tm.tm_mon + 1
       [] conversion = "M" -> tm.tm_min
       [] conversion = "S" -> tm.tm_sec
       [] conversion = "u" -> IF tm.tm_wday = 0 THEN 7 ELSE tm.tm_wday
       [] conversion = "U" -> (tm.tm_yday + 7 - tm.tm_wday) \div 7
       [] conversion = "w" -> tm.tm_wday
       [] conversion = "W" -> (tm.tm_yday + 7 - ((tm.tm_wday + 6) % 7)) \div 7
       [] conversion = "y" -> year % 100
       [] conversion = "Y" -> year
       [] conversion = "g" -> wcrt_iso_week(tm).year % 100
       [] conversion = "G" -> wcrt_iso_week(tm).year
       [] conversion = "V" -> wcrt_iso_week(tm).week
Texts == {"a", "A", "b", "h", "B", "e", "p", "Z", "z", "%", "n", "t"}
Numbers == {"C", "d", "H", "I", "j", "m", "M", "S", "u", "U", "w", "W", "y", "Y", "g", "G", "V"}
Digits(conversion) ==
  CASE conversion = "j" -> 3 [] conversion \in {"u", "w"} -> 1 [] conversion \in {"Y", "G"} -> 4 [] OTHER -> 2

(* The result, 0 if the text and its terminator do not fit or a directive  *)
(* is unknown, and what was stored.                                        *)
RECURSIVE Strftime(_, _, _, _)
Strftime(stored, capacity, f, tm) ==
  LET modified == Len(f) > 1 /\ f[2] \in {"E", "O"}
      place == IF modified THEN 3 ELSE 2
      conversion == IF Len(f) >= place THEN f[place] ELSE "end"
      rest == SubSeq(f, place + 1, Len(f))
      piece == CASE f[1] # "%" -> Char(f[1])
                 [] f[1] = "%" /\ conversion \in Texts -> TextOf(conversion, tm)
                 [] OTHER -> Number(NumberOf(conversion, tm), Digits(conversion))
      a == wcrt_append_text(stored, capacity, piece)
      inner == Strftime(<<>>, capacity - Len(stored), Composite[conversion], tm)
  IN CASE f = <<>> -> [r |-> Len(stored), stored |-> stored, ended |-> TRUE]
       [] f # <<>> /\ f[1] = "%" /\ conversion \in DOMAIN Composite ->
            IF inner.r = 0 THEN [r |-> 0, stored |-> stored \o inner.stored, ended |-> FALSE]
            ELSE Strftime(stored \o inner.stored, capacity, rest, tm)
       [] f # <<>> /\ f[1] = "%" /\ conversion \notin DOMAIN Composite \cup Texts \cup Numbers ->
            [r |-> 0, stored |-> stored, ended |-> FALSE]
       [] OTHER -> IF ~a.ok THEN [r |-> 0, stored |-> a.stored, ended |-> FALSE]
                   ELSE Strftime(a.stored, capacity, IF f[1] = "%" THEN rest ELSE Tail(f), tm)
strftime(capacity, f, tm) ==
  IF capacity = 0 THEN [r |-> 0, stored |-> <<>>, ended |-> FALSE]
  ELSE Strftime(<<>>, capacity, f, tm)

(* The wide form formats into a block of its own, and copies it only if    *)
(* the call succeeded: a result of 0 counts when the text is the empty     *)
(* one, which the block's first byte, set before the call, tells apart.    *)
wcsftime(capacity, f, tm) ==
  LET n == strftime(capacity, f, tm)
      empty == n.stored = <<>> /\ n.ended
  IN IF n.r # 0 \/ empty THEN n ELSE [r |-> 0, stored |-> <<>>, ended |-> FALSE]

-----------------------------------------------------------------------------
(* What the calendar promises (docs/req-0015-time.md, C99 7.23): the       *)
(* Gregorian calendar counted day by day, weeks as they are defined, and   *)
(* normalization as addition.                                              *)

LeapYear(y) == \/ y % 400 = 0
               \/ y % 4 = 0 /\ y % 100 # 0
DaysIn(y, m) == CASE m = 2 -> IF LeapYear(y) THEN 29 ELSE 28
                  [] m \in {4, 6, 9, 11} -> 30
                  [] OTHER -> 31
First(y) == wcrt_days_from_civil(y, 1, 1)
DaysOf(y) == First(y) .. First(y + 1) - 1

(* Every day follows the one before it, from the epoch, a Thursday, on.    *)
Following(c) ==
  IF c.day < DaysIn(c.year, c.month) THEN [c EXCEPT !.day = @ + 1]
  ELSE IF c.month < 12 THEN [c EXCEPT !.month = @ + 1, !.day = 1]
  ELSE [year |-> c.year + 1, month |-> 1, day |-> 1]

Midnight(days) == [days |-> days, seconds |-> 0]
YearCounted(y) ==
  /\ wcrt_civil_from_days(0) = [year |-> 1970, month |-> 1, day |-> 1]
  /\ gmtime(Midnight(0)).tm_wday = 4
  /\ \A d \in DaysOf(y) :
       LET c == wcrt_civil_from_days(d)
           now == gmtime(Midnight(d))
           next == gmtime(Midnight(d + 1))
       IN /\ wcrt_civil_from_days(d + 1) = Following(c)
          /\ wcrt_days_from_civil(c.year, c.month, c.day) = d
          /\ next.tm_wday = (now.tm_wday + 1) % 7
          /\ now.tm_yday = d - First(y) /\ now.tm_year = y - 1900

(* A day's ISO week is that of its Thursday: the year the Thursday is in,  *)
(* and which Thursday of that year it is.  %U and %W count the Sundays and *)
(* the Mondays of the year so far.  wcrt_iso_week starts from tm_yday as   *)
(* if it began at 1, and is a week behind exactly when the Thursday's      *)
(* number in its year, from 0, is a multiple of 7 (src/time.c:354).        *)
WeeksCounted(y) ==
  \A d \in DaysOf(y) :
    LET tm == gmtime(Midnight(d))
        thursday == gmtime(Midnight(d - ((tm.tm_wday + 6) % 7) + 3))
        so_far(weekday) == Cardinality({e \in First(y)..d : gmtime(Midnight(e)).tm_wday = weekday})
    IN /\ thursday.tm_yday % 7 # 0 =>
            wcrt_iso_week(tm) = [year |-> thursday.tm_year + 1900, week |-> thursday.tm_yday \div 7 + 1]
       /\ NumberOf("U", tm) = so_far(0)
       /\ NumberOf("W", tm) = so_far(1)

(* Going to local broken-down time and back is the identity; fields out of *)
(* range stand for the time that many months, days or seconds away; the    *)
(* 32-bit forms agree where they answer, and change nothing where they     *)
(* do not.                                                                 *)
Plus(t, days, seconds) == Time(t.days + days, t.seconds + seconds)
Normalized(t, days, minutes, months) ==
  LET tm == localtime(t)
      moved == [tm EXCEPT !.tm_mday = @ + days, !.tm_min = @ + minutes]
      shifted == [tm EXCEPT !.tm_mon = @ + months, !.tm_mday = 1]
      m == mktime(moved)
      narrow == wcrt_mktime32(moved)
      expected == Plus(t, days, 60 * minutes)
  IN /\ m.r = expected
     /\ m.tm = IF expected = Failed THEN moved          \* -1 is also a time
               ELSE localtime(expected)
     /\ LET s == mktime(shifted)
            total == (tm.tm_year + 1900) * 12 + tm.tm_mon + months
        IN /\ s.tm.tm_mon = total % 12 /\ s.tm.tm_year = total \div 12 - 1900
           /\ s.tm.tm_mday = 1 /\ s.tm.tm_hour = tm.tm_hour
     /\ IF expected.days >= 0 /\ ~Before(Last32, expected)
        THEN narrow = [r |-> m.r, tm |-> m.tm, errno |-> ""]
        ELSE narrow = [r |-> Failed, tm |-> moved, errno |-> "EINVAL"]
     /\ wcrt_localtime32(expected).errno = IF expected.days < 0 THEN "EINVAL" ELSE ""

(* A buffer takes the whole text with its terminator or the call returns   *)
(* 0; a directive for several gives what they give; the wide form stores   *)
(* nothing when it fails.                                                  *)
RECURSIVE Expanded(_)
Expanded(f) ==
  IF f = <<>> THEN <<>>
  ELSE IF Len(f) > 1 /\ f[1] = "%" /\ f[2] \in DOMAIN Composite
       THEN Composite[f[2]] \o Expanded(SubSeq(f, 3, Len(f)))
       ELSE <<f[1]>> \o Expanded(Tail(f))

TimeFormatted(f, capacity, t) ==
  LET tm == gmtime(t)
      whole == strftime(200, Expanded(f), tm)
      r == strftime(capacity, f, tm)
      wide == wcsftime(capacity, f, tm)
      fits == whole.ended /\ Len(whole.stored) < capacity
  IN /\ r.ended = fits
     /\ fits => r = whole /\ wide = whole
     /\ ~fits => r.r = 0 /\ wide.r = 0 /\ wide.stored = <<>>
     /\ Len(r.stored) < capacity \/ capacity = 0
     /\ strftime(200, <<"%", "c", "%", "n">>, tm).r = Len(asctime(tm))
=============================================================================
