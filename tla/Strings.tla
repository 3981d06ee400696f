------------------------------ MODULE Strings ------------------------------
(***************************************************************************)
(* The loops of src/string.c and src/wchar_string.c over one memory `m`, a *)
(* function from addresses to units, so that destination and source may    *)
(* overlap as the caller's arrays do.  A pointer is an address; NULL is no *)
(* address.  A read outside the memory is an error of the model.  Byte     *)
(* and wide functions are the same loop over units of another range; what  *)
(* differs is written out.  Functions that return their first argument     *)
(* are modelled by the memory they leave.                                  *)
(***************************************************************************)
EXTENDS Characters, Sequences, FiniteSetsExt, SequencesExt

NULL == -1
EINVAL == "EINVAL"
ERANGE == "ERANGE"
ENOMEM == "ENOMEM"
STRUNCATE == "STRUNCATE"
Truncate == -1            \* _TRUNCATE, the largest count

Store(m, p, v) == [m EXCEPT ![p] = v]

(* The loops that step a pointer until a condition holds.                  *)
RECURSIVE Step(_, _, _)
Step(m, p, stop) == IF m[p] \in stop THEN p ELSE Step(m, p + 1, stop)

strlen(m, p) == Step(m, p, {NUL}) - p

-----------------------------------------------------------------------------
(* Copying.                                                                *)

RECURSIVE memcpy(_, _, _, _)
memcpy(m, d, s, n) ==
  IF n = 0 THEN m ELSE memcpy(Store(m, d, m[s]), d + 1, s + 1, n - 1)

RECURSIVE Backward(_, _, _, _)
Backward(m, d, s, n) ==
  IF n = 0 THEN m
  ELSE Backward(Store(m, d + n - 1, m[s + n - 1]), d, s, n - 1)

(* Mutation of memmove: always forward.                                    *)
MemmoveForward(m, d, s, n) == memcpy(m, d, s, n)

memmove(m, d, s, n) ==
  CASE d < s -> memcpy(m, d, s, n)
    [] d > s -> Backward(m, d, s, n)
    [] OTHER -> m

(* The pointer after the sentinel in the destination, or NULL.             *)
RECURSIVE memccpy(_, _, _, _, _)
memccpy(m, d, s, c, n) ==
  IF n = 0 THEN [m |-> m, r |-> NULL]
  ELSE LET next == Store(m, d, m[s])
       IN IF m[s] = c THEN [m |-> next, r |-> d + 1]
          ELSE memccpy(next, d + 1, s + 1, c, n - 1)

RECURSIVE memset(_, _, _, _)
memset(m, d, c, n) == IF n = 0 THEN m ELSE memset(Store(m, d, c), d + 1, c, n - 1)

RECURSIVE strcpy(_, _, _)
strcpy(m, d, s) ==
  LET next == Store(m, d, m[s])
  IN IF m[s] = NUL THEN next ELSE strcpy(next, d + 1, s + 1)

RECURSIVE strncpy(_, _, _, _)
strncpy(m, d, s, n) ==
  IF n # 0 /\ m[s] # NUL
  THEN strncpy(Store(m, d, m[s]), d + 1, s + 1, n - 1)
  ELSE memset(m, d, NUL, n)

strcat(m, d, s) == strcpy(m, d + strlen(m, d), s)

RECURSIVE Append0(_, _, _, _)
Append0(m, d, s, n) ==
  IF n # 0 /\ m[s] # NUL THEN Append0(Store(m, d, m[s]), d + 1, s + 1, n - 1)
  ELSE Store(m, d, NUL)
strncat(m, d, s, n) == Append0(m, d + strlen(m, d), s, n)

(* strxfrm stores the terminator only where the count leaves room; wcsxfrm *)
(* copies it as one unit more.  Both return the length.                    *)
strxfrm(m, d, s, n) ==
  LET length == strlen(m, s)
      copied == IF n < length THEN n ELSE length
      out == memcpy(m, d, s, copied)
  IN IF copied < n THEN Store(out, d + copied, NUL) ELSE out
wcsxfrm(m, d, s, n) ==
  LET length == strlen(m, s)
  IN memcpy(m, d, s, IF n <= length THEN n ELSE length + 1)

-----------------------------------------------------------------------------
(* Comparison: -1, 0 or 1, on unsigned units.                              *)
Order(a, b) == IF a < b THEN -1 ELSE IF a > b THEN 1 ELSE 0

RECURSIVE memcmp(_, _, _, _)
memcmp(m, l, r, n) ==
  CASE n = 0 -> 0
    [] m[l] # m[r] -> Order(m[l], m[r])
    [] OTHER -> memcmp(m, l + 1, r + 1, n - 1)

RECURSIVE strcmp(_, _, _)
strcmp(m, l, r) ==
  IF m[l] # NUL /\ m[l] = m[r] THEN strcmp(m, l + 1, r + 1) ELSE Order(m[l], m[r])

RECURSIVE strncmp(_, _, _, _)
strncmp(m, l, r, n) ==
  CASE n # 0 /\ m[l] # NUL /\ m[l] = m[r] -> strncmp(m, l + 1, r + 1, n - 1)
    [] n = 0 -> 0
    [] OTHER -> Order(m[l], m[r])

(* Case-insensitive comparison; a null argument with a count is EINVAL and *)
(* _NLSCMPERROR.                                                           *)
RECURSIVE Folded(_, _, _, _)
Folded(m, l, r, n) ==
  LET a == tolower(m[l])
      b == tolower(m[r])
  IN CASE n = 0 -> 0
       [] n # 0 /\ a # b -> Order(a, b)
       [] n # 0 /\ a = b /\ a = NUL -> 0
       [] OTHER -> Folded(m, l + 1, r + 1, n - 1)
strnicmp(m, l, r, n) ==
  CASE n = 0 -> 0
    [] n # 0 /\ NULL \in {l, r} -> "_NLSCMPERROR"
    [] OTHER -> Folded(m, l, r, n)
stricmp(m, l, r) == strnicmp(m, l, r, 1000000)      \* (size_t)-1

RECURSIVE FoldedBytes(_, _, _, _)
FoldedBytes(m, l, r, n) ==
  CASE n = 0 -> 0
    [] n # 0 /\ tolower(m[l]) # tolower(m[r]) -> Order(tolower(m[l]), tolower(m[r]))
    [] OTHER -> FoldedBytes(m, l + 1, r + 1, n - 1)
memicmp(m, l, r, n) ==
  CASE n = 0 -> 0
    [] n # 0 /\ NULL \in {l, r} -> "_NLSCMPERROR"
    [] OTHER -> FoldedBytes(m, l, r, n)

-----------------------------------------------------------------------------
(* Searching.                                                              *)

RECURSIVE memchr(_, _, _, _)
memchr(m, p, c, n) ==
  CASE n = 0 -> NULL
    [] n # 0 /\ m[p] = c -> p
    [] OTHER -> memchr(m, p + 1, c, n - 1)

strchr(m, p, c) ==
  LET q == Step(m, p, {c, NUL}) IN IF m[q] = c THEN q ELSE NULL

RECURSIVE Rightmost(_, _, _, _)
Rightmost(m, p, c, found) ==
  LET now == IF m[p] = c THEN p ELSE found
  IN IF m[p] = NUL THEN now ELSE Rightmost(m, p + 1, c, now)
strrchr(m, p, c) == Rightmost(m, p, c, NULL)

RECURSIVE strspn(_, _, _)
strspn(m, p, accept) ==
  IF m[p] # NUL /\ strchr(m, accept, m[p]) # NULL THEN 1 + strspn(m, p + 1, accept) ELSE 0

RECURSIVE strcspn(_, _, _)
strcspn(m, p, reject) ==
  IF m[p] # NUL /\ strchr(m, reject, m[p]) = NULL THEN 1 + strcspn(m, p + 1, reject) ELSE 0

strpbrk(m, p, accept) ==
  LET q == p + strcspn(m, p, accept) IN IF m[q] = NUL THEN NULL ELSE q

(* strstr also tries the terminator; wcsstr answers an empty needle first  *)
(* and never does.                                                         *)
RECURSIVE strstr(_, _, _)
strstr(m, p, needle) ==
  CASE strncmp(m, p, needle, strlen(m, needle)) = 0 -> p
    [] m[p] = NUL -> NULL
    [] OTHER -> strstr(m, p + 1, needle)
RECURSIVE Occurs(_, _, _)
Occurs(m, p, needle) ==
  CASE m[p] = NUL -> NULL
    [] strncmp(m, p, needle, strlen(m, needle)) = 0 -> p
    [] OTHER -> Occurs(m, p + 1, needle)
wcsstr(m, p, needle) == IF strlen(m, needle) = 0 THEN p ELSE Occurs(m, p, needle)

-----------------------------------------------------------------------------
(* The wide functions whose loops are those above over wide units.         *)
wcslen(m, p) == strlen(m, p)
wcscpy(m, d, s) == strcpy(m, d, s)
wcsncpy(m, d, s, n) == strncpy(m, d, s, n)
wcscat(m, d, s) == strcat(m, d, s)
wcsncat(m, d, s, n) == strncat(m, d, s, n)
wcscmp(m, l, r) == strcmp(m, l, r)
wcsncmp(m, l, r, n) == strncmp(m, l, r, n)
wcschr(m, p, c) == strchr(m, p, c)
wcsrchr(m, p, c) == strrchr(m, p, c)
wcsspn(m, p, accept) == strspn(m, p, accept)
wcscspn(m, p, reject) == strcspn(m, p, reject)
wcspbrk(m, p, accept) == strpbrk(m, p, accept)
wmemchr(m, p, c, n) == memchr(m, p, c, n)
wmemcmp(m, l, r, n) == memcmp(m, l, r, n)
wmemcpy(m, d, s, n) == memcpy(m, d, s, n)
wmemmove(m, d, s, n) == memmove(m, d, s, n)
wmemset(m, d, c, n) == memset(m, d, c, n)

-----------------------------------------------------------------------------
(* Tokens.  A call returns the memory, the saved continuation and the      *)
(* token.  strtok keeps NULL when the string is used up; wcstok keeps the  *)
(* address of the terminator in the caller's state.                        *)

strtok(m, saved, string, delimiters) ==
  LET from == IF string # NULL THEN string ELSE saved
      start == from + strspn(m, from, delimiters)
      end == start + strcspn(m, start, delimiters)
      none == [m |-> m, saved |-> NULL, r |-> NULL]
  IN CASE from = NULL -> none
       [] from # NULL /\ m[start] = NUL -> none
       [] OTHER -> IF m[end] # NUL
                   THEN [m |-> Store(m, end, NUL), saved |-> end + 1, r |-> start]
                   ELSE [m |-> m, saved |-> NULL, r |-> start]

wcstok(m, saved, string, separators) ==
  LET from == IF string = NULL THEN saved ELSE string
      start == from + wcsspn(m, from, separators)
      end == start + wcscspn(m, start, separators)
  IN CASE m[start] = NUL -> [m |-> m, saved |-> start, r |-> NULL]
       [] OTHER -> IF m[end] # NUL
                   THEN [m |-> Store(m, end, NUL), saved |-> end + 1, r |-> start]
                   ELSE [m |-> m, saved |-> end, r |-> start]

-----------------------------------------------------------------------------
(* Changing a string in place; a null string is EINVAL.                    *)
RECURSIVE Mapped(_, _, _)
Mapped(m, p, f) == IF m[p] = NUL THEN m ELSE Mapped(Store(m, p, f[m[p]]), p + 1, f)
strlwr(m, p) == Mapped(m, p, [c \in 0..255 |-> tolower(c)])
strupr(m, p) == Mapped(m, p, [c \in 0..255 |-> toupper(c)])

RECURSIVE Swapped(_, _, _)
Swapped(m, l, r) ==
  IF l < r THEN Swapped([m EXCEPT ![l] = m[r], ![r] = m[l]], l + 1, r - 1) ELSE m
strrev(m, p) == IF strlen(m, p) = 0 THEN m ELSE Swapped(m, p, p + strlen(m, p) - 1)

RECURSIVE strnset(_, _, _, _)
strnset(m, p, c, n) ==
  IF n # 0 /\ m[p] # NUL THEN strnset(Store(m, p, c), p + 1, c, n - 1) ELSE m
strset(m, p, c) == strnset(m, p, c, 1000000)

(* Duplication into the block at `block`, NULL when malloc fails.          *)
Duplicated(m, p, length, block) ==
  CASE p = NULL -> [m |-> m, r |-> NULL, errno |-> EINVAL]
    [] p # NULL /\ block = NULL -> [m |-> m, r |-> NULL, errno |-> ENOMEM]
    [] OTHER -> [m |-> Store(memcpy(m, block, p, length), block + length, NUL),
                 r |-> block, errno |-> "unchanged"]
strdup(m, p, block) == Duplicated(m, p, IF p = NULL THEN 0 ELSE strlen(m, p), block)
strndup(m, p, n, block) ==
  Duplicated(m, p, IF p = NULL THEN 0
                   ELSE IF memchr(m, p, NUL, n) = NULL THEN n ELSE strlen(m, p), block)

-----------------------------------------------------------------------------
(* The bounded copies of Annex K; a refused copy empties a destination it  *)
(* can write to.                                                           *)
Emptied(m, d, error) == [m |-> Store(m, d, NUL), r |-> error]
Refused(m, d, size, s) ==
  CASE d = NULL -> [m |-> m, r |-> EINVAL]
    [] d # NULL /\ size = 0 -> [m |-> m, r |-> ERANGE]
    [] OTHER -> Emptied(m, d, EINVAL)

strcpy_s(m, d, size, s) ==
  CASE d = NULL \/ size = 0 \/ s = NULL -> Refused(m, d, size, s)
    [] OTHER -> IF strlen(m, s) + 1 > size THEN Emptied(m, d, ERANGE)
                ELSE [m |-> memcpy(m, d, s, strlen(m, s) + 1), r |-> 0]

strncpy_s(m, d, size, s, count) ==
  IF d = NULL \/ size = 0 \/ s = NULL THEN Refused(m, d, size, s)
  ELSE LET truncate == count = Truncate
           length == strlen(m, s)
           wanted == IF truncate \/ count > length THEN length ELSE count
           copied == IF wanted >= size THEN size - 1 ELSE wanted
       IN IF wanted >= size /\ ~truncate THEN Emptied(m, d, ERANGE)
          ELSE [m |-> Store(memcpy(m, d, s, copied), d + copied, NUL),
                r |-> IF truncate /\ copied < length THEN STRUNCATE ELSE 0]

strcat_s(m, d, size, s) ==
  IF d = NULL \/ size = 0 THEN Refused(m, d, size, s)
  ELSE IF memchr(m, d, NUL, size) = NULL THEN [m |-> m, r |-> EINVAL]
  ELSE LET used == strlen(m, d)
       IN CASE s = NULL -> Emptied(m, d, EINVAL)
            [] OTHER -> IF strlen(m, s) + 1 > size - used THEN Emptied(m, d, ERANGE)
                        ELSE [m |-> memcpy(m, d + used, s, strlen(m, s) + 1), r |-> 0]

-----------------------------------------------------------------------------
(* What the functions of Strings promise (C89 4.11, C11 K.3.7), said over  *)
(* the texts a memory holds instead of over the loops.                     *)

Cells(m) == DOMAIN m
Range0(p, n) == p .. p + n - 1

(* The text at p: the units before the first terminator.                   *)
Length(m, p) == Min({q \in Cells(m) : q >= p /\ m[q] = NUL}) - p
Text(m, p) == [i \in 1..Length(m, p) |-> m[p + i - 1]]
Occupied(m, p) == Range0(p, Length(m, p) + 1)
Prefix(t, n) == SubSeq(t, 1, IF n < Len(t) THEN n ELSE Len(t))

(* m with the units of `t` stored from p on, and nothing else changed.     *)
With(m, p, t) ==
  [q \in Cells(m) |-> IF q \in Range0(p, Len(t)) THEN t[q - p + 1] ELSE m[q]]
Terminated(t) == Append(t, NUL)

Least(S) == IF S = {} THEN NULL ELSE Min(S)
Greatest(S) == IF S = {} THEN NULL ELSE Max(S)

(* The order of texts: at the first place they differ, the end first.      *)
At(t, i) == IF i <= Len(t) THEN t[i] ELSE NUL
Compare(t, u) ==
  LET differ == {i \in 1 .. Len(t) + Len(u) : At(t, i) # At(u, i)}
  IN IF differ = {} THEN 0 ELSE IF At(t, Min(differ)) < At(u, Min(differ)) THEN -1 ELSE 1
Fold(t) == [i \in DOMAIN t |-> tolower(t[i])]

Disjoint(A, B) == A \cap B = {}

MovesAll(m) ==
  \A d, s \in Cells(m) : \A n \in 0..3 :
    Range0(d, n) \cup Range0(s, n) \subseteq Cells(m) =>
      LET moved == [i \in 1..n |-> m[s + i - 1]]
      IN /\ memmove(m, d, s, n) = With(m, d, moved)
         /\ wmemmove(m, d, s, n) = With(m, d, moved)
         /\ Disjoint(Range0(d, n), Range0(s, n)) =>
              /\ wmemcpy(m, d, s, n) = With(m, d, moved)
              /\ \A c \in {NUL, 65} :
                   LET stop == Least({i \in 1..n : moved[i] = c})
                   IN memccpy(m, d, s, c, n) =
                        IF stop = NULL THEN [m |-> With(m, d, moved), r |-> NULL]
                        ELSE [m |-> With(m, d, Prefix(moved, stop)), r |-> d + stop]
         /\ memcmp(m, d, s, n) = wmemcmp(m, s, d, n) * (-1)
         /\ memcmp(m, d, s, n) = 0 <=> \A i \in 0 .. n - 1 : m[d + i] = m[s + i]
         /\ memchr(m, s, 65, n) = Least({q \in Range0(s, n) : m[q] = 65})

CopiesTexts(m) ==
  \A d, s \in Cells(m) :
    LET t == Text(m, s)
        joined == Text(m, d) \o t
    IN /\ /\ Disjoint(Range0(d, Len(t) + 1), Occupied(m, s))
          /\ Range0(d, Len(t) + 1) \subseteq Cells(m)
          => wcscpy(m, d, s) = With(m, d, Terminated(t))
       /\ /\ Disjoint(Range0(d, Len(joined) + 1), Occupied(m, s))
          /\ Range0(d, Len(joined) + 1) \subseteq Cells(m)
          => /\ wcscat(m, d, s) = With(m, d, Terminated(joined))
             /\ \A n \in 0..3 :
                  wcsncat(m, d, s, n) = With(m, d, Terminated(Text(m, d) \o Prefix(t, n)))
       /\ \A n \in 0..3 :
            /\ Disjoint(Range0(d, n), Occupied(m, s))
            /\ Range0(d, n) \subseteq Cells(m)
            => /\ wcsncpy(m, d, s, n) =
                    With(m, d, [i \in 1..n |-> At(t, i)])
               /\ strxfrm(m, d, s, n) = wcsxfrm(m, d, s, n)
               /\ strxfrm(m, d, s, n) = With(m, d, Prefix(Terminated(t), n))

ComparesTexts(m) ==
  \A l, r \in Cells(m) :
    /\ wcscmp(m, l, r) = Compare(Text(m, l), Text(m, r))
    /\ stricmp(m, l, r) = Compare(Fold(Text(m, l)), Fold(Text(m, r)))
    /\ \A n \in 0..3 :
         /\ wcsncmp(m, l, r, n) = Compare(Prefix(Text(m, l), n), Prefix(Text(m, r), n))
         /\ strnicmp(m, l, r, n) =
              Compare(Fold(Prefix(Text(m, l), n)), Fold(Prefix(Text(m, r), n)))
    /\ strnicmp(m, l, NULL, 0) = 0 /\ memicmp(m, l, NULL, 1) = "_NLSCMPERROR"

FindsFirst(m) ==
  \A p, k \in Cells(m) :
    LET here == Occupied(m, p)
        listed == ToSet(Text(m, k))
        begins == {q \in here : Prefix(Text(m, q), Length(m, k)) = Text(m, k)}
    IN /\ strchr(m, p, m[k]) = Least({q \in here : m[q] = m[k]})
       /\ wcsrchr(m, p, m[k]) = Greatest({q \in here : m[q] = m[k]})
       /\ strpbrk(m, p, k) = Least({q \in here : m[q] \in listed})
       /\ p + wcsspn(m, p, k) = Min({q \in here : m[q] \notin listed})
       /\ p + wcscspn(m, p, k) = Min({q \in here : m[q] \in listed \cup {NUL}})
       /\ strstr(m, p, k) = Least(begins)
       /\ wcsstr(m, p, k) = Least(begins)

Rewrites(m) ==
  \A p \in Cells(m) :
    /\ strrev(m, p) = With(m, p, Reverse(Text(m, p)))
    /\ strlwr(m, p) = With(m, p, Fold(Text(m, p)))
    /\ Fold(Text(strupr(m, p), p)) = Fold(Text(m, p))
    /\ strset(m, p, 65) = With(m, p, [i \in 1 .. Length(m, p) |-> 65])
    /\ \A n \in 0..3 :
         LET copy == Prefix(Text(m, p), n)
         IN Range0(0, Len(copy) + 1) \subseteq Cells(m) /\ p > Len(copy) =>
              strndup(m, p, n, 0) =
                [m |-> With(m, 0, Terminated(copy)), r |-> 0, errno |-> "unchanged"]
    /\ strdup(m, p, NULL).errno = ENOMEM /\ strdup(m, NULL, p).errno = EINVAL

(* Every copying, comparing, searching and rewriting function.             *)
StringsCorrect(m) ==
  MovesAll(m) /\ CopiesTexts(m) /\ ComparesTexts(m) /\ FindsFirst(m) /\ Rewrites(m)

-----------------------------------------------------------------------------
(* Tokens: the string lies at 0, its delimiters at k.  Repeated calls give *)
(* the maximal runs of other units in order, then NULL for ever.           *)
RECURSIVE Calls(_, _, _, _, _)
Calls(wide, m, saved, k, string) ==
  LET call == IF wide THEN wcstok(m, saved, string, k) ELSE strtok(m, saved, string, k)
  IN IF call.r = NULL THEN <<>>
     ELSE <<Text(call.m, call.r)>> \o Calls(wide, call.m, call.saved, k, NULL)

RECURSIVE Runs(_, _)
Runs(t, delimiters) ==
  LET starts == {i \in DOMAIN t : t[i] \notin delimiters}
      first == Min(starts)
      ends == {i \in first .. Len(t) : t[i] \in delimiters} \cup {Len(t) + 1}
  IN IF starts = {} THEN <<>>
     ELSE <<SubSeq(t, first, Min(ends) - 1)>> \o
          Runs(SubSeq(t, Min(ends), Len(t)), delimiters)

TokensCorrect(m) ==
  \A k \in Cells(m) : k > Length(m, 0) =>
    \A wide \in BOOLEAN :
      Calls(wide, m, NULL, k, 0) = Runs(Text(m, 0), ToSet(Text(m, k)))

-----------------------------------------------------------------------------
(* A bounded copy changes nothing outside its destination, leaves a text   *)
(* there that is the whole source, a prefix of it (STRUNCATE, or a count)  *)
(* or empty, and succeeds exactly when the result fits.                    *)
Fits(m, d, size, out, old, t, n) ==
  LET wanted == Append(old \o Prefix(t, n), NUL)
  IN IF Len(wanted) <= size THEN out = [m |-> With(m, d, wanted), r |-> 0]
     ELSE out = [m |-> With(m, d, <<NUL>>), r |-> ERANGE]

BoundedCorrect(m) ==
  /\ \A d, s \in Cells(m), size \in 1..4 :
       /\ Disjoint(Range0(d, size), Occupied(m, s))
       /\ Range0(d, size) \subseteq Cells(m)
       => LET t == Text(m, s)
              cut == strncpy_s(m, d, size, s, Truncate)
              used == Min({size} \cup {i \in 0 .. size - 1 : m[d + i] = NUL})
          IN /\ Fits(m, d, size, strcpy_s(m, d, size, s), <<>>, t, Len(t))
             /\ \A n \in 0..3 : Fits(m, d, size, strncpy_s(m, d, size, s, n), <<>>, t, n)
             /\ cut.m = With(m, d, Append(Prefix(t, size - 1), NUL))
             /\ cut.r = IF Len(t) < size THEN 0 ELSE STRUNCATE
             /\ IF used = size THEN strcat_s(m, d, size, s) = [m |-> m, r |-> EINVAL]
                ELSE Fits(m, d, size, strcat_s(m, d, size, s), Text(m, d), t, Len(t))
  /\ \A d \in Cells(m) :
       /\ strcpy_s(m, d, 1, NULL) = [m |-> With(m, d, <<NUL>>), r |-> EINVAL]
       /\ strncpy_s(m, d, 0, d, 1) = [m |-> m, r |-> ERANGE]
       /\ strcat_s(m, NULL, 1, d) = [m |-> m, r |-> EINVAL]
=============================================================================
