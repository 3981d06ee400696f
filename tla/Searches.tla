------------------------------ MODULE Searches ------------------------------
(***************************************************************************)
(* The Microsoft directory searches with narrow records                    *)
(* (src/ms_find32.c): findfirst, findnext and findclose with 32-bit and    *)
(* with 64-bit sizes, over the list of the searches it has begun.  Windows *)
(* has a search open for each handle of native: the entries still to come. *)
(* An entry is its size ("small", "large" from 2^32, "huge" with the sign  *)
(* bit), its times ("none", "near", "far" beyond 32 bits) and its name, or *)
(* Unterminated.                                                           *)
(***************************************************************************)
EXTENDS Integers, Sequences, FiniteSets, SequencesExt

CONSTANTS
  Handles,       \* handles Windows may give
  Foreign,       \* a handle of a search the program began without the library
  Directory,     \* what a search lists
  Unterminated, NULL

(* There is an entry, and NULL is neither an entry nor what is left of the *)
(* directory.                                                              *)
SearchesAssumption ==
  /\ Foreign \in Handles
  /\ Directory \in Seq(ToSet(Directory)) /\ Directory # <<>>
  /\ NULL \notin ToSet(Directory)
  /\ \A k \in 1..Len(Directory) + 1 : SubSeq(Directory, k, Len(Directory)) # NULL

VARIABLES
  wcrt_searches, \* handles, the newest first
  native,        \* handle -> entries to come, or NULL
  record,        \* the caller's record: a name and a size, Zero, or Before
  errno,
  told           \* per handle, what its calls have delivered since it was begun
vars == <<wcrt_searches, native, record, errno, told>>

Zero == [name |-> "none", size |-> "zero", time |-> 0]
Before == [name |-> "before", size |-> "before", time |-> 0]
Pairs == {"narrow", "wide"}

(* A conversion commits a whole record or none: the error, or "0".         *)
wcrt_find_time(time) == IF time = "none" THEN -1 ELSE 1
wcrt_find_error(entry, kind) ==
  IF entry.size = "huge" \/ (entry.size = "large" /\ kind = "narrow") \/ entry.time = "far" THEN "ERANGE"
  ELSE IF entry.name = Unterminated THEN "EINVAL" ELSE "0"
wcrt_find_record(entry) == [name |-> entry.name, size |-> entry.size, time |-> wcrt_find_time(entry.time)]

Init ==
  /\ wcrt_searches = <<>>
  /\ native = [h \in Handles |-> IF h = Foreign THEN Directory ELSE NULL]
  /\ record = Before /\ errno = "0"
  /\ told = [h \in Handles |-> <<>>]

(* Where a call leaves: record and errno, and what is open.                *)
Returns(r, error) == record' = r /\ errno' = error
Keeps == UNCHANGED <<wcrt_searches, native, told>>

(* The program clears errno and prepares its record before it looks.       *)
wcrt_start_search(kind) ==
  \/ Returns(Zero, "EINVAL") /\ Keeps                          \* no specification
  \/ Returns(Zero, "ENOENT") /\ Keeps                          \* nothing found
  \/ \E h \in Handles : native[h] = NULL /\
       LET error == wcrt_find_error(Head(Directory), kind)
       IN IF error # "0" THEN Returns(Zero, error) /\ Keeps     \* begun and closed again
          ELSE \/ Returns(Zero, "ENOMEM") /\ Keeps
               \/ /\ Returns(wcrt_find_record(Head(Directory)), "0")
                  /\ wcrt_searches' = <<h>> \o wcrt_searches
                  /\ native' = [native EXCEPT ![h] = Tail(Directory)]
                  /\ told' = [told EXCEPT ![h] = <<Head(Directory)>>]

wcrt_search_slot(handle) == {i \in 1..Len(wcrt_searches) : wcrt_searches[i] = handle}

wcrt_next_search(handle, kind) ==
  IF wcrt_search_slot(handle) = {} THEN Returns(Before, "EINVAL") /\ Keeps
  ELSE IF native[handle] = <<>> THEN Returns(Before, "ENOENT") /\ Keeps
  ELSE LET entry == Head(native[handle])
           error == wcrt_find_error(entry, kind)
       IN /\ Returns(IF error = "0" THEN wcrt_find_record(entry) ELSE Before, error)
          /\ native' = [native EXCEPT ![handle] = Tail(@)]
          /\ told' = [told EXCEPT ![handle] = Append(@, IF error = "0" THEN entry ELSE NULL)]
          /\ UNCHANGED wcrt_searches

(* FindClose may fail; then the search stays the caller's.                 *)
wcrt_findclose(handle) ==
  \/ Returns(Before, "EINVAL") /\ Keeps
  \/ /\ wcrt_search_slot(handle) # {}
     /\ Returns(Before, "0")
     /\ \E i \in wcrt_search_slot(handle) : wcrt_searches' = RemoveAt(wcrt_searches, i)
     /\ native' = [native EXCEPT ![handle] = NULL]
     /\ told' = [told EXCEPT ![handle] = <<>>]

Next ==
  \/ \E kind \in Pairs : wcrt_start_search(kind)
  \/ \E handle \in Handles, kind \in Pairs : wcrt_next_search(handle, kind)
  \/ \E handle \in Handles : wcrt_findclose(handle)
Spec == Init /\ [][Next]_vars

-----------------------------------------------------------------------------
(* The searches Windows has open are those of the list and the program's   *)
(* own, which no call can touch; each search delivers the directory entry  *)
(* by entry, passing over those that do not fit the record; and a call     *)
(* that fails leaves the record cleared (the first of a search) or as it   *)
(* was, never half of an entry (docs/req-0096-vc6-find32.md:14-32).        *)
SearchesOwned ==
  /\ {h \in Handles : native[h] # NULL} = ToSet(wcrt_searches) \cup {Foreign}
  /\ IsInjective(wcrt_searches) /\ native[Foreign] = Directory
  /\ \A i \in 1..Len(wcrt_searches) :
       LET h == wcrt_searches[i]
       IN /\ Len(told[h]) + Len(native[h]) = Len(Directory)
          /\ \A k \in 1..Len(told[h]) :
               IF told[h][k] = NULL THEN wcrt_find_error(Directory[k], "narrow") # "0"
               ELSE told[h][k] = Directory[k] /\ wcrt_find_error(Directory[k], "wide") = "0"
  /\ IF errno # "0" THEN record \in {Zero, Before}
     ELSE record # Before => \E h \in ToSet(wcrt_searches) :
            told[h] # <<>> /\ Last(told[h]) # NULL /\ record = wcrt_find_record(Last(told[h]))
=============================================================================
