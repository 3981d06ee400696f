---------------------------- MODULE Directories ----------------------------
(***************************************************************************)
(* Directory streams (src/platform/windows/dirent.c): opendir, readdir,    *)
(* rewinddir, telldir, seekdir, closedir and scandir over a Windows        *)
(* search, which lists the directory as it was when the search began.      *)
(*                                                                         *)
(* dir is the caller's stream or NULL; its search is NULL when the last    *)
(* one could not be begun, and otherwise the listing and the place in it.  *)
(* held counts what the library has obtained and not given back: blocks of *)
(* memory, descriptors and searches.                                       *)
(***************************************************************************)
EXTENDS Integers, Sequences, FiniteSets, SequencesExt

CONSTANTS
  Names,         \* the names that may stand in the directory
  Listings,      \* the contents the directory may have
  Rank,          \* the order alphasort puts names in
  NULL           \* no stream, no search, no entry, no array

VARIABLES entries, dir, held, errno
vars == <<entries, dir, held, errno>>

Gone == <<"gone">>           \* the directory has been removed
Nothing == [memory |-> 0, descriptor |-> 0, search |-> 0]
Plus(h, memory, descriptor, search) ==
  [memory |-> h.memory + memory, descriptor |-> h.descriptor + descriptor, search |-> h.search + search]

(* A search has an entry at least, "." or what was asked for by name, and  *)
(* NULL is no entry, array, search or stream.                              *)
DirectoriesAssumption ==
  /\ Rank \in [Names -> Int]
  /\ \A list \in Listings : list = Gone \/ (list \in Seq(Names) /\ list # <<>>)
  /\ NULL \notin Names /\ NULL \notin Seq(Names)
  /\ NULL \notin [list : Listings, at : Nat]
  /\ NULL \notin [search : [list : Listings, at : Nat] \cup {NULL}, pending : BOOLEAN, position : Nat]

(* A call that fails in Windows or in the C library: what fails and, when  *)
(* it can be one of several, at which entry.                               *)
Fault(kind) == <<kind, 0>>
None == Fault("none")

(* What the calls below work on, and give back with a result r.            *)
State == [dir |-> dir, held |-> held, errno |-> errno]
Fresh == [search |-> NULL, pending |-> FALSE, position |-> 0]

(* FindFirstFileA lists the directory, or fails as fault says.             *)
wcrt_dirent_begin(s, fault) ==
  LET ended == [s.dir EXCEPT !.search = NULL, !.pending = FALSE]
      begun == [search |-> [list |-> entries, at |-> 1], pending |-> TRUE, position |-> 0]
  IN IF entries = Gone THEN [dir |-> ended, held |-> s.held, errno |-> "ENOENT"]
     ELSE IF fault = Fault("search") THEN [dir |-> ended, held |-> s.held, errno |-> "EIO"]
     ELSE [dir |-> begun, held |-> Plus(s.held, 0, 0, 1), errno |-> s.errno]
Begun(s) == s.dir.search # NULL

opendir(s, fault) ==
  LET begun == wcrt_dirent_begin([dir |-> Fresh, held |-> Plus(s.held, 1, 1, 0), errno |-> s.errno], fault)
  IN IF fault = Fault("memory") THEN [dir |-> NULL, held |-> s.held, errno |-> "ENOMEM"]
     ELSE IF fault = Fault("descriptor")   \* the block is freed again
          THEN [dir |-> NULL, held |-> s.held, errno |-> "EMFILE"]
     ELSE IF Begun(begun) THEN begun
     ELSE [dir |-> NULL, held |-> Plus(begun.held, -1, -1, 0), errno |-> begun.errno]

(* The next entry, or NULL; at the end errno stays.                        *)
readdir(s, fault) ==
  LET search == s.dir.search
      at == IF s.dir.pending THEN search.at ELSE search.at + 1
  IN IF s.dir = NULL \/ ~Begun(s) THEN [s |-> [s EXCEPT !.errno = "EINVAL"], r |-> NULL]
     ELSE IF ~s.dir.pending /\ fault = Fault("next") THEN [s |-> [s EXCEPT !.errno = "EIO"], r |-> NULL]
     ELSE IF at > Len(search.list) THEN [s |-> s, r |-> NULL]
     ELSE [s |-> [s EXCEPT !.dir = [search |-> [list |-> search.list, at |-> at], pending |-> FALSE,
                                    position |-> @.position + 1]],
           r |-> search.list[at]]

rewinddir(s, fault) ==
  IF s.dir = NULL THEN [s EXCEPT !.errno = "EINVAL"]
  ELSE wcrt_dirent_begin(IF Begun(s) THEN [s EXCEPT !.held = Plus(@, 0, 0, -1)] ELSE s, fault)

telldir(s) == IF s.dir = NULL \/ ~Begun(s) THEN -1 ELSE s.dir.position

(* A turn of seekdir's loop.  Once the directory has ended, more turns     *)
(* fail as the first did.                                                  *)
Skip(s, position) ==
  LET o == readdir([s EXCEPT !.errno = "0"], None)
  IN IF s.dir.position >= position THEN s
     ELSE IF o.r # NULL THEN o.s
     ELSE [o.s EXCEPT !.errno = IF @ = "0" THEN "EINVAL" ELSE @]
Skipped(s, position, turns) ==
  LET after[n \in Nat] == IF n = 0 THEN s ELSE Skip(after[n - 1], position)
  IN after[turns]

seekdir(s, position, fault) ==
  LET again == rewinddir(s, fault)
  IN IF s.dir = NULL \/ position < 0 THEN [s EXCEPT !.errno = "EINVAL"]
     ELSE IF ~Begun(again) THEN again
     ELSE Skipped(again, position, position)

(* Nothing is given back of a stream whose search could not be begun again.*)
closedir(s, fault) ==
  IF s.dir = NULL \/ ~Begun(s) THEN [s |-> [s EXCEPT !.errno = "EINVAL"], r |-> -1]
  ELSE [s |-> [dir |-> NULL, held |-> Plus(s.held, -1, -1, -1),
               errno |-> IF fault = Fault("search") THEN "EIO"
                         ELSE IF fault = Fault("descriptor") THEN "EBADF" ELSE s.errno],
        r |-> IF fault \in {Fault("search"), Fault("descriptor")} THEN -1 ELSE 0]

(* scandir keeps a copy of every entry the filter keeps, in an array that  *)
(* grows, and gives all of it back if anything fails.  A fault is at the   *)
(* nth entry: reading on, growing the array or obtaining the copy.         *)
Collect(c, keep, fault) ==
  LET at == c.s.dir.position + 1
      o == readdir([c.s EXCEPT !.errno = "0"], IF fault = <<"next", at>> THEN Fault("next") ELSE None)
      grown == [o.s EXCEPT !.held = Plus(@, 1 - c.array, 0, 0)]
  IN IF c.over THEN c
     ELSE IF o.r = NULL THEN [c EXCEPT !.s = o.s, !.over = TRUE, !.failed = o.s.errno # "0"]
     ELSE IF o.r \notin keep THEN [c EXCEPT !.s = o.s]
     ELSE IF fault = <<"array", at>>
          THEN [c EXCEPT !.s = [o.s EXCEPT !.errno = "ENOMEM"], !.over = TRUE, !.failed = TRUE]
     ELSE IF fault = <<"copy", at>>
          THEN [c EXCEPT !.s = [grown EXCEPT !.errno = "ENOMEM"], !.array = 1, !.over = TRUE, !.failed = TRUE]
     ELSE [c EXCEPT !.s = [grown EXCEPT !.held = Plus(@, 1, 0, 0)], !.array = 1, !.copies = Append(@, o.r)]
Collected(s, keep, fault, turns) ==
  LET after[n \in Nat] ==
        IF n = 0 THEN [s |-> s, copies |-> <<>>, array |-> 0, over |-> FALSE, failed |-> FALSE]
        ELSE Collect(after[n - 1], keep, fault)
  IN after[turns]

(* Mutation of wcrt_scandir_free: the array itself is kept.                *)
ScandirFreeCopies(c) == Plus(c.s.held, -Len(c.copies), 0, 0)

wcrt_scandir_free(c) == Plus(c.s.held, -(Len(c.copies) + c.array), 0, 0)

(* Sorting by insertion: a name goes before all those at the end that      *)
(* alphasort puts after it.                                                *)
Inserted(sorted, name) ==
  LET last == CHOOSE p \in 0..Len(sorted) :
                /\ \A i \in p + 1..Len(sorted) : Rank[name] < Rank[sorted[i]]
                /\ p # 0 => Rank[sorted[p]] <= Rank[name]
  IN InsertAt(sorted, last + 1, name)
alphasorted(copies) ==
  LET after[n \in 0..Len(copies)] == IF n = 0 THEN <<>> ELSE Inserted(after[n - 1], copies[n])
  IN after[Len(copies)]

(* The order is left as it was when there is nothing to compare with.      *)
scandir(s, keep, sort, fault) ==
  LET opened == opendir([s EXCEPT !.dir = NULL], fault)
      c == Collected(opened, keep, fault, Len(opened.dir.search.list) + 1)
      closed == closedir(c.s, IF fault = Fault("closing") THEN Fault("search") ELSE None)
      failed == c.failed \/ closed.r = -1
      freed == [closed.s EXCEPT !.held = wcrt_scandir_free([c EXCEPT !.s = closed.s])]
  IN IF opened.dir = NULL THEN [s |-> [opened EXCEPT !.dir = s.dir], r |-> NULL]
     ELSE [s |-> [(IF failed THEN freed ELSE closed.s) EXCEPT !.dir = s.dir],
           r |-> IF failed THEN NULL ELSE IF sort THEN alphasorted(c.copies) ELSE c.copies]

-----------------------------------------------------------------------------
Becomes(s) == dir' = s.dir /\ held' = s.held /\ errno' = s.errno /\ UNCHANGED entries
Faults(kinds) == {Fault(k) : k \in kinds \cup {"none"}}

(* The places in a directory.                                              *)
Positions == UNION {1..Len(list) : list \in Listings}
ScanFaults == Faults({"memory", "descriptor", "search", "closing"}) \cup ({"next", "array", "copy"} \X Positions)

Init == entries \in Listings /\ dir = NULL /\ held = Nothing /\ errno = "0"
Open == dir = NULL /\ \E fault \in Faults({"memory", "descriptor", "search"}) : Becomes(opendir(State, fault))
Read == \E fault \in Faults({"next"}) : Becomes(readdir(State, fault).s)
Rewind == \E fault \in Faults({"search"}) : Becomes(rewinddir(State, fault))
Seek == \E position \in Positions \cup {-1, 0}, fault \in Faults({"search"}) : Becomes(seekdir(State, position, fault))
Close == \E fault \in Faults({"search", "descriptor"}) : Becomes(closedir(State, fault).s)
Scan == \E keep \in SUBSET Names, sort \in BOOLEAN, fault \in ScanFaults :
          LET o == scandir(State, keep, sort, fault)   \* the caller frees what it is given
          IN Becomes([o.s EXCEPT !.held = held])
(* Somebody else adds, removes or renames files, or removes the directory. *)
Change == entries' \in Listings /\ UNCHANGED <<dir, held, errno>>

Next == Open \/ Read \/ Rewind \/ Seek \/ Close \/ Scan \/ Change
Spec == Init /\ [][Next]_vars

-----------------------------------------------------------------------------
(* Whatever fails, what the library holds is what the caller's stream      *)
(* needs: one block, one descriptor and, if it was begun, one search; and  *)
(* scandir gives an array with a copy of each entry, or nothing at all.  A *)
(* stream whose search could not be begun again counts as the caller's     *)
(* still, and its block and descriptor stay, since closedir refuses it     *)
(* (CloseReleases).                                                        *)
LeavesNothing(o) ==
  /\ o.s.held = Plus(held, IF o.r \in {NULL, <<>>} THEN 0 ELSE Len(o.r) + 1, 0, 0)
  /\ o.s.dir = dir
  /\ o.r = NULL => o.s.errno # "0"
NothingLeaks ==
  /\ held = IF dir = NULL THEN Nothing
            ELSE [memory |-> 1, descriptor |-> 1, search |-> IF dir.search = NULL THEN 0 ELSE 1]
  /\ \A fault \in ScanFaults : LeavesNothing(scandir(State, Names, TRUE, fault))

(* kept are the entries that keep has, in their order, and sorted are the  *)
(* same in alphasort's.                                                    *)
Kept(kept, sorted, keep) ==
  LET places == {i \in 1..Len(entries) : entries[i] \in keep}
  IN /\ Len(kept) = Cardinality(places)
     /\ \A i \in places : kept[Cardinality({j \in places : j <= i})] = entries[i]
     /\ ToSet(sorted) = ToSet(kept) /\ Len(sorted) = Len(kept)
     /\ \A i \in 1..Len(sorted) - 1 : Rank[sorted[i]] <= Rank[sorted[i + 1]]

(* readdir goes through the listing its search began with, entry by entry; *)
(* a position from telldir leads back to the entry it was taken at as long *)
(* as the directory has not changed; the end is not an error; scandir      *)
(* gives the entries kept, each once and in order.                         *)
DirectoryInOrder ==
  /\ dir # NULL /\ dir.search # NULL =>
       LET o == readdir(State, None)
           list == dir.search.list
           there == seekdir(seekdir(State, 0, None), telldir(State), None)
       IN /\ telldir(State) = IF dir.pending THEN 0 ELSE dir.search.at
          /\ o.r = IF telldir(State) = Len(list) THEN NULL ELSE list[telldir(State) + 1]
          /\ o.r = NULL => o.s.errno = errno
          /\ entries = list => readdir(there, None).r = o.r
          /\ entries # Gone => readdir(rewinddir(State, None), None).r = Head(entries)
  /\ entries # Gone => \A keep \in SUBSET Names :
       Kept(scandir(State, keep, FALSE, None).r, scandir(State, keep, TRUE, None).r, keep)

(* "closedir shall release both the Windows search handle and WCRT         *)
(* storage" (docs/req-0052-posix-dirent.md:30): whatever it returns, and   *)
(* whatever state a failed rewinddir or seekdir has left the stream in.    *)
CloseReleases ==
  dir # NULL => \A fault \in Faults({"search", "descriptor"}) : closedir(State, fault).s.held = Nothing
=============================================================================
