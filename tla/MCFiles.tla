------------------------------- MODULE MCFiles -------------------------------
(***************************************************************************)
(* Instances for TLC of what a program does with files: the components of  *)
(* FileServices, and one stream (StreamIO).                                *)
(***************************************************************************)
EXTENDS FileServices, StreamIO, TLC

(* A file f, a name t for temporary files, and x in the directory d.       *)
FourNames == {"f", "t", "d", "x"}
FourParents == [n \in FourNames |-> IF n = "x" THEN "d" ELSE "root"]

(* Entries that fit a narrow record and entries that do not.               *)
SixEntries ==
  <<[name |-> "b", size |-> "large", time |-> "near"], [name |-> "a", size |-> "small", time |-> "none"],
    [name |-> "c", size |-> "huge", time |-> "near"], [name |-> "d", size |-> "small", time |-> "far"],
    [name |-> Unterminated, size |-> "small", time |-> "near"],
    [name |-> "e", size |-> "small", time |-> "near"]>>

(* A line end after a character, and one before.  A carriage return gets   *)
(* into a file with a line end, also without it, or stands there.          *)
TwoTexts == {<<"a", "LF">>, <<"LF", "a">>}
TwoFiles == {<<"CR", "CR">>, <<"a", "LF">>}

(* Up to two files that come and go, in an order that is not theirs.       *)
ThreeEntries == {".", "a", "b"}
FourListings == {<<".">>, <<".", "b", "a">>, <<".", "a">>, <<"gone">>}
ByName == [n \in ThreeEntries |-> IF n = "." THEN 0 ELSE IF n = "a" THEN 1 ELSE 2]

ASSUME StreamAssumption

-----------------------------------------------------------------------------
(* When a behaviour is about something else, the stream is one whose       *)
(* device has failed, and nobody calls it.                                 *)
MCInit ==
  /\ about \in {"stream", "names", "directory", "search", "command", "lock"}
  /\ FileInit
  /\ IF about = "stream" THEN Init ELSE m = [Opened(<<>>, "a", FALSE, TRUE) EXCEPT !.failing = TRUE]

MCNext ==
  \/ FileNext /\ UNCHANGED m
  \/ about = "stream" /\ Next /\ UNCHANGED <<about, fvars>>
MCSpec == MCInit /\ [][MCNext]_<<about, fvars, m>>
=============================================================================
