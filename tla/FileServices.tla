---------------------------- MODULE FileServices ----------------------------
(***************************************************************************)
(* What a program does with files by name (NamedFiles), searches           *)
(* (Searches), directory streams (Directories), commands (CommandStreams)  *)
(* and record locks (RecordLocks).                                         *)
(* A behaviour is about one of them, and the variables of the others stay  *)
(* at Rest.                                                                *)
(***************************************************************************)
EXTENDS Integers, Sequences

CONSTANTS
  Names, Parent, Root, FileSlots, MaxCalls,        \* of NamedFiles
  SearchHandles, Foreign, Directory, Unterminated, \* of Searches
  EntryNames, Listings, Rank,                      \* of Directories
  Threads, Commands, Streams, Slots, Alone,        \* of CommandStreams
  LockHandles, Regions, Attempts,                  \* of RecordLocks
  NULL, Rest

VARIABLES
  about,
  named,
  wcrt_searches, native, record, errno, told,
  directory, dir, owned, failure,
  entries, handles, inheritable, inherited, stream, given, thread, answers,
  held, pc, call, attempt, answer, waits

svars == <<wcrt_searches, native, record, errno, told>>
dvars == <<directory, dir, owned, failure>>
cvars == <<entries, handles, inheritable, inherited, stream, given, thread, answers>>
lvars == <<held, pc, call, attempt, answer, waits>>
fvars == <<named, svars, dvars, cvars, lvars>>

N == INSTANCE NamedFiles WITH m <- named, Slots <- FileSlots
S == INSTANCE Searches WITH Handles <- SearchHandles
D == INSTANCE Directories WITH Names <- EntryNames, entries <- directory, held <- owned, errno <- failure
C == INSTANCE CommandStreams
L == INSTANCE RecordLocks WITH Handles <- LockHandles

ASSUME FilesAssumption ==
  /\ N!NamedFilesAssumption /\ S!SearchesAssumption
  /\ D!DirectoriesAssumption /\ C!CommandStreamsAssumption /\ L!RecordLocksAssumption

-----------------------------------------------------------------------------
FileInit ==
  /\ IF about = "names" THEN N!Init ELSE named = Rest
  /\ IF about = "search" THEN S!Init
     ELSE wcrt_searches = Rest /\ native = Rest /\ record = Rest /\ errno = Rest /\ told = Rest
  /\ IF about = "directory" THEN D!Init
     ELSE directory = Rest /\ dir = Rest /\ owned = Rest /\ failure = Rest
  /\ IF about = "command" THEN C!Init
     ELSE /\ entries = Rest /\ handles = Rest /\ inheritable = Rest /\ inherited = Rest
          /\ stream = Rest /\ given = Rest /\ thread = Rest /\ answers = Rest
  /\ IF about = "lock" THEN L!Init
     ELSE held = Rest /\ pc = Rest /\ call = Rest /\ attempt = Rest /\ answer = Rest /\ waits = Rest

FileNext ==
  /\ UNCHANGED about
  /\ \/ about = "names" /\ N!Next /\ UNCHANGED <<svars, dvars, cvars, lvars>>
     \/ about = "search" /\ S!Next /\ UNCHANGED <<named, dvars, cvars, lvars>>
     \/ about = "directory" /\ D!Next /\ UNCHANGED <<named, svars, cvars, lvars>>
     \/ about = "command" /\ C!Next /\ UNCHANGED <<named, svars, dvars, lvars>>
     \/ about = "lock" /\ L!Next /\ UNCHANGED <<named, svars, dvars, cvars>>

FileSpec == FileInit /\ [][FileNext]_<<about, fvars>>

-----------------------------------------------------------------------------
(* Opening by name does what its flags say or nothing, and what the status *)
(* calls tell is what opening, removing and setting times then find        *)
(* (src/platform/windows/file.c:137-305, stat.c, utime.c, directory.c).    *)
NamesTold == about = "names" => N!OpenedOrUntouched /\ N!StatusTold

(* What a stream has open stays until it is closed, and closing removes no *)
(* file but the stream's own temporary one (src/platform/windows/          *)
(* file.c:355-371).                                                        *)
StreamsKeepTheirFiles == about = "names" => N!StreamsKeepTheirFiles

(* A directory is delivered in order, each entry once; a call leaves       *)
(* nothing behind it, even when it fails half way, but for the block and   *)
(* the descriptor of a stream that could not be rewound; searches belong   *)
(* to the program until it closes them, and deliver every entry that fits  *)
(* the record (src/platform/windows/dirent.c, src/ms_find32.c).            *)
DirectoriesRead ==
  /\ about = "directory" => D!NothingLeaks /\ D!DirectoryInOrder
  /\ about = "search" => S!SearchesOwned

(* Closing a directory stream releases it, even after a rewinddir that     *)
(* failed (docs/req-0052-posix-dirent.md:29-30).                           *)
DirectoryReleased == about = "directory" => D!CloseReleases

(* Each stream popen gave leads to its own command, whose exit code pclose *)
(* returns (src/platform/windows/popen.c).                                 *)
CommandsAnswered == about = "command" => C!CommandsOwned /\ C!CommandsAnswered

(* A lock is had exactly when _locking says so, after no more attempts and *)
(* waits than promised (src/ms_locking.c:60-74).                           *)
LockAnswered == about = "lock" => L!LockAnswered
=============================================================================
