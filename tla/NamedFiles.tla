----------------------------- MODULE NamedFiles -----------------------------
(***************************************************************************)
(* Files and directories by name: opening with flags, modes, sharing and   *)
(* permissions, temporary files, duplicates, removal and renaming          *)
(* (src/platform/windows/file.c, src/stdio.c, src/ms_umask.c,              *)
(* src/ms_creat.c), status and times (src/platform/windows/stat.c,         *)
(* utime.c, posix_files.c, src/ms_stat32.c) and directories                *)
(* (src/platform/windows/directory.c).                                     *)
(*                                                                         *)
(* An operation takes the state m and gives [m, r, errno]: the state after *)
(* it, its result and the error it set, or "0".  Sizes and times are small *)
(* numbers: MAX32 is the last of a signed 32-bit field, MAX64 the last a   *)
(* 64-bit time may be set to.                                              *)
(***************************************************************************)
EXTENDS Integers, FiniteSets, FiniteSetsExt

CONSTANTS
  Names, Parent,     \* Parent[n]: the directory n is in, or Root
  Root,
  Slots,             \* of the stream table
  MaxCalls,          \* a bound on the calls made
  NULL

(* The names the actions below use are there, slots are numbers, and NULL  *)
(* is neither a name, nor what stands under one, nor times, nor a status.  *)
NamedFilesAssumption ==
  /\ {"f", "t", "d", "x"} \subseteq Names /\ IsFiniteSet(Names)
  /\ Parent \in [Names -> Names \cup {Root}] /\ Parent["t"] = Root
  /\ Slots \subseteq Nat
  /\ NULL \notin Names
  /\ NULL \notin [serial : Nat, kind : {"file", "directory"}, readonly : BOOLEAN,
                  size : Nat, access_time : Int, write_time : Int]
  /\ NULL \notin [access : Int, write : Int]
  /\ NULL \notin [kind : {"file", "directory"}, writable : BOOLEAN,
                  size : Nat, access_time : Int, write_time : Int]

VARIABLE m

MAX32 == 1
MAX64 == 2
Rights == {"read", "write"}

(* What stands under a name, told from others by its number (the smallest  *)
(* unused); and a stream.                                                  *)
File(serial, kind) ==
  [serial |-> serial, kind |-> kind, readonly |-> FALSE, size |-> 0, access_time |-> 1, write_time |-> 1]
Serial(s) == Min({i \in 1..Cardinality(Names) + 1 :
                    \A n \in Names : s.files[n] # NULL => s.files[n].serial # i})
Closed(path) == [serial |-> 0, access |-> {}, share |-> {}, append |-> FALSE, delete |-> path]
Open(stream) == stream.serial # 0

Done(s, r) == [m |-> s, r |-> r, errno |-> "0"]
Fails(s, errno) == [m |-> s, r |-> -1, errno |-> errno]

-----------------------------------------------------------------------------
(* Windows.  A stream's share is what others may do to its file meanwhile; *)
(* the library never lets others delete it.  CreateFile gives 1 for a file *)
(* it made and 0 for one it found.                                         *)
OpenOn(s, path) == {i \in Slots : s.files[path] # NULL /\ s.slots[i].serial = s.files[path].serial}
Reachable(s, path) == Parent[path] = Root \/
                      (s.files[Parent[path]] # NULL /\ s.files[Parent[path]].kind = "directory")
Shared(s, path, access, share) ==
  \A i \in OpenOn(s, path) : access \subseteq s.slots[i].share /\ s.slots[i].access \subseteq share

Creates == {"CREATE_NEW", "CREATE_ALWAYS", "OPEN_ALWAYS"}
Empties == {"CREATE_ALWAYS", "TRUNCATE_EXISTING"}
CreateFileA(s, path, access, share, creation) ==
  LET file == s.files[path]
      made == [s EXCEPT !.files[path] = File(Serial(s), "file")]
      needed == IF creation \in Empties THEN access \cup {"write"} ELSE access
  IN IF creation = "TRUNCATE_EXISTING" /\ "write" \notin access THEN Fails(s, "EIO")
     ELSE IF ~Reachable(s, path) THEN Fails(s, "ENOENT")
     ELSE IF file = NULL THEN IF creation \in Creates THEN Done(made, 1) ELSE Fails(s, "ENOENT")
     ELSE IF creation = "CREATE_NEW" THEN Fails(s, "EEXIST")
     ELSE IF \/ file.kind = "directory" \/ (file.readonly /\ "write" \in needed)
             \/ ~Shared(s, path, needed, share)
          THEN Fails(s, "EACCES")
     ELSE Done([s EXCEPT !.files[path].size = IF creation \in Empties THEN 0 ELSE @], 0)

-----------------------------------------------------------------------------
(* Deny modes, the default translation (EINVAL if it is neither text nor   *)
(* binary) and the creation mask.                                          *)
wcrt_file_sharing == [DENYRW |-> {}, DENYWR |-> {"read"}, DENYRD |-> {"write"}, DENYNO |-> Rights]
wcrt_default_translation(s) == s.fmode # "invalid"
_umask(s, permissions) == Done([s EXCEPT !.mask = permissions \cap Rights], s.mask)

(* Mutation of Taken: the delete_path of the slot is not cleared.          *)
TakenKeeping(s, slot, path, access, share, append) ==
  [s EXCEPT !.slots[slot] = [serial |-> s.files[path].serial, access |-> access, share |-> share,
                             append |-> append, delete |-> @.delete]]

Taken(s, slot, path, access, share, append) ==
  [s EXCEPT !.slots[slot] = [serial |-> s.files[path].serial, access |-> access, share |-> share,
                             append |-> append, delete |-> NULL]]
Free(s) == {i \in Slots : ~Open(s.slots[i])}

(* _fsopen, fopen and freopen, in a slot of the table: translation is "b", *)
(* "t" or the default.                                                     *)
__wcrt_file_open_shared(s, slot, path, letter, update, translation, sharing) ==
  LET access == IF update THEN Rights ELSE IF letter = "r" THEN {"read"} ELSE {"write"}
      creation == [r |-> "OPEN_EXISTING", w |-> "CREATE_ALWAYS", a |-> "OPEN_ALWAYS"][letter]
      created == CreateFileA(s, path, access, wcrt_file_sharing[sharing], creation)
  IN IF \/ sharing \notin DOMAIN wcrt_file_sharing \/ letter \notin {"r", "w", "a"}
        \/ translation = "default" /\ ~wcrt_default_translation(s)
     THEN Fails(s, "EINVAL")
     ELSE IF created.r = -1 THEN Fails(s, created.errno)
     ELSE Done(Taken(created.m, slot, path, access, wcrt_file_sharing[sharing], letter = "a"), slot)
_fsopen(s, path, letter, update, translation, sharing) ==
  IF Free(s) = {} THEN Fails(s, "EMFILE")
  ELSE __wcrt_file_open_shared(s, Min(Free(s)), path, letter, update, translation, sharing)

fopen(s, path, letter, update, translation) ==
  IF Free(s) = {} THEN Fails(s, "EMFILE")
  ELSE __wcrt_file_open_shared(s, Min(Free(s)), path, letter, update, translation, "DENYNO")

(* _sopen: flags is a set of _O_ names; permissions counts only with       *)
(* _O_CREAT.  A file made without the permission to write gets its         *)
(* attribute after it was made, and stays if that fails.                   *)
Access(flags) == IF "RDWR" \in flags THEN Rights ELSE IF "WRONLY" \in flags THEN {"write"} ELSE {"read"}
(* Mutation of Creation: _O_TRUNC is tested before _O_EXCL.                *)
CreationTruncFirst(flags) ==
  IF "CREAT" \in flags
  THEN IF "TRUNC" \in flags THEN "CREATE_ALWAYS" ELSE IF "EXCL" \in flags THEN "CREATE_NEW" ELSE "OPEN_ALWAYS"
  ELSE IF "TRUNC" \in flags THEN "TRUNCATE_EXISTING" ELSE "OPEN_EXISTING"

Creation(flags) ==
  IF "CREAT" \in flags
  THEN IF "EXCL" \in flags THEN "CREATE_NEW" ELSE IF "TRUNC" \in flags THEN "CREATE_ALWAYS" ELSE "OPEN_ALWAYS"
  ELSE IF "TRUNC" \in flags THEN "TRUNCATE_EXISTING" ELSE "OPEN_EXISTING"
Supported == {"WRONLY", "RDWR", "APPEND", "CREAT", "TRUNC", "EXCL", "TEXT", "BINARY"}
_sopen(s, path, flags, sharing, permissions, attributes) ==
  LET created == CreateFileA(s, path, Access(flags), wcrt_file_sharing[sharing], Creation(flags))
      readonly == "CREAT" \in flags /\ "write" \notin permissions \ s.mask /\ created.r = 1
      marked == IF readonly THEN [created.m EXCEPT !.files[path].readonly = TRUE] ELSE created.m
  IN IF Free(s) = {} THEN Fails(s, "EMFILE")
     ELSE IF \/ ~(flags \subseteq Supported) \/ {"WRONLY", "RDWR"} \subseteq flags
             \/ {"TEXT", "BINARY"} \subseteq flags
             \/ "CREAT" \in flags /\ ~(permissions \subseteq Rights)
          THEN Fails(s, "EINVAL")
     ELSE IF sharing \notin DOMAIN wcrt_file_sharing THEN Fails(s, "EINVAL")
     ELSE IF flags \cap {"TEXT", "BINARY"} = {} /\ ~wcrt_default_translation(s) THEN Fails(s, "EINVAL")
     ELSE IF created.r = -1 THEN Fails(s, created.errno)
     ELSE IF readonly /\ ~attributes THEN Fails(created.m, "EACCES")
     ELSE Done(Taken(marked, Min(Free(s)), path, Access(flags), wcrt_file_sharing[sharing], "APPEND" \in flags),
               Min(Free(s)))
_open(s, path, flags) == _sopen(s, path, flags, "DENYNO", Rights, TRUE)
_creat(s, path, permissions, attributes) ==
  _sopen(s, path, {"CREAT", "TRUNC", "RDWR"}, "DENYNO", permissions, attributes)

(* A handle with no rights, for a directory stream.                        *)
__wcrt_open_directory_descriptor(s, path) ==
  IF Free(s) = {} THEN Fails(s, "EMFILE")
  ELSE IF ~Reachable(s, path) \/ s.files[path] = NULL THEN Fails(s, "ENOENT")
  ELSE Done(Taken(s, Min(Free(s)), path, {}, Rights, FALSE), Min(Free(s)))

-----------------------------------------------------------------------------
(* Removing needs the file to itself, and writable.                        *)
DeleteFileA(s, path) ==
  LET file == s.files[path]
  IN IF file = NULL \/ ~Reachable(s, path) THEN Fails(s, "ENOENT")
     ELSE IF file.kind = "directory" \/ file.readonly \/ OpenOn(s, path) # {} THEN Fails(s, "EACCES")
     ELSE Done([s EXCEPT !.files[path] = NULL], 0)
remove(s, path) == DeleteFileA(s, path)
(* MoveFile, of a file: leaves an existing target alone, and errno as it   *)
(* was.                                                                    *)
rename(s, from, to) ==
  IF \/ s.files[from] = NULL \/ s.files[to] # NULL
     \/ ~Reachable(s, to) \/ OpenOn(s, from) # {}
  THEN Fails(s, "0")
  ELSE Done([s EXCEPT !.files[to] = s.files[from], !.files[from] = NULL], 0)

(* A temporary file is a name that was free, written to and remembered in  *)
(* the stream, which deletes it when it is closed.                         *)
tmpfile(s, path) ==
  LET named == CreateFileA(s, path, Rights, Rights, "CREATE_NEW")
      o == fopen(named.m, path, "w", TRUE, "b")
  IN IF named.r = -1 THEN Fails(s, "0")
     ELSE IF o.r = -1 THEN Fails(remove(named.m, path).m, o.errno)
     ELSE Done([o.m EXCEPT !.slots[o.r].delete = path], o.r)

(* Closing deletes the remembered file and keeps the name.                 *)
__wcrt_file_close(s, slot) ==
  LET path == s.slots[slot].delete
      closed == [s EXCEPT !.slots[slot] = Closed(path)]
  IN IF path = NULL THEN closed ELSE DeleteFileA(closed, path).m
fclose(s, slot) == Done(__wcrt_file_close(s, slot), 0)
freopen(s, slot, path, letter, update) ==
  __wcrt_file_open_shared(__wcrt_file_close(s, slot), slot, path, letter, update, "default", "DENYNO")

(* The copy takes the rights and closes what the target slot had.          *)
_dup2(s, from, to) ==
  IF ~Open(s.slots[from]) THEN Fails(s, "EBADF")
  ELSE IF from = to THEN Done(s, 0)
  ELSE Done([__wcrt_file_close(s, to) EXCEPT !.slots[to] = [s.slots[from] EXCEPT !.delete = NULL]], 0)
_dup(s, from) ==
  IF ~Open(s.slots[from]) THEN Fails(s, "EBADF")
  ELSE IF Free(s) = {} THEN Fails(s, "EMFILE")
  ELSE [_dup2(s, from, Min(Free(s))) EXCEPT !.r = Min(Free(s))]

-----------------------------------------------------------------------------
(* Status.  A record is Zero until every field of it fits.                 *)
Zero == [kind |-> "zero", writable |-> FALSE, size |-> 0, access_time |-> 0, write_time |-> 0]
__wcrt_status_path(s, path) ==
  LET file == s.files[path]
  IN IF file = NULL \/ ~Reachable(s, path) THEN NULL
     ELSE [kind |-> file.kind, writable |-> ~file.readonly, size |-> file.size,
           access_time |-> file.access_time, write_time |-> file.write_time]
_stat64(s, path) ==
  LET status == __wcrt_status_path(s, path)
  IN IF status = NULL THEN Fails(Zero, "ENOENT") ELSE Done(status, 0)
stat(s, path) == _stat64(s, path)
wcrt_stat32_copy(status) ==
  IF status.size > MAX32 \/ status.access_time > MAX32 \/ status.write_time > MAX32
  THEN Fails(Zero, "ERANGE") ELSE Done(status, 0)
wcrt_stat32(s, path) ==
  LET status == __wcrt_status_path(s, path)
  IN IF status = NULL THEN Fails(Zero, "ENOENT") ELSE wcrt_stat32_copy(status)

_access(s, path, mode) ==
  LET status == _stat64(s, path)
  IN IF ~(mode \subseteq Rights) THEN Fails(s, "EINVAL")
     ELSE IF status.r = -1 THEN Fails(s, status.errno)
     ELSE IF "write" \in mode /\ ~status.m.writable THEN Fails(s, "EACCES")
     ELSE Done(s, 0)
_chmod(s, path, mode) ==
  IF s.files[path] = NULL \/ ~Reachable(s, path) THEN Fails(s, "ENOENT")
  ELSE Done([s EXCEPT !.files[path].readonly = "write" \notin mode], 0)

(* times is [access, write], or NULL for the present.                      *)
wcrt_time_values(times, now, maximum) ==
  LET taken == IF times = NULL THEN [access |-> now, write |-> now] ELSE times
  IN IF \A t \in {taken.access, taken.write} : t \in 0..maximum THEN taken ELSE NULL
wcrt_set_times(s, path, times, now, maximum) ==
  LET file == s.files[path]
      values == wcrt_time_values(times, now, maximum)
  IN IF file = NULL \/ ~Reachable(s, path) THEN Fails(s, "ENOENT")
     ELSE IF file.kind = "directory" \/ file.readonly THEN Fails(s, "EACCES")
     ELSE IF values = NULL THEN Fails(s, "EINVAL")
     ELSE Done([s EXCEPT !.files[path].access_time = values.access, !.files[path].write_time = values.write], 0)
wcrt_set_descriptor_times(s, slot, times, now, maximum) ==
  LET path == CHOOSE n \in Names : slot \in OpenOn(s, n)
      values == wcrt_time_values(times, now, maximum)
  IN IF ~Open(s.slots[slot]) THEN Fails(s, "EBADF")
     ELSE IF s.files[path].kind = "directory" \/ values = NULL THEN Fails(s, "EINVAL")
     ELSE IF "write" \notin s.slots[slot].access THEN Fails(s, "EACCES")
     ELSE Done([s EXCEPT !.files[path].access_time = values.access, !.files[path].write_time = values.write], 0)

-----------------------------------------------------------------------------
(* Directories.  A directory in use cannot be removed, and the library     *)
(* does not try to remove the current one or a root.                       *)
Children(s, path) == {n \in Names : Parent[n] = path /\ s.files[n] # NULL}
_mkdir(s, path) ==
  IF ~Reachable(s, path) THEN Fails(s, "ENOENT")
  ELSE IF s.files[path] # NULL THEN Fails(s, "EEXIST")
  ELSE Done([s EXCEPT !.files[path] = File(Serial(s), "directory")], 0)
_chdir(s, path) ==
  IF path # Root /\ (~Reachable(s, path) \/ s.files[path] = NULL) THEN Fails(s, "ENOENT")
  ELSE IF path # Root /\ s.files[path].kind = "file" THEN Fails(s, "ENOENT")
  ELSE Done([s EXCEPT !.current = path], 0)
wcrt_directory_protected(s, path) == path \in {Root, s.current}
_rmdir(s, path) ==
  IF wcrt_directory_protected(s, path) THEN Fails(s, "ENOTEMPTY")
  ELSE IF ~Reachable(s, path) \/ s.files[path] = NULL THEN Fails(s, "ENOENT")
  ELSE IF s.files[path].kind = "file" \/ Children(s, path) # {} THEN Fails(s, "ENOTEMPTY")
  ELSE IF s.files[path].readonly \/ OpenOn(s, path) # {} THEN Fails(s, "EACCES")
  ELSE Done([s EXCEPT !.files[path] = NULL], 0)

-----------------------------------------------------------------------------
Init ==
  \E case \in {"plain", "readonly", "large", "untranslated"} :
    LET number == IF case = "large" THEN 2 ELSE 1
        f == [serial |-> 1, kind |-> "file", readonly |-> case = "readonly",
              size |-> number, access_time |-> 1, write_time |-> number]
    IN m = [files |-> [n \in Names |-> IF n = "f" THEN f ELSE NULL], slots |-> [i \in Slots |-> Closed(NULL)],
            mask |-> {}, fmode |-> IF case = "untranslated" THEN "invalid" ELSE "text",
            current |-> Root, calls |-> 0]

Becomes(o) == m.calls < MaxCalls /\ o.m # m /\ m' = [o.m EXCEPT !.calls = @ + 1]
Used == {i \in Slots : Open(m.slots[i])}

OpenStream == \E path \in {"f", "x"}, letter \in {"r", "w"}, sharing \in {"DENYNO", "DENYWR"} :
                Becomes(_fsopen(m, path, letter, FALSE, "b", sharing))
OpenDescriptor == \E path \in {"f", "x"}, permissions \in {{}, Rights}, attributes \in BOOLEAN :
                    Becomes(_creat(m, path, permissions, attributes))
OpenDirectory == Becomes(__wcrt_open_directory_descriptor(m, "d"))
Temporary == m.files["t"] = NULL /\ Becomes(tmpfile(m, "t"))
Close == \E i \in Used : Becomes(fclose(m, i))
Reopen == \E i \in Used, letter \in {"r", "w"} : Becomes(freopen(m, i, "f", letter, TRUE))
Duplicate == \E i \in Used : Becomes(_dup(m, i)) \/ \E j \in Slots : Becomes(_dup2(m, i, j))
Remove == \E path \in Names : Becomes(remove(m, path))
Rename == \E from, to \in {"f", "t", "x"} : Becomes(rename(m, from, to))
Mark == \E mode \in {{}, Rights} : Becomes(_chmod(m, "f", mode))
Mask == \E permissions \in {{}, {"write"}} : Becomes(_umask(m, permissions))
MakeDirectory == Becomes(_mkdir(m, "d"))
ChangeDirectory == \E path \in {"d", Root} : Becomes(_chdir(m, path))
RemoveDirectory == Becomes(_rmdir(m, "d"))

Next ==
  \/ OpenStream \/ OpenDescriptor \/ OpenDirectory \/ Temporary \/ Close \/ Reopen \/ Duplicate
  \/ Remove \/ Rename \/ Mark \/ Mask
  \/ MakeDirectory \/ ChangeDirectory \/ RemoveDirectory
Spec == Init /\ [][Next]_m

-----------------------------------------------------------------------------
(* docs/req-0083 and req-0101: opening creates, empties or finds what the  *)
(* flags say, with the rights asked for; a new file is read-only exactly   *)
(* when the permissions less the mask leave it so, an existing one keeps   *)
(* its attributes; a refused call leaves every file and stream as it was,  *)
(* except that a file whose attribute could not be set stays behind.       *)
Flags == {access \cup others : access \in {{}, {"WRONLY"}, {"RDWR"}, {"WRONLY", "RDWR"}},
                               others \in SUBSET {"CREAT", "TRUNC", "EXCL"}}
OpenedOrUntouched ==
  \A path \in {"f", "x"}, flags \in Flags, sharing \in {"DENYWR", "bad"},
     permissions \in {{}, {"write"}}, attributes \in BOOLEAN :
    LET o == _sopen(m, path, flags, sharing, permissions, attributes)
        before == m.files[path]
        after == o.m.files[path]
    IN IF o.r = -1
       THEN /\ o.errno # "0"
            /\ o.m # m => /\ before = NULL /\ o.errno = "EACCES" /\ ~attributes
                          /\ o.m = [m EXCEPT !.files[path] = after]
       ELSE /\ after # NULL /\ o.r \notin Used
            /\ o.m.slots = [m.slots EXCEPT ![o.r] = o.m.slots[o.r]]
            /\ o.r \in OpenOn(o.m, path) /\ o.m.slots[o.r].delete = NULL
            /\ {"CREAT", "EXCL"} \subseteq flags => before = NULL
            /\ "CREAT" \notin flags => before # NULL
            /\ after.size = IF before = NULL \/ "TRUNC" \in flags THEN 0 ELSE before.size
            /\ after.readonly = IF before = NULL THEN "write" \notin permissions \/ "write" \in m.mask
                                ELSE before.readonly
            /\ "write" \in o.m.slots[o.r].access => before = NULL \/ ~before.readonly
            /\ \A n \in Names \ {path} : o.m.files[n] = m.files[n]

(* What a stream has open stays there under its name until it is closed,   *)
(* and its rights never conflict with those of the others.  Closing it     *)
(* removes a file only if tmpfile made it for this stream; and does, if    *)
(* nothing else has it open.  Duplicating into a slot removes no other     *)
(* file than what closing it would, unless a temporary stream was closed   *)
(* there before: its name is still in the slot.                            *)
StreamsKeepTheirFiles ==
  /\ \A i \in Used :
       /\ \E n \in Names : i \in OpenOn(m, n)
       /\ LET path == m.slots[i].delete
              after == fclose(m, i).m.files
              own == {n \in Names : n = path /\ i \in OpenOn(m, n)}
          IN /\ path # NULL => own = {path}
             /\ \A n \in Names : after[n] = IF n \in own /\ OpenOn(m, n) = {i} /\ ~m.files[n].readonly
                                            THEN NULL ELSE m.files[n]
             /\ \A j \in Slots \ {i} : Open(m.slots[j]) \/ m.slots[j].delete = NULL =>
                  \A n \in Names : _dup2(m, i, j).m.files[n] # m.files[n] => j \in OpenOn(m, n)
  /\ \A n \in Names : \A i, j \in OpenOn(m, n) :
       i # j /\ m.slots[i] # m.slots[j] => m.slots[i].access \subseteq m.slots[j].share

(* What _stat64 and _access tell is what the operations then find: times   *)
(* set, by name or through a descriptor, are times told, the narrow record *)
(* is the wide one or nothing at all, a file said to be writable can be    *)
(* opened for writing if nobody has it open, and the current directory is  *)
(* there.                                                                  *)
StatusTold ==
  /\ \A path \in {"f", "x"}, access, write \in -1..MAX64 + 1, maximum \in {MAX32, MAX64} :
       LET o == wcrt_set_times(m, path, [access |-> access, write |-> write], 1, maximum)
           told == _stat64(o.m, path).m
       IN IF o.r = 0
          THEN /\ told = [_stat64(m, path).m EXCEPT !.access_time = access, !.write_time = write]
               /\ {access, write} \subseteq 0..maximum
          ELSE o.m = m
  /\ \A path \in Names : \A i \in OpenOn(m, path), t \in -1..MAX64 + 1 :
       LET times == [access |-> t, write |-> t]
           o == wcrt_set_descriptor_times(m, i, times, 1, MAX64)
           named == wcrt_set_times(m, path, times, 1, MAX64)
       IN /\ named.r = 0 /\ "write" \in m.slots[i].access => o = named
          /\ o.r = 0 => t \in 0..MAX64 /\ "write" \in m.slots[i].access
  /\ \A path \in Names :
       LET wide == _stat64(m, path)
           narrow == wcrt_stat32(m, path)
       IN /\ narrow.m \in {wide.m, Zero} /\ (narrow.r = -1 => narrow.m = Zero)
          /\ narrow.errno = "ERANGE" => wide.r = 0
          /\ (_access(m, path, {}).r = 0) = (wide.r = 0)
          /\ wide.m.kind = "file" /\ OpenOn(m, path) = {} /\ Free(m) # {} =>
               (_access(m, path, {"write"}).r = 0)
                 = (_sopen(m, path, {"RDWR", "BINARY"}, "DENYRW", {}, TRUE).r # -1)
  /\ m.current # Root => _stat64(m, m.current).m.kind = "directory"
  /\ \A path \in Names : _rmdir(m, path).r = 0 =>
       m.files[path].kind = "directory" /\ Children(m, path) = {} /\ path # m.current
=============================================================================
