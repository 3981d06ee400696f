--------------------------- MODULE CommandStreams ---------------------------
(***************************************************************************)
(* popen and pclose (src/platform/windows/popen.c): a table of streams and *)
(* the processes behind them, which no lock protects.  A command c has a   *)
(* pipe of two ends, a process and a thread, all handles of the caller's   *)
(* process: <<"parent", c>>, <<"child", c>>, <<"process", c>> and          *)
(* <<"thread", c>>.  A new process inherits every handle that is           *)
(* inheritable at that moment, those of other threads included.            *)
(***************************************************************************)
EXTENDS Integers, FiniteSets, FiniteSetsExt

CONSTANTS
  Threads,
  Commands,      \* at most so many commands at a time
  Streams,       \* FILE objects popen may be given by the stream table
  Slots,         \* 0 .. FOPEN_MAX - 1
  Alone,         \* the program runs one popen or pclose at a time
  NULL

CommandStreamsAssumption ==
  /\ Slots \subseteq Nat /\ IsFiniteSet(Slots) /\ Alone \in BOOLEAN
  /\ NULL \notin Streams \cup Commands

VARIABLES
  entries,       \* the table
  handles,       \* what the caller's process has open
  inheritable,   \* the handles of it a new process is given
  inherited,     \* command -> the handles its running process was given, or NULL
  stream,        \* open stream -> the command it leads to
  given,         \* streams the program has been given and has not closed
  thread,        \* where each thread is in popen or pclose
  answers        \* thread -> its last pclose: the command asked for, the command whose
                 \* exit code was returned or NULL if the call failed, and whether a
                 \* native call of it failed
vars == <<entries, handles, inheritable, inherited, stream, given, thread, answers>>

Idle == [at |-> "idle", command |-> NULL, slot |-> NULL, stream |-> NULL]
Free == [stream |-> NULL, command |-> NULL]
Ends(c) == {<<"parent", c>>, <<"child", c>>}
CloseHandles(closed) == handles' = handles \ closed /\ inheritable' = inheritable \ closed

Init ==
  /\ entries = [slot \in Slots |-> Free]
  /\ handles = {} /\ inheritable = {}
  /\ inherited = [c \in Commands |-> NULL]
  /\ stream = [s \in Streams |-> NULL]
  /\ given = {}
  /\ thread = [t \in Threads |-> Idle]
  /\ answers = [t \in Threads |-> [asked |-> NULL, got |-> NULL, failed |-> FALSE]]

At(t, place) == thread[t].at = place
Goto(t, place) == thread' = [thread EXCEPT ![t].at = place]
Fails(t) == thread' = [thread EXCEPT ![t] = Idle]
MayCall(t) == At(t, "idle") /\ (Alone => \A u \in Threads : At(u, "idle"))
Unused(c) ==
  /\ inherited[c] = NULL
  /\ \A t \in Threads : thread[t].command # c
  /\ \A k \in {"parent", "child", "process", "thread"} : <<k, c>> \notin handles

(* A full table is EMFILE, and changes nothing.                            *)
Choose(t) ==
  /\ MayCall(t)
  /\ \E c \in Commands :
       LET free == {slot \in Slots : entries[slot].stream = NULL}
       IN /\ Unused(c) /\ free # {}
          /\ thread' = [thread EXCEPT ![t] = [at |-> "pipe", command |-> c, slot |-> Min(free),
                                              stream |-> NULL]]
  /\ UNCHANGED <<entries, handles, inheritable, inherited, stream, given, answers>>

CreatePipe(t) ==
  /\ At(t, "pipe")
  /\ \/ /\ handles' = handles \cup Ends(thread[t].command)
        /\ inheritable' = inheritable \cup Ends(thread[t].command)
        /\ Goto(t, "seal")
     \/ Fails(t) /\ UNCHANGED <<handles, inheritable>>
  /\ UNCHANGED <<entries, inherited, stream, given, answers>>

(* Mutation of SetHandleInformation: the child's end is sealed.            *)
SealTheChild(t) ==
  /\ At(t, "seal")
  /\ \/ inheritable' = inheritable \ {<<"child", thread[t].command>>} /\ handles' = handles /\ Goto(t, "start")
     \/ CloseHandles(Ends(thread[t].command)) /\ Fails(t)
  /\ UNCHANGED <<entries, inherited, stream, given, answers>>

SetHandleInformation(t) ==
  /\ At(t, "seal")
  /\ \/ inheritable' = inheritable \ {<<"parent", thread[t].command>>} /\ handles' = handles /\ Goto(t, "start")
     \/ CloseHandles(Ends(thread[t].command)) /\ Fails(t)
  /\ UNCHANGED <<entries, inherited, stream, given, answers>>

CreateProcess(t) ==
  LET c == thread[t].command
  IN /\ At(t, "start")
     /\ \/ /\ inherited' = [inherited EXCEPT ![c] = inheritable]
           /\ handles' = handles \cup {<<"process", c>>, <<"thread", c>>}
           /\ Goto(t, "adopt") /\ UNCHANGED inheritable
        \/ CloseHandles(Ends(c)) /\ Fails(t) /\ UNCHANGED inherited
     /\ UNCHANGED <<entries, stream, given, answers>>

(* __wcrt_adopt_file_handle claims a stream, under the lock of the stream  *)
(* table, or fails.                                                        *)
Adopt(t) ==
  LET c == thread[t].command
      started == {<<"thread", c>>, <<"child", c>>}
  IN /\ At(t, "adopt")
     /\ \/ \E s \in Streams :
             /\ stream[s] = NULL
             /\ stream' = [stream EXCEPT ![s] = c]
             /\ CloseHandles(started)
             /\ thread' = [thread EXCEPT ![t].at = "record", ![t].stream = s]
        \/ CloseHandles(started \cup {<<"parent", c>>, <<"process", c>>}) /\ Fails(t) /\ UNCHANGED stream
     /\ UNCHANGED <<entries, inherited, given, answers>>

Record(t) ==
  LET s == thread[t].stream
  IN /\ At(t, "record")
     /\ entries' = [entries EXCEPT ![thread[t].slot] = [stream |-> s, command |-> thread[t].command]]
     /\ given' = given \cup {s}
     /\ Fails(t)
     /\ UNCHANGED <<handles, inheritable, inherited, stream, answers>>

-----------------------------------------------------------------------------
(* The program closes a stream it has, once.                               *)
Find(t) ==
  /\ MayCall(t)
  /\ \E s \in given :
       LET places == {slot \in Slots : entries[slot].stream = s}
       IN /\ given' = given \ {s}
          /\ IF places = {}
             THEN /\ answers' = [answers EXCEPT ![t] = [asked |-> stream[s], got |-> NULL, failed |-> FALSE]]
                  /\ UNCHANGED thread
             ELSE /\ thread' = [thread EXCEPT ![t] = [at |-> "close", command |-> stream[s],
                                                      slot |-> Min(places), stream |-> s]]
                  /\ UNCHANGED answers
  /\ UNCHANGED <<entries, handles, inheritable, inherited, stream>>

(* fclose closes the caller's end of the pipe and gives the FILE back.     *)
Fclose(t) ==
  /\ At(t, "close")
  /\ CloseHandles({<<"parent", stream[thread[t].stream]>>})
  /\ stream' = [stream EXCEPT ![thread[t].stream] = NULL]
  /\ Goto(t, "wait")
  /\ UNCHANGED <<entries, inherited, given, answers>>

(* The process is read from the entry again.  When fclose, the wait, the   *)
(* query of the exit code or the last CloseHandle has failed the call      *)
(* fails, and a wait that fails has not waited; the entry and the process  *)
(* are given up all the same.  A handle is gone once CloseHandle has been  *)
(* called for it, whatever that returns.                                   *)
Wait(t) ==
  LET c == entries[thread[t].slot].command
      Answer(got, failed) ==
        answers' = [answers EXCEPT ![t] = [asked |-> thread[t].command, got |-> got, failed |-> failed]]
  IN /\ At(t, "wait")
     /\ \/ /\ c # NULL => inherited[c] = NULL
           /\ Answer(IF <<"process", c>> \in handles THEN c ELSE NULL, FALSE)
        \/ Answer(NULL, TRUE)
     /\ CloseHandles({<<"process", c>>})
     /\ Goto(t, "clear")
     /\ UNCHANGED <<entries, inherited, stream, given>>

Clear(t) ==
  /\ At(t, "clear")
  /\ entries' = [entries EXCEPT ![thread[t].slot] = Free]
  /\ Fails(t)
  /\ UNCHANGED <<handles, inheritable, inherited, stream, given, answers>>

(* A command ends.                                                         *)
Exit(c) ==
  /\ inherited[c] # NULL
  /\ inherited' = [inherited EXCEPT ![c] = NULL]
  /\ UNCHANGED <<entries, handles, inheritable, stream, given, thread, answers>>

Step(t) ==
  \/ Choose(t) \/ CreatePipe(t) \/ SetHandleInformation(t) \/ CreateProcess(t) \/ Adopt(t) \/ Record(t)
  \/ Find(t) \/ Fclose(t) \/ Wait(t) \/ Clear(t)
Next == (\E t \in Threads : Step(t)) \/ (\E c \in Commands : Exit(c))
Spec == Init /\ [][Next]_vars

-----------------------------------------------------------------------------
Running == {c \in Commands : inherited[c] # NULL}
Quiet == \A t \in Threads : At(t, "idle")

(* Between calls the table, the streams and the handles agree, whatever    *)
(* has failed before: the streams the program has are those of the table,  *)
(* each once and with its own command, and the process holds for each its  *)
(* end of the pipe and the process.  At no time does a command hold an end *)
(* of another one's pipe: the end of file would not arrive while that      *)
(* other command runs.                                                     *)
CommandsOwned ==
  /\ Quiet =>
       /\ \A s \in given : \E slot \in Slots :
            entries[slot] = [stream |-> s, command |-> stream[s]]
       /\ Cardinality({slot \in Slots : entries[slot] # Free}) = Cardinality(given)
       /\ given = {s \in Streams : stream[s] # NULL}
       /\ handles = {<<"parent", stream[s]>> : s \in given} \cup {<<"process", stream[s]>> : s \in given}
  /\ \A c \in Running : inherited[c] = {<<"child", c>>}

(* "pclose shall close the stream, wait for its child, release the process *)
(* handle, and return the command exit code"                               *)
(* (docs/req-0070-command-streams.md:26): a pclose returns the exit code   *)
(* of the command the stream led to, unless a native call of it failed,    *)
(* and then it returns -1 and no other command's code.                     *)
CommandsAnswered ==
  \A t \in Threads :
    answers[t].got = IF answers[t].failed THEN NULL ELSE answers[t].asked
=============================================================================
