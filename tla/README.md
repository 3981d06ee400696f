# WCRT in TLA+

A verification development for WCRT, a C runtime for Windows 2000 and later
whose library is the 14 000 lines under `src/`. Paths here and in the modules
are those of the repository. The modules translate the C code; TLC checks them
on small instances, and TLAPS proves what matters most for every value of the
constants.

## What there is

| module | what it is |
| --- | --- |
| `Condition` | one condition variable as a value, and what wait, signal and broadcast do to it |
| `ConditionSpec` | the same as a state machine with atomic operations |
| `CondVar`, `CondVarProofs` | `pthread_cond_wait/signal/broadcast` step by step; that it implements `ConditionSpec`, and other theorems |
| `ThreadPool` | `src/thread_pool.c`, built on `Condition` |
| `PoolContract` | what the pool promises its callers; `ThreadPool` implements it |
| `ThreadPoolProofs` | theorems about `ThreadPool`: counters and lost work; shutdown, destruction and the contract |
| `FirstUse`, `Once` | the double-checked initialization of `lock.c` and `pthread.c`; `pthread_once` |
| `ServicesProofs` | theorems about these two and about a thread's life, as `MCServices` puts them together |
| `ThreadLifecycle`, `ThreadLifecycleProofs` | create, join, detach and exit of a thread and its control block; theorems about it |
| `ThreadKeys`, `ThreadKeysProofs` | thread-specific keys and the destructors of an ending thread; theorems about them |
| `StreamTable`, `StreamTableProofs` | the dynamic stream table of `src/stdio.c` and the operations that claim and release its entries; theorems about it |
| `StreamIO`, `StreamIOProofs` | what happens to one stream and the file under it: `stdio.c`, `wchar_io.c`, `file.c`; theorems about it |
| `NamedFiles` | opening, status, times, names, permissions, temporary files, duplicates, directories made and removed |
| `Directories`, `Searches` | `dirent.c` with scandir; the `_findfirst` families of `ms_find32.c` |
| `CommandStreams` | `popen` and `pclose` step by step |
| `RecordLocks` | `_locking` and its retries |
| `FileServices` | `NamedFiles`, `Searches`, `Directories`, `CommandStreams` and `RecordLocks` as a program uses them |
| `FilesProofs` | theorems about these five, by way of `FileServices` |
| `Characters`, `Strings` | character classes; `string.c` and `wchar_string.c` over one memory |
| `MultibyteText`, `GeneralUtilities` | multibyte conversion; sorting, searching, process end, integers, sizes |
| `NumericText` | `strtol`, `strtod` and their relatives, and numbers back to text |
| `Formatting` | the narrow and the wide printf |
| `Scanning` | the narrow and the wide scanf |
| `Calendar` | `time.c`, `wchar_time.c` |
| `Arguments` | the program's command line, `getopt`, `getopt_long`, `_splitpath`, `_makepath` |
| `Patterns` | `fnmatch` |
| `Signals` | `signal` and `raise` |
| `Floats`, `FloatVariants` | the functions of `math.c` that work on the representation, in double and in float |
| `FloatEnvironment` | `fenv.c` on x86 and x64 |
| `MC...` | instances for TLC |

What the functions without state promise, written without their loops, is the
last part of their module.

| run | about |
| --- | --- |
| `thread_pool`, `thread_pool_live` | safety and refinement, and liveness, of the worker pool |
| `thread_pool_wait` | that a wait does not end with the work submitted before it |
| `services` | the condition variable, a thread's life, first use and once |
| `cond_var_unlocked` | what a broadcast without the mutex breaks |
| `thread_detach_early` | what a worker that detaches itself early breaks |
| `tables` | the stream table; thread-specific keys and their destructors |
| `stream_freed` | what a failed `_dup2` breaks |
| `files` | the components that have files under them, one program each |
| `directory_close` | what a failed `rewinddir` leaves behind |
| `commands_two_threads` | what two threads in `popen` and `pclose` break |
| `algorithms` | the functions without state against their references |

`thread_pool_wait`, `cond_var_unlocked`, `thread_detach_early`, `stream_freed`,
`directory_close` and `commands_two_threads` end in a violation, see Findings.
`thread_detach_early`, `stream_freed` and `commands_two_threads` check
`ThreadLifecycle`, `StreamTable` and `CommandStreams` themselves; the other
runs check an `MC` module.

## Inventory of the repository

WCRT has no kernel of its own: every function runs in its caller's thread, and
the state that outlives a call is in static variables, in `FILE` objects, in
the objects of `<pthread.h>` and in heap blocks handed to callers.

| component | state | operations | hard behaviours | what makes it correct |
| --- | --- | --- | --- | --- |
| worker pool (`thread_pool.c`) | list, two counters, four flags, mutex, two conditions | create, submit, wait, shutdown, destroy; the worker loop | lost wake-ups, overlapping shutdowns, partial create, starvation | accepted work runs, wait and shutdown return from a drained pool, workers joined once, nothing used after destroy |
| conditions and mutexes (`platform/windows/pthread.c`) | waiters, generation, semaphore, event, critical section | init, wait, signal, broadcast, destroy | stale tokens, stolen tokens, the last waiter's event | broadcast covers and releases all it found; a signal's token is never lost |
| thread lifecycle (same file) | control block with guard, reference count, claimed flag | create, join, detach, exit, self | join against detach, detach before the handle is stored | freed once and last, one winner |
| thread-specific keys (same file) | 64 entries, the kernel's slots | create, delete, set, the end of a thread | key reuse between read and use, full table | a destructor gets its own values, none is left |
| first use, once (same file and `platform/windows/lock.c`) | state words, one mutex for all first uses | acquire, release, ensure, `pthread_once` | first use by two threads, weakly ordered stores, refused mutex | built once and before use, exclusive |
| stream table (`stdio.c`) | claimed flag, handle and descriptor per entry | fopen, `_open`, freopen, fclose, `_close`, `_pipe`, `_dup`, `_dup2`, adopt | failure paths, named targets, two tables of truth (claimed flag, handle) | distinct entries, exact release, no handle lost |
| stream I/O (`stdio.c`, `wchar_io.c`, `platform/windows/file.c`) | flags, pushback, end of file, error, orientation, position | fgetc, ungetc, fread, fwrite, fseek, fgetpos, gets, `_read`, `_write`, `_chsize` | text-mode pairs, pushback against position | reads return what was written, positions restore |
| command streams (`platform/windows/popen.c`) | table of stream and process | popen, pclose | unlocked table, inherited handles | each process waited for once |
| formatted I/O (`stdio_format.c`, `stdio_scan.c`, `wchar_*`) | none between calls | the printf and scanf families | bounds, truncation, lookahead | equals the standard's definition; scanf reads back what printf wrote |
| general utilities (`stdlib.c`) | atexit table, seed, static buffers | strtol, qsort, bsearch, atexit, exit, getenv, system | overflow, re-entrancy | reference definitions |
| strings, characters, multibyte | strtok cursor | the string and wide-character families | overlap, bounds | reference definitions |
| calendar (`time.c`) | static `tm` and text | mktime, gmtime, localtime, strftime | normalisation, range | inverse of one another |
| directories (`platform/windows/dirent.c`, `directory.c`, `ms_find32.c`) | search handle, position, descriptor | opendir, readdir, rewinddir, seekdir, closedir, scandir | failure halfway, no release after a failed rewind | every handle released once |
| status, times, names, locking, mapping | none, or one static word | one Windows call each; `_locking` retries | range checks, retry | error mapping |
| getopt, fnmatch | static cursor; none | getopt, getopt_long; fnmatch | clusters, resets; backtracking | reference definitions |
| signals, setjmp, startup, CPU | handler table; registers; argv; one cached word | signal, raise; setjmp; main; cpu queries | reset before the handler | handler runs once per reset |
| mathematics, floating environment | the control and status registers of two units | the real and complex functions; the calls of `<fenv.h>` | rounding, ranges, units out of step | one rounding of the exact result, its errors told |

How they interact: the pool calls pthread mutexes, conditions, create and
join; command streams and directory streams claim entries of the stream table;
stream I/O, popen and dirent call the native layer of `file.c`; the internal
lock protects the stream table only. Errors travel through one process-wide
`errno`.

`PROJECT.json` lists the components with the state of each, and the hazards:
the places where this code could go wrong in a way a test would hardly reach.

## The condition variable

`pthread_cond_t` (lines 174-203 and 264-335 of `platform/windows/pthread.c`)
is a critical section, a semaphore that counts tokens, an auto-reset event,
and four fields. A waiter remembers the generation current when it registered.
A signal starts a new generation and posts one token after it has left the
section; a broadcast posts a token for each registered thread within the
section and then waits for the event, which the last counted waiter sets. A
waiter that takes a token in its own generation gives it back.

`CondVar` has one action for each stretch under the critical section, and one
for each step outside: releasing the mutex, taking a token, giving it back,
setting the event, posting, awaiting, getting the mutex back. Threads use the
mutex as callers do; `Unlocked` says which operations they call without it.
The history variable `awaited` remembers whom a signal or broadcast found
registered.

`Condition` folds this into a value: who is registered, who is eligible to
leave (saved generation not current), and how many tokens there are, those
included that a waiter or a signaller has in its hands. `ImplementsCondition`
shows that every step of `CondVar` is an atomic operation of `ConditionSpec`
or invisible, so `ThreadPool` may use the atomic ones. The instance keeps
clear of the semaphore's maximum: there a token that is being given back could
be refused, which the atomic view, where it never left, does not show. The
maximum itself is modelled in both modules: a signal is refused after the
generation has advanced, a broadcast returns `EINVAL`.

| run | instance | shows |
| --- | --- | --- |
| `services` | two waiters that wait twice, a signaller without the mutex, a thread that broadcasts or signals | `BroadcastCovers`: a broadcast does not return before everybody it found has left, although tokens and events of earlier calls are around. `ImplementsCondition`; under fairness `BroadcastReturns` |
| `cond_var_unlocked` | three waiters, a signaller, a broadcaster without the mutex | a violation of `BroadcastReleasesAll`, see Findings |

Two waiters with two waits each produce stale tokens, given-back tokens,
pending posts and consecutive broadcasts on one event; the third waiter of the
last run is the one that registers between a broadcast and a signal. In
`services` a behaviour is about the condition variable, about threads, about
first use or about once; the variables of the others do not move.

Fairness: `SF` on what a thread does inside a call, because Windows serves the
waiters of a semaphore and of a critical section in turn and the code loops
around both; `WF` on unlocking, because a caller does not keep a mutex it does
nothing with. No thread has to call anything.

Left out: initialization and destruction, which are in `FirstUse`; a failing
kernel wait (`EINVAL` at lines 279 and 330), and the wrap of the 32-bit
generation.

## First use, once

`FirstUse` is the pattern of `__wcrt_lock_acquire`, `wcrt_ensure_mutex` and
`wcrt_ensure_condition`: read the state word, take the mutex all first uses
share (a named kernel mutex that may be refused), read again, build, write
`READY`, release. The first read takes no lock, so the module says what it can
see: the builder's two writes wait in `pending` until they reach the other
threads, in order on x86 and x64 (`InOrder`), in any order on ARM64, and all of
them before the mutex is released. A condition has parts the kernel may refuse
(`Fallible`). Whoever destroys an object, or initializes it again, does so
while nobody uses it; the next use builds it anew. Three threads are enough to
have one that builds, one that waits for the mutex and one on the fast path.

`Once` has an action for each stretch of `pthread_once` under the same mutex;
the routine runs between two of them. A caller that finds the routine running
polls, which is no step.

Run `services` checks both over three threads. `InitializedOnce`: an object is
built exactly once, nobody enters a section still being built, an acquisition
that has succeeded once cannot fail later (`src/internal/lock.h:35`), and a
`pthread_once` routine runs once, before anybody is told 0. `CallsEnd`: under
fairness every first use returns, and every `pthread_once`, unless the lock was
refused after the routine.

Fairness is on what a call does when it can go on; a refusal is never
required, so no property is reached by failing. `SF` in `FirstUse`, where
mutex and section are taken and given up again and again; `WF` in `Once`,
where a step that is possible stays possible.

## A thread's life, its keys

The control block of a thread is shared by the worker and by the holder of its
identifier, two references, and is freed by the last. `ThreadLifecycle` keeps
apart what `pthread_create` does in sequence: the block, its guard, the thread
(which runs from here on), the store of the handle, and the identifier the
caller gets. Joins, detaches and the worker's own detach claim the thread under
the guard; the losers return `EINVAL`; the guard's sections are actions.

A call begins while the control block is there; an identifier used after the
block was freed names no thread, and that is all the model asks of a program.
Any number of joins and detaches may be under way, the worker may end at any
time, and whoever wins the claim may free the block while another has begun and
not yet looked at the guard. Such a call is overtaken: it locks a guard that is
gone (lines 384 and 401), and since nothing can be said of what it does then,
it goes `astray` and takes no further step. `TouchesLive` names it as its one
exception. `Early` says whether the worker may detach itself, or hand its
identifier to others, before the handle is stored.

`ThreadKeys` is the table of 64 keys over the kernel's slots, with creation
and deletion by some threads and the end of another: its passes over the table
read an entry under the lock and use it after. The lock may be refused every
time. A value carries the destructor of the key it was set under. `exempt` is
history: entries a pass need not have seen, because they are younger than the
pass or the lock was refused.

| run | instance | shows |
| --- | --- | --- |
| `services` | a creator and two others, `Early = {}` | `TypeOK`; `TouchesLive`: block and guard are there for everybody but an overtaken call; `OneWinner`, `JoinDelivers`, `ReleasedAtEnd`; under fairness `FreedAtLast`, a part of `CallsEnd` |
| `services` | the same, and the worker may act before the store | `EarlyClaims`: one winner, and a join that succeeds delivers the worker's value. A join on the null handle returns `EINVAL` and gives its claim back, see Findings |
| `thread_detach_early` | the worker detaches itself before the store | a violation of `TouchesLive`, see Findings |
| `tables` | a table of two, three kernel slots, two creators, one worker, two passes | `SlotsAccounted`, `DestructorGetsItsOwn`, `LeavesNothing` |

Three callers give a winner, a loser and one who comes late. A table smaller
than the kernel's, two entries and two passes are the least for which the
table fills up, a destructor sets a value behind the pass, and passes run out.

Fairness: `WF` on creation and on the steps of calls, none of which waits
behind others for ever; `SF` on the end of the routine, which callers who come
again and again to be refused could otherwise put off.

Left out: a thread that joins itself, which waits for its own end; the key for
`pthread_self`, a first use of one word; `pthread_equal`, which compares what
`pthread_self` returns, and for threads that `pthread_create` did not make that
is one pseudo handle for all of them.

## The worker pool

All fields of the pool are accessed under `pool->mutex` only. Hence a critical
section without a wait or broadcast in it is one action, enabled while the
mutex is free; a wait ends one action and begins another; a broadcast may keep
the mutex for several steps, since `pthread_cond_broadcast` blocks until the
waiters are gone. `pc` tells where a thread is, with the names of the tables
`Sleeping` and `Broadcasting` for the two blocking calls.

Actions and code: `Acquire`, `AcquireFails`, `StartWorker`, `StartWorkerFails`,
`Abandon`, `AbandonFree` are `wcrt_thread_pool_create` with each of its early
returns; `Take`, `Rest`, `Exit`, `Run`, `Finish` the worker's loop; `Submit`,
`WaitStep`, `ShutdownLead/Follow/Drain/Publish`, `JoinNext`, `Destroy` and
`DestroyFree` the calls; `Wake` and `BroadcastReturns` the inside of the
condition variables. Tasks may submit tasks. A client calls only a pool that
create has returned, and not after destroy has been called; a task neither
waits for its own pool nor shuts it down (`docs/req-0073-thread-pool.md:9`);
destroy is called when no other client is inside.

`status`, `owed` and `joins` are history: what became of a task, what a wait
must outlast, how often a worker was joined. `Reuse` lets a finished task be
submitted again, which is how a finite instance has unbounded submissions.

`PoolContract` says what the header promises, without threads: tasks start in
the order of submission on at most `WorkerCount` workers, wait and shutdown
return from a drained pool, the first shutdown ends acceptance, destroy comes
last. `ImplementsContract` is the refinement.

| run | instance | shows |
| --- | --- | --- |
| `thread_pool` | two workers, two clients, three tasks with resubmission, semaphore maximum 4 | `TypeOK`, `CountersExact`, `NoLostWork`, `ShutdownComplete`, `ResourcesOutliveUsers`, `NoLateAccept`, `ImplementsContract` |
| `thread_pool_live` | two tasks, each once, fair | `AcceptedRuns`, `CallsReturn`: every call returns from a pool that is not kept busy for ever |
| `thread_pool_wait` | one worker, one task submitted again and again, fair | a violation of `WaitEnds`, see Findings |

Two workers and two clients are enough for the cases that are hard here: a
worker asleep while the other takes both items, a token left by a worker that
never slept, a waiter and a draining leader on one condition, a leader and a
follower, destroy after both. The maximum of 4 is the smallest the assumption
allows and is reached: tokens pile up because a signal is posted for every
submission that finds a sleeper, and a worker may be woken by an older one.

Fairness: `SF` for each worker, each client inside a call and each wait or
broadcast, since a thread that finds the mutex free again and again gets it;
`WF` for create and the last step of destroy, whose guards stay true. Tasks
return. No client is made to call.

## The stream table

An entry of `wcrt_streams` is described twice: by its flag in
`wcrt_stream_used`, changed under `wcrt_stream_lock`, and by the `handle` and
`descriptor` fields, changed without a lock by the thread that claimed it.
`StreamTable` keeps both, and the open native handles. A section under the
lock is one action, the native work between two sections another. Threads use
their own streams only, as `docs/req-0074-thread-safe-streams.md:21-25`
demands, except that the target of `_dup2` is a number: one's own descriptor,
or one that is not open.

`owns` and `harmed` are history. A slot becomes harmed when `_dup2` claims it
from under a thread that is opening or closing it (line 143), when a `_dup2`
onto an open stream fails and gives its entry back (line 644), and when `_dup`
finds its source closed and keeps the entry it claimed (line 665). The first
two are hazards the code does not withstand, and the invariants do not catch
them, nor the third: a harmed slot is set aside for good. Every other slot is
claimed exactly while one thread holds it and open exactly while that thread
owns it (`TableExact`). `HandlesAccounted` says always that no slot keeps a
closed handle and no two the same one, and, as long as nothing has been harmed,
that every open native handle is that of a slot. A slot released before its
stream is closed is not harmed: `TableExact` would report it.

| run | instance | shows |
| --- | --- | --- |
| `tables` | two threads, three slots, three handles, at most one slot harmed (`MaxHarmed`) | `TableExact`, `HandlesAccounted` |
| `stream_freed` | one thread | a violation of `ReleasedAfterClose`, see Findings |

In `tables` a behaviour is about streams or about keys. Three slots let the
table fill up, give a pipe two, one or no free slot, and leave a third entry to
be named by `_dup2`. All native calls may fail at any time. With one harmed
slot two are left whose exactness is checked beside it; a second harm, which
would leave nothing to compare, is not explored. Deadlock checking is off in
these runs, and in those above, because a program may simply stop calling.

Left out: the standard streams, which have no entry, and handles adopted by
`_open_osfhandle`. What streams contain, and the names, temporary files and
directory descriptors of one thread, are in `StreamIO` and `NamedFiles`.

## Streams, files and directories

Run `files` is about six components that one program uses one call at a time,
and whose hazards are sequences of calls and native calls that fail. They share
nothing, so a behaviour chooses one (`about`) and the variables of the others
stay at `Rest` (the stream of `StreamIO` at one just created); a property
speaks of the component that was chosen. In most of these modules an operation
is an operator from a state to the next state, the result and `errno`, which
lets a property ask what a call would do here without doing it: that is how "a
position told leads back" is said.

`StreamIO` is one stream over a file whose content is a sequence of `a`, CR, LF
and NUL. The position is the one of the native file object, which descriptors
share; pushback, the two indicators, orientation, text mode and append are
fields. A device that refuses everything may be switched on between two calls
(`failing`), and a device that still works may refuse in the middle of a write:
it takes `whole` characters of a text and, of the next one, nothing or the
carriage return alone (`Shares`, `Share`), as `fputc` writes the two bytes of a
line end by two native calls. A read that fails after some of its bytes is not
modelled. Files have at most three characters (`MaxSize`), which is enough for
a pair of line-end characters, a character before or after it, and a write past
the end. A call writes a character, or one of two texts (`Texts`) with a line
end after a character or before it, and reads two (`Counts`), which is less
than a file, all of it, or more. Two files (`Files`) are there at the start,
one of them a run of carriage returns. Loops of the code are functions of the
number of turns, `fgetc`'s call of itself one of what is left of the file.

`NamedFiles` has a file, a temporary name, a directory and a name in it, two
slots of the stream table, and up to four calls (`MaxCalls`), which is what a
slot takes that keeps a deleted path and is duplicated into. Sharing is checked
as Windows does. `MAX32` and `MAX64` stand for the ends of a 32-bit field and
of the times Windows takes.

`Directories` has a stream over a directory of up to two files that come and
go; every call can meet a failure of the search, of the descriptor or of the
heap, at each entry. The loops of `seekdir`, `scandir` and its sorting are
functions of the number of turns here too. `Searches` lists records that fit 32
bits and records that do not, over three kernel handles, one of which belongs
to somebody else.

`CommandStreams` has one action for each native call of `popen` and `pclose`
and for each point where their table is read or written. The kernel's part is
here too: a process is given every handle that is inheritable when it starts,
and a wait returns after the process has ended. The wait, the query of the exit
code and the closing of a handle may fail: then `pclose` returns -1 and gives
the entry and the process up all the same. With `Alone` one call runs at a
time. Two commands are enough for two streams at once and for one after another
in the same entry.

`RecordLocks` has two handles on a file and overlapping regions; three attempts
stand for the ten of the code.

| property | what it says |
| --- | --- |
| `ReadsInOrder` | every way of reading, by characters, lines, blocks or wide characters, delivers the text from where `ftell` says the stream is, without a gap; a short transfer has set an indicator, a write the stream refuses moves nothing, and one the device refuses half way leaves what it counted and at most one carriage return |
| `PositionsReturn` | `fsetpos(fgetpos)` and seeks lead back to the same text, except for a seek from the current position while a character is pushed back; `_chsize` moves nobody and reports its first failure |
| `WritesReadBack` | a write, or the part of it the device took, is what a read from there gives back, the rest of the file stays, and append writes at the end |
| `NamesTold` | opening does what its flags say or changes nothing; status, access, times and directories agree with what the operations then find |
| `StreamsKeepTheirFiles` | a file that is open stays under its name, rights never conflict, closing deletes the stream's own temporary file and no other |
| `DirectoriesRead` | entries in order and once, `telldir` and `seekdir` inverse, nothing lost by any failure, except the block and the descriptor of a stream that could not be rewound; searches in the list are those the kernel has open, and a failed call never leaves half a record |
| `CommandsAnswered` | between calls table, streams and handles agree; `pclose` returns the exit code of the command asked for, or -1 when a native call has failed; no process holds an end of another's pipe |
| `LockAnswered` | a lock is had exactly if `_locking` said so; attempts and waits are as many as promised |

`ReadsInOrder` and `PositionsReturn` set apart runs of carriage returns and a
pushed-back character that is not the file's; `StreamsKeepTheirFiles` sets
apart a slot that still holds a deleted path. The reasons are below, under
Findings. `commands_two_threads` is `CommandStreams` with two threads.
`directory_close` is the instance of `files` with the one property that fails,
`DirectoryReleased`: a directory stream that is closed is released, whatever
state it was in.

## Functions without state

Run `algorithms` compares functions with what the standard or a document of the
repository says of them. Its state is one input, chosen in the only step there
is; the properties are about that step, and each is the conjunction of what its
kind of input is good for. They are action properties, so that an input is
evaluated once, when it is chosen.

| property | inputs | compared with |
| --- | --- | --- |
| `TextMatches` | memories of six bytes with overlapping arrays; wide texts of three | the definition by indices of each function of `string.c` and `wchar_string.c`; tokens as the runs between separators; multibyte text back and forth |
| `NumbersMatch` | texts of four characters in four bases, decimal and hexadecimal floating texts, the special words | the longest prefix that is a number; its exact value, brought into the range, rounded once (hexadecimal) or within the documented accuracy of the scaling by powers of ten (decimal); the range errors; the text of a number read back |
| `FormatsMatch` | every set of flags with widths, precisions, lengths and conversions; decimal and hexadecimal values, texts | the field built from the exact value; all sinks, narrow and wide, agree, and a bounded one holds the beginning |
| `ScansMatch` | texts of up to four characters with each conversion and width; formats cut in two | the longest item within the width; a format is its two halves one after the other; what printf wrote is read back |
| `UtilitiesMatch` | arrays of five, exit functions that register or exit, handlers that install and raise, years, instants, time formats | stable sorting, reverse order, one delivery for each installation, days counted one by one |
| `ArgumentsMatch` | command lines of two arguments, option lists, paths, patterns of three tokens | what they were put together from, also when getopt's cursor is set back in the middle of a cluster, to the same arguments or to others; `flag`, `longindex` and null arguments; fnmatch as a cut of the name into pieces |
| `FloatsMatch` | all values of small binary formats, pairs and triples; sequences of calls of `<fenv.h>` | exact rational arithmetic and one rounding; what each call promises of both units |

Widths are small and named: integers have the bits of `Width` (5 for an int),
`strtol` is tried at 4, floating texts are rounded to three bits. The
algorithms do not depend on these sizes except by the constants they are given;
a size is chosen so that every comparison in the code goes both ways.

Where the wide functions have definitions of their own (`fgetwc`, `vswprintf`,
the string functions) a comparison with the narrow ones is one of two
translations; the wide scanner and `wcstoll` share the definitions of their
narrow relatives, because the code does the same step for step or converts and
calls them, and there the comparison only says how they are called.

`Floats` takes the encoding of a value as the code's unions do. Its formats
have 3 or 4 exponent bits and 2 or 3 fraction bits, so that all values, pairs
of values and, for `fma`, triples with twelve first operands can be tried in
the four rounding directions. Which format a function gets matters: `frexp` and
the conversions to integers need values beyond the integer types and beyond
`2^FRACTION_BITS`, as `double` has them, hence the format of eight bits; the
constants of `scalbn`'s loop (`STEP`, `RANGE`) scale with the exponent.
`FloatVariants` pairs a wide format of ten bits with a narrow one of five for
the float functions that go through double. The quotient of `remquo` and the
remainder are compared while the quotient is exact in the format; beyond, the
code rounds twice (in double, from 2^53 on). What is the processor's, rounded
addition, multiplication, division and conversion, is external.

`FloatEnvironment` keeps the x87 and the SSE unit apart and starts from states
in which they disagree, as computing with one of them leaves them. Three calls
in a row, the last one an update or a set, are enough for an environment to be
captured, changed and installed again. The module is checked for x64 and for
x86, which has no SSE part.

`Signals` and the end of the process are here because they are sequential: a
signal raised by the program runs its handler in the caller's thread.

## Findings

- "Broadcast shall release every registered waiter"
  (`docs/req-0071-posix-threads.md:8`). A broadcaster that does not hold the
  mutex posts its tokens while new threads register; a signal makes all of them
  eligible at once, one takes the broadcast's token and is counted in the place
  of the thread it was posted for, another takes the signal's. The broadcast
  returns, and the thread it found registered sleeps on. Run
  `cond_var_unlocked`. With the mutex held this cannot happen
  (`BroadcastCovers`), and the pool always holds it.
- An entry is "released only after that stream is closed"
  (`docs/req-0074-thread-safe-streams.md:5`). When the native duplication
  fails, `_dup2` (line 644 of `stdio.c`) releases the entry of the target,
  which is still open. Run `stream_freed`.
- "Joinable state shared by a creator and its worker" (`pthread.c:51`). The
  creator has no reference of its own while it stores the handle (line 368): a
  worker that detaches itself and ends first frees the block under it, and
  the handle is never closed. Run `thread_detach_early`.
- "`pclose` shall close the stream, wait for its child, release the process
  handle, and return the command exit code"
  (`docs/req-0070-command-streams.md:26`). `popen` tests a table entry and
  fills it later (lines 72 and 123 of `popen.c`), and `pclose` closes the
  stream before it clears the entry (line 145), without a lock: with two
  threads a `pclose` waits for another thread's command or finds none, and a
  process handle is lost. Run `commands_two_threads`.
- `wcrt_thread_pool_wait` "Waits until all work submitted so far has
  completed" (`include/wcrt/thread_pool.h:25`), but its loop (line 164 of
  `thread_pool.c`) waits for a drained pool. While others keep submitting it
  does not return, though everything submitted before it is over. Run
  `thread_pool_wait`. `CallsReturn` speaks of pools that are not kept busy.
- "`closedir` shall release both the Windows search handle and WCRT storage"
  (`docs/req-0052-posix-dirent.md:29-30`). After a `rewinddir` that could not
  begin its search again `closedir` refuses the stream
  (`platform/windows/dirent.c:222`), and its descriptor and memory are never
  released. Run `directory_close`; `DirectoriesRead` and its theorem except
  such a stream.

Where else the code and its documents part, or rely on more than they say, and
how the models show it. No run is kept for these; each is one changed constant
or one more property away.

- "No caller can be given an entry that another thread is still preparing"
  (`docs/req-0074-thread-safe-streams.md:6`), for `_dup2` too. Its claim (line
  143 of `stdio.c`) does not look whether the entry is claimed:
  `ClaimsExclusive` of `StreamTable` fails. `TableExact` sets such slots aside.
- "Static mutex and condition-variable initializers shall initialize safely on
  first use" (`docs/req-0071-posix-threads.md:7`). The state word is read and
  written without a barrier (lines 163 and 168 of `platform/windows/pthread.c`,
  106 and 113 of `lock.c`). On ARM64 another thread may see `READY` before it
  sees the critical section: `NoEarlyUse` fails with `InOrder = FALSE`.
- "`pthread_once` shall serialize exactly one successful initialization across
  concurrent callers" (line 13 of that document). When the initialization lock
  is refused after the routine (line 457), the state stays 1 and every other
  caller loops for ever. That is the exception (`Spoiled`) in `OnceReturns`.
- "Start-routine and explicit-exit values shall be returned by `pthread_join`"
  (line 10 of that document). A join with an identifier that the worker has
  handed out waits on the null handle and returns `EINVAL`:
  `RefusedForAnother` fails with `Early = {"tell"}`.
- A join or detach that another one overtakes, the winner of the claim and the
  worker both done before it has locked the guard, locks a mutex that was
  destroyed in a block that was freed (lines 384 and 401 of
  `platform/windows/pthread.c`). POSIX leaves the second of two such calls
  undefined, and no document of the repository promises more; without the
  exception in its last line `TouchesLive` fails.

Streams and files. Each of these is set apart by a condition in the property
that would meet it, or by a named operator no run checks:

- A run of carriage returns before a line feed loses one or more of them in
  text mode: the character peeked at is put back and then taken for an
  ordinary one (`stdio.c:774`). `NoRun` in `ReadsInOrder`.
- `fseek` from the current position starts from the native position, which is
  one or two beyond where `fgetpos` says the stream is while a character is
  pushed back (`stdio.c:986`). `Pending` in `PositionsReturn`.
- `_read` returns -1 at the end of the file when the error indicator was set
  before. `ShortTransfersExplained` says so.
- A closed stream keeps its `delete_path`; `_dup2` into that slot makes the
  duplicate delete the path again (`platform/windows/file.c:367`), and a
  temporary file that is also open through a duplicate is left behind.
- `seekdir` and `scandir` set `errno` to 0.
- Opening with attributes that cannot be set leaves the new file
  (`docs/req-0083` allows it).

Numbers and texts. Each reference says what the standard or the document says,
and leaves one case out under a name of its own:

- `strtol` of a negative number whose magnitude `strtoul` has saturated gives
  -1 (`stdlib.c:182`), where `docs/req-0013-stdlib.md:40` asks for the rules
  of C99, by which it is the least long. `Saturated` in `IntegersCorrect`.
- A `swprintf` that overflows leaves its destination without a terminator
  (`wchar_format.c:396-400`), where `docs/req-0031-wchar.md:31-36` follows
  C99. `Unterminated` in `SinksAgree`.
- `scanf_s` stores an empty text, which is its terminator, in a destination of
  no characters (`stdio_scan.c:499-502`), where
  `docs/req-0046-ms-secure-stdio.md:36-38` has the size validated before.
  `NoRoom` in `TextScanned`.
- `fscanf` takes an exponent letter without digits, or a word cut short, into a
  floating item (`stdio_scan.c:276-286`), beyond the longest input item of
  `docs/req-0030-stdio-c99-scan.md:37-39`. `RunsOn` in `NumberScanned`, for
  conversions that then fail.
- `%.0f` of a value between a half and one writes 0 (`RoundsToOne`), `%g`
  chooses its style by the exponent before rounding (`StyleShifts`), and
  `%#.3o` may write one zero too many (`OctalExtra`): `stdio_format.c`,
  `docs/req-0029-stdio-c99-format.md:38-41`.
- The scaling of `strtod` takes a product a little over the largest number for
  the largest, without a range error (`stdlib.c:325-327`). The accuracy
  `DecimalsScaled` allows (`slack`) covers it.
- A backslash before a blank joins two arguments of a console program
  (`platform/windows/startup_console.c:81-139`).
- The ISO week number is one too small in years that begin on a Thursday
  (`time.c:354`; `docs/req-0015-time.md:87`).
- `fnmatch` with `FNM_PERIOD` and without `FNM_PATHNAME` lets `?` and `[`
  disagree with itself about a period after a slash; `PatternMatches` leaves
  such names out.

Floating point:

- `scalbn` and `ldexp` tell no range error when the result overflows in a
  direction that stops at the largest value (`docs/req-0007-math.md:36` has no
  such exception), and round a subnormal result twice. `ScaleMatches`.
- `remquo(x, inf)` is a NaN, `remainder(x, inf)` is `x` (`math.c:1106`); both
  divide and multiply with rounding, although
  `docs/req-0035-real-math.md:114-116` has it at bit level. `RemainderMatches`
  allows the error of one rounding.
- An environment captured while the SSE register was 0 (every exception
  unmasked) comes back with its exceptions masked (`fenv.c:138`;
  `docs/req-0036-fenv.md` has a captured object installed). `Saved`.

## What is proved

Each theorem holds for any sizes: any number of threads, tasks, slots, keys,
names, files and texts of any length. All but two of the statements are ones a
run also checks, which is how the formulas were found right before they were
proved; the inductive invariants were given to TLC too.

| module | theorem | statement | assumed besides the module's assumption |
| --- | --- | --- | --- |
| `ThreadPoolProofs` | `TypeCorrect` | `[]TypeOK`; the `size_t` counters are never decremented at zero | |
| | `CountersAlwaysExact` | `[]CountersExact` | |
| | `NoWorkLost` | `[]NoLostWork` | |
| | `NoLateAcceptance` | `NoLateAccept` | |
| | `ShutdownAlwaysComplete` | `[]ShutdownComplete` | |
| | `ResourcesAlwaysOutliveUsers` | `[]ResourcesOutliveUsers` | |
| | `PoolImplementsContract` | `ImplementsContract`: a refinement | |
| `CondVarProofs` | `BroadcastAlwaysCovers` | `BroadcastCovers` | broadcast with the mutex held |
| | `CondVarImplementsCondition` | `ImplementsCondition`: a refinement | the same; the semaphore never full |
| `ThreadLifecycleProofs` | `TypeCorrect` | `[]TypeOK`; the reference count stays in 0..2 | `Early = {}` |
| | `TouchesAlwaysLive` | `[]TouchesLive`, which excepts a call that was overtaken | `Early = {}` |
| | `AtMostOneWinner` | `[]OneWinner` | |
| | `JoinAlwaysDelivers` | `JoinDelivers` | |
| | `AlwaysReleasedAtEnd` | `[]ReleasedAtEnd` | `Early = {}` |
| | `RefusalsAreForAnother` | `RefusedForAnother` | `Early = {}` |
| `ServicesProofs` | `AlwaysInitializedOnce` | `InitializedOnce` | |
| | `AlwaysEarlyClaims` | `[]EarlyClaims` | |
| `ThreadKeysProofs` | `SlotsAlwaysAccounted` | `[]SlotsAccounted` | |
| | `DestructorAlwaysGetsItsOwn` | `[]DestructorGetsItsOwn` | |
| | `AlwaysLeavesNothing` | `[]LeavesNothing` | |
| `StreamTableProofs` | `TableAlwaysExact` | `[]TableExact` | |
| | `HandlesAlwaysAccounted` | `[]HandlesAccounted`, whose first part is about tables without a harmed slot | |
| `StreamIOProofs` | `AlwaysReadsInOrder` | `[]ReadsInOrder` | |
| | `AlwaysReturns` | `[]PositionsReturn` | |
| | `AlwaysWritesBack` | `[]WritesReadBack` | |
| | `AlwaysStream` | `[](m \in Streams)`: the type, and whose a pushback is | |
| `FilesProofs` | `LocksAlwaysAnswered` | `[]LockAnswered` | |
| | `CommandsAlwaysAnswered` | `[]CommandsAnswered` | `Alone` |
| | `FilesAlwaysKept` | `[]StreamsKeepTheirFiles` | |
| | `NamesAlwaysTold` | `[]NamesTold` | |
| | `SearchesAlwaysOwned` | `[]S!SearchesOwned`, while about searches | |
| | `DirectoriesAlwaysRead` | `[]DirectoriesRead`, which excepts a stream that could not be rewound | |

`RefusedForAnother` and the type `Streams` are proved and checked by no run;
`SearchesOwned` is a part of what run `files` checks as `DirectoriesRead`. The
theorems of `FilesProofs` are about `FileSpec`, which is what the behaviours of
that run are when `StreamIO` is left aside. With them every invariant a passing
run of a system with state checks is a theorem.

The assumptions of the modules name their constants' values: finite sets, a
`None` of its own, at least one worker, an attempt after the first one. TLC
evaluates each in a run. The hypotheses in the last column are conditions on
the program, each necessary, and a run shows why:

- A broadcast without the mutex need not cover whom it finds
  (`cond_var_unlocked`); `thread_pool.c` never makes one. At the semaphore's
  maximum a token that is being given back may be refused, which the atomic
  condition cannot show.
- `Early = {}`: until `pthread_create` has stored the handle, the worker
  neither hands out its identifier nor detaches itself. Otherwise the control
  block may be touched after it was freed (`thread_detach_early`). Who wins a
  claim and what a join delivers does not depend on it.
- `Alone`: popen and pclose one at a time (`commands_two_threads`).

### The pool

`NoLostWork` is not inductive. When a worker goes to sleep or a token is
consumed, one must know that the waiters of `work_available` are exactly the
workers asleep (`Registration`), and when a task is submitted, that some worker
is asleep if none will look at the list: it is neither unborn nor gone
(`Lifecycle`: workers up to `created` are born, a worker exits only when
`stopping`, a stopping pool accepts nothing and has an empty list). That the
list is empty when `stopping` is set follows from `Drained` by
`CountersExact`. The inductive invariant `IInv` is the conjunction of these
with `TypeOK`. The proof has a lemma for each operation of a condition, one
for each building block of the actions (`SleepEffect`, `BroadcastEffect`,
`DrainEffect`, `WakeEffect`, `ReturnEffect`), and one for each action with one
step for each conjunct. Its heart is that a signal which finds somebody
registered leaves an eligible thread and a token, even when the semaphore is
full (`SignalFacts`), and that a thread that leaves with the last token attends
to the list itself.

Shutdown needs a second invariant on top of the first, `SInv`. `idle` is only
ever broadcast, so that outside a broadcast it holds no token and during one
exactly as many as there are threads still registered (`IdleCondition`; the
mutex says who is inside a broadcast, `Broadcaster`); therefore nobody sleeps
for what has happened (`Quiet`). One caller leads a shutdown from `joining` to
`joined`, and stops the workers before it joins them (`Leadership`). The loop
variable of whoever joins says which workers have returned (`Joining`), a
queued task is in the list and a running one with a worker (`Backlog`), and
what exists of the pool object follows from the owner's place, a failed create
included (`Possession`).

The refinement needs a third, `CInv`: the tasks of the list and of the workers
are distinct and the history agrees (`Custody`), and a pool accepts from the
creation of its list to the first shutdown (`Acceptance`). Each action is then
an action of the contract or a stutter.

### The condition variable

`IInv` counts: `waiters` is the number of threads registered and no thread
remembers a generation to come (`Counted`), which is why a waiter that finds
its own generation is one registered after the signal. While a broadcaster
waits, its countdown, the threads it found and the threads registered are the
same, and it is told once, by the last (`Countdown`); this holds because the
broadcaster keeps the mutex (`Holding`), so that nobody can register meanwhile.
The refinement maps a waiter's steps between taking a token and giving it back
to nothing, so that a token in hand is still in `tokens`.

### Threads

That the control block is there when a caller enters a call depends on who
holds a reference. The inductive invariant of `ThreadLifecycle` says what the
count is, namely one for the holder until a call has won and one for the worker
until it has released its own (`References`), and that the block is freed by
the actor who brought it to zero and by nobody else (`Block`). For that there
must be one claim at a time, held until its reference is given up (`OneClaim`);
a caller that finds the block freed is one whom another call and the worker's
end have overtaken (`FreedFact`), which is the exception in `TouchesLive`; and
creation must be followed from `calloc` to the stored handle (`Creation`).

A smaller invariant, `CInv`, does not mention the block at all: where an actor
may be (`Stations`), when there is a result (`Delivered`), and that a claim is
one actor's until it wins or gives up (`SoleClaim`). It is inductive for every
`Early`, and carries `OneWinner` and `JoinDelivers`.

`ServicesProofs` has one invariant for each part of `MCServices`. For first use
(`FInv`) the point is what others can see of a half-built object: the builder's
two stores are made in order and get out before it drops the mutex, so memory
holds nothing, the object without its state word, or both (`Stores`), and how
often the object was built can be read from it (`Stages`). The order of stores
is that of x86 and x64; on a weaker one TLC finds the early use. For
`pthread_once` (`OInv`) the state word says whether the routine has begun and
ended, and at most one thread runs it (`Turns`).

In `ThreadKeys` the kernel's slots are those of the table and those in the
hands of a call (`Accounted`), and no two of these are equal (`Apart`).
`DestructorGetsItsOwn` needs that a value under a key is of that key's
destructor and that a new key has none (`Valued`), also between a worker's
reading of the entry and its use of the value, when the entry may have been
deleted and its kernel slot handed out again (`Reading`). `LeavesNothing` needs
what the pass has swept so far (`Swept`).

### Files

`StreamTable`: a slot that is not harmed has one holder at most, is claimed
while it has one and open while it is owned (`Exclusive`, `Marked`, `Opened`).
This is inductive only with what a call knows while it is under way: as many
different slots as its place says (`Handy`), not owned by anybody before it has
opened them or when it is about to give them back (`Prepared`); and a handle's
slot has its descriptor (`Named`), otherwise a pair claimed by `_pipe` could
meet a handle left behind.

`RecordLocks` (`LInv`): locks are disjoint, a call has slept once for every
attempt refused and only while it has an attempt left (`Patience`), and what
the answer of a finished call says is true as long as its handle makes no other
call (`Answered`).

`CommandStreams` (`CInv`): a command has its own ends of the pipe and no other
(`OwnEnd`), every answer given was the right one (`Told`), streams and table
entries lead to commands one to one (`Paired`), and, for the one thread that is
inside popen or pclose, which of the table, the streams and the handles it has
changed already (`Situation`, one case for each place); when nobody is inside,
they agree, whatever failed in the calls before. The number of entries taken
equals the number of streams given by way of a bijection (`OneEntryEach`).

`Searches` (`SInv`): the list holds, each once, what Windows has open besides
the program's own search (`ListExact`), and what a search has told and what it
has left make up the directory (`Delivered`), each entry told or passed over
for a reason. Two lemmas say what putting a handle before the list and taking
one out of it do.

`NamedFiles` (`Sound`): files have different numbers (`Numbered`), the number
of an open stream is that of a file (`Rooted`), a stream that is to delete a
file has the temporary one open and shares it with everybody
(`OwnTemporary`), streams on one file leave each other the rights they use or
are duplicates (`Compatible`), and the current directory is there
(`Standing`). `Compatible` is inductive only because of `OwnTemporary`: a
duplicate does not inherit the duty to delete, so it differs from its original
and must be allowed by it. Each operation has a lemma that it leads from a
sound state to a sound one, and these rest on a few about what one file or one
slot may become. That a new file's number is free is the pigeonhole principle.
`StreamsKeepTheirFiles` and `NamesTold` are then facts about any sound state;
the second says what each call would do there, whether or not it is made.
Slots, calls and further names are arbitrary; no action makes a directory but
`d` or remembers a file but `t` for deletion.

`Directories` (`DInv`): what is held is what the caller's stream needs
(`DirNeeds`), and its search stands at an entry or at the end of the listing it
began with, or there is none since it could not be begun again (`Well`). Each
operation leaves such a state well, whatever fails and whatever has happened to
the directory meanwhile. What the loops compute is proved as for one stream,
below: `SkippedIs` says where `seekdir`'s stands after as many turns as the
position asked for, `CollectIs` what each turn of `scandir`'s keeps true of the
blocks, the array and the copies (`Collecting`), and `AlphasortedIs` that
insertion gives the same names in order. That the entries kept are there, each
once and in their places, is a fact about how many were kept before each
(`KeptTo`). `NothingLeaks` and `DirectoryInOrder` are then facts about any
state that is well.

### One stream

The properties of `StreamIO` say what each call would do in the present state,
so the invariant they need is small: the stream is one the library can build
(`Streams`), with a pushback only where a call of its orientation left it. What
has to be proved is what the loops compute, for files, texts and counts of any
length. Each loop is a function by recursion on the number of turns; the
library's theorems on induction and recursion have operators for parameters,
which no prover here can put in, so `Least`, `Induction` and `Recursion` derive
the same for sets and functions from the order of the natural numbers being
well-founded. `GatherTurns`, `DecodeTurns` and `SpreadTurns` say from these
what one more turn does, `InnerCalls` the same of `fgetc`'s call of itself, and
nothing after them unfolds a loop.

Reading: `Whence` is where `ftell` says a stream is, and `Tells` what a call of
`fgetc` or `fgetwc` gives when what is pushed back is the file's own
(`Honest`): the character that stands there once pairs are taken together, and
a stream again honest that is just past it. `fgetc` looks at the next character
by calling itself and puts it back, `fgetwc` reads it raw, and both come to the
same; that `NoRun` is needed is seen here, in the call inside that takes the
second of two carriage returns. `Gathers` carries this over any number of
turns, against `Decoded`, which takes the file apart without looking ahead.
`fread` in binary mode takes the pushback and the rest at once, and must come
to the same (`BinaryBlock`).

Positions: `fsetpos` and `fseek` leave no pushback and the position asked for,
hence an honest stream, from which the same text follows (`MovedHonest`). What
`fgets` reads is the first line of what is decoded there (`AheadIs`), because a
few turns decode the beginning of what more turns decode (`Prefix`).

Writing: `Place` says where each character of a text lies, given the line feeds
before it. After any number of turns what was written lies there and everything
else is as it was (`Holds`, `Given`), in a stream that appends from the end of
the file, wherever its position was. When the device stops in the middle, the
turns up to there are as before and one more turn adds a carriage return or
nothing, after which the loop stands still (`Leaves`). `Backed` then follows
the reader over the same places; a carriage return written in text mode is set
apart, as it may be taken for half of a pair.

### Only model-checked

- All liveness: `CallsReturn`, `BroadcastReturns`, `CallsEnd` and the rest;
  neither fairness nor `ENABLED` is within the prover's reach.
- The statements of the violated runs, which are false: `WaitEnds`,
  `BroadcastReleasesAll`, `ReleasedAfterClose`, `DirectoryReleased`, and those
  that hold only under the hypotheses above.
- What the functions without state compute: `NumericText`, `Formatting`,
  `Scanning`, `Strings`, `Patterns`, `Calendar`, `Arguments`,
  `GeneralUtilities`, `Signals`, `Floats`. They are written with recursive
  operators, as their code is with loops, and the prover cannot be used in a
  module that has one. `StreamIO` and `Directories` show that rewriting them as
  recursive functions makes them provable.

## Mutations

A definition whose comment begins with "Mutation of" is a plausible mistake in
the code next to it, and no part of any specification. Putting it in the place
of the original makes a run report the property it was written for.
`PROJECT.json` pairs each property of a passing run with one.

## Fairness and deadlock

Only `thread_pool_live`, `thread_pool_wait`, `cond_var_unlocked` and `services`
assume fairness, said above with its reasons; the other runs check safety,
which needs none. Deadlock
checking is off everywhere: a program may stop calling. That nobody waits for
ever is what `CallsReturn`, `BroadcastReturns` and `CallsEnd` say.

## Not modelled

- The transcendental functions of `math.c` and all of `complex.c`: their
  correctness is the size of an approximation's error, which no small format
  shows. The excess precision of the x87 unit, and `fenv.c` on ARM64, the same
  calls over a single register.
- `setjmp` and `longjmp`, which are registers saved in assembly; `cpu.c`, which
  decodes what the processor answers.
- `mman.c`, the heap, the environment, `_getcwd`, `_fullpath`, the drive
  queries, links and devices: one kernel call each, whose state is the
  kernel's. `system`, which starts a process and waits for it.
- The three standard streams, handles adopted by `_open_osfhandle`, and the
  conversion of handles in `ms_handle.c`.
- The wording of `perror`, `strerror`, `getopt` and assertions; locales, of
  which there is one.
- `errno` is part of each result, not a variable shared by threads.
- The failure of a kernel wait inside a condition variable or a mutex.

## Plan

Proofs: that the sections of first use exclude one another, as a theorem of its
own; `Strings` and `NumericText`, with their loops as recursive functions as in
`StreamIO`.

Models: the standard streams and adopted handles in `StreamTable`;
`StreamTable` and `CommandStreams` composed, in place of the set of streams
that stands for the table now; the failure of kernel waits in `CondVar`.
