----------------------------- MODULE StreamTable -----------------------------
(***************************************************************************)
(* The dynamic stream table of src/stdio.c and the descriptors that share  *)
(* it: fopen, _open, freopen, fclose, _close, _pipe, _dup and _dup2, run   *)
(* by threads that each use their own streams.  A slot is one entry of     *)
(* wcrt_streams; its descriptor is the slot's number plus two.             *)
(*                                                                         *)
(* A section under wcrt_stream_lock is one action.  Between its sections a *)
(* call works on the FILE it claimed without a lock, and that work is one  *)
(* action too: the native call and the fields written after it.            *)
(*                                                                         *)
(* Two pieces of state are history.  owns[t] are the slots whose stream or *)
(* descriptor a call has returned to t and t has not closed.  harmed are   *)
(* the slots whose table entry _dup2 has taken from, or released under,    *)
(* somebody who still holds them, and those _dup has leaked.               *)
(*                                                                         *)
(* The standard streams, which have no entry, the handles popen and        *)
(* _open_osfhandle adopt, and the deletion of temporary files are left     *)
(* out.                                                                    *)
(***************************************************************************)
EXTENDS Integers, Sequences, FiniteSets, SequencesExt, FiniteSetsExt

CONSTANTS
  Threads,
  FOpenMax,    \* FOPEN_MAX
  Handles,     \* native handles; as many can be open at once
  None         \* the null handle

Slots == 1..FOpenMax

ASSUME StreamTableAssumption ==
  /\ FOpenMax \in Nat \ {0}
  /\ None \notin Handles

VARIABLES
  used,    \* the slots with wcrt_stream_used set
  handle,  \* stream->handle of every slot
  bound,   \* the slots whose stream->descriptor is their own number
  native,  \* the native handles that are open
  pc,      \* where each thread is
  hand,    \* the slots a thread's call is working on, in order
  source,  \* the slot that _dup2 duplicates
  owns, harmed

vars == <<used, handle, bound, native, pc, hand, source, owns, harmed>>
streams == <<handle, bound, native>>

Places == {"user", "opening", "piping", "naming", "claiming", "duplicating",
           "releasing"}

(* wcrt_descriptor_stream finds an open stream in slot s (lines 176-178). *)
IsOpen(s) == handle[s] # None /\ s \in bound

(* The first unused slots, as the scans of lines 114 and 690 meet them. *)
Unused == Slots \ used

(* The handles a native call may return. *)
Fresh == Handles \ native

(* Mutation of Without: the handle is forgotten, not closed. *)
WithoutClosing(s) == native

(* CloseHandle on the handle of slot s, if it has one. *)
Without(s) == native \ {handle[s]}

Enter(t, place, slots) ==
  /\ pc' = [pc EXCEPT ![t] = place]
  /\ hand' = [hand EXCEPT ![t] = slots]

Return(t) == Enter(t, "user", <<>>)

Init ==
  /\ used = {} /\ bound = {} /\ native = {} /\ harmed = {}
  /\ handle = [s \in Slots |-> None]
  /\ pc = [t \in Threads |-> "user"]
  /\ hand = [t \in Threads |-> <<>>]
  /\ source = [t \in Threads |-> None]
  /\ owns = [t \in Threads |-> {}]

-----------------------------------------------------------------------------
(* fopen and _open: wcrt_allocate_stream, lines 111-121.  With a full table
   the call fails and changes nothing. *)
Claim(t) ==
  /\ pc[t] = "user" /\ Unused # {}
  /\ used' = used \union {Min(Unused)}
  /\ Enter(t, "opening", <<Min(Unused)>>)
  /\ UNCHANGED <<streams, source, owns, harmed>>

(* Lines 231 and 235, and their like: the file opens, the handle field is
   overwritten and the descriptor follows. *)
OpenSucceeds(t) ==
  /\ pc[t] = "opening"
  /\ LET s == hand[t][1] IN
     \E h \in Fresh :
       /\ handle' = [handle EXCEPT ![s] = h]
       /\ native' = native \union {h}
       /\ bound' = bound \union {s}
       /\ owns' = [owns EXCEPT ![t] = @ \union {s}]
  /\ Return(t)
  /\ UNCHANGED <<used, source, harmed>>

(* Mutation of OpenFails: the early return skips the release. *)
OpenFailsHolding(t) ==
  /\ pc[t] = "opening"
  /\ handle' \in {handle, [handle EXCEPT ![hand[t][1]] = None]}
  /\ Return(t)
  /\ UNCHANGED <<used, bound, native, source, owns, harmed>>

(* Lines 231-232: the mode is refused, or the native open fails, which also
   clears the handle field (src/platform/windows/file.c:197). *)
OpenFails(t) ==
  /\ pc[t] = "opening"
  /\ handle' \in {handle, [handle EXCEPT ![hand[t][1]] = None]}
  /\ Enter(t, "releasing", hand[t])
  /\ UNCHANGED <<used, bound, native, source, owns, harmed>>

(* freopen, lines 274-276: the stream is closed in its slot, which it keeps
   when the new file opens; its descriptor is then restored. *)
Reopen(t, s) ==
  /\ pc[t] = "user" /\ s \in owns[t] /\ IsOpen(s)
  /\ native' = Without(s)
  /\ handle' = [handle EXCEPT ![s] = None]
  /\ bound' = bound \ {s}
  /\ owns' = [owns EXCEPT ![t] = @ \ {s}]
  /\ Enter(t, "opening", <<s>>)
  /\ UNCHANGED <<used, source, harmed>>

(* fclose, lines 291-292. *)
Close(t, s) ==
  /\ pc[t] = "user" /\ s \in owns[t]
  /\ native' = Without(s)
  /\ handle' = [handle EXCEPT ![s] = None]
  /\ bound' = bound \ {s}
  /\ owns' = [owns EXCEPT ![t] = @ \ {s}]
  /\ Enter(t, "releasing", <<s>>)
  /\ UNCHANGED <<used, source, harmed>>

(* _close refuses a descriptor that is not open (lines 409-413); otherwise
   it is fclose. *)
CloseRefused(t, s) ==
  /\ pc[t] = "user" /\ s \in owns[t] /\ ~IsOpen(s)
  /\ owns' = [owns EXCEPT ![t] = @ \ {s}]
  /\ UNCHANGED <<used, streams, pc, hand, source, harmed>>

(* wcrt_release_stream, lines 159-163. *)
Release(t) ==
  /\ pc[t] = "releasing"
  /\ used' = used \ {hand[t][1]}
  /\ IF Len(hand[t]) = 1 THEN Return(t)
                         ELSE Enter(t, "releasing", Tail(hand[t]))
  /\ UNCHANGED <<streams, source, owns, harmed>>

-----------------------------------------------------------------------------
(* _pipe, lines 686-703: one pass claims two slots; a single one is given
   back. *)
ClaimPair(t) ==
  /\ pc[t] = "user" /\ Unused # {}
  /\ LET first == Min(Unused)
         rest == Unused \ {first}
     IN IF rest = {}
          THEN /\ used' = used \union {first}
               /\ Enter(t, "releasing", <<first>>)
          ELSE /\ used' = used \union {first, Min(rest)}
               /\ Enter(t, "piping", <<first, Min(rest)>>)
  /\ UNCHANGED <<streams, source, owns, harmed>>

(* Lines 705 and 711-715. *)
PipeSucceeds(t) ==
  /\ pc[t] = "piping"
  /\ LET r == hand[t][1]
         w == hand[t][2]
     IN \E h \in Fresh : \E g \in Fresh \ {h} :
          /\ handle' = [handle EXCEPT ![r] = h, ![w] = g]
          /\ native' = native \union {h, g}
          /\ bound' = bound \union {r, w}
          /\ owns' = [owns EXCEPT ![t] = @ \union {r, w}]
  /\ Return(t)
  /\ UNCHANGED <<used, source, harmed>>

(* Lines 705-709. *)
PipeFails(t) ==
  /\ pc[t] = "piping"
  /\ Enter(t, "releasing", hand[t])
  /\ UNCHANGED <<used, streams, source, owns, harmed>>

-----------------------------------------------------------------------------
(* _dup, lines 655-665: it claims a slot and hands it to _dup2. *)
Dup(t, s) ==
  /\ pc[t] = "user" /\ s \in owns[t] /\ IsOpen(s)
  /\ Unused # {}
  /\ used' = used \union {Min(Unused)}
  /\ source' = [source EXCEPT ![t] = s]
  /\ Enter(t, "claiming", <<Min(Unused)>>)
  /\ UNCHANGED <<streams, owns, harmed>>

(* _dup2, lines 635-641: the target is a descriptor of the caller, or a
   number that no open descriptor has. *)
Dup2(t, s, d) ==
  /\ pc[t] = "user" /\ s \in owns[t] /\ IsOpen(s)
  /\ d # s /\ (d \in owns[t] \/ ~IsOpen(d))
  /\ source' = [source EXCEPT ![t] = s]
  /\ Enter(t, "naming", <<d>>)
  /\ UNCHANGED <<used, streams, owns, harmed>>

(* Slots t holds: those it owns and those its call has claimed; a target
   that _dup2 has only been given is not claimed yet. *)
Holds(t) ==
  owns[t] \union (IF pc[t] = "naming" THEN {} ELSE ToSet(hand[t]))

(* wcrt_claim_stream, lines 140-144: the entry is marked without a look at
   what it was. *)
ClaimTarget(t) ==
  /\ pc[t] = "naming" \/ (pc[t] = "claiming" /\ IsOpen(source[t]))
  /\ LET d == hand[t][1] IN
       /\ used' = used \union {d}
       /\ harmed' = IF \E u \in Threads \ {t} : d \in Holds(u)
                      THEN harmed \union {d} ELSE harmed
  /\ Enter(t, "duplicating", hand[t])
  /\ UNCHANGED <<streams, source, owns>>

(* Lines 637-640 of the _dup2 that _dup calls: its source has been closed
   meanwhile, and the slot _dup claimed is never released. *)
SourceGone(t) ==
  /\ pc[t] = "claiming" /\ ~IsOpen(source[t])
  /\ harmed' = harmed \union ToSet(hand[t])
  /\ source' = [source EXCEPT ![t] = None]
  /\ Return(t)
  /\ UNCHANGED <<used, streams, owns>>

(* Lines 643 and 647: the native handle is duplicated, what the target held
   is closed, and the target takes the new handle. *)
DuplicateSucceeds(t) ==
  /\ pc[t] = "duplicating" /\ handle[source[t]] # None
  /\ LET d == hand[t][1] IN
     \E h \in Fresh :
       /\ native' = Without(d) \union {h}
       /\ handle' = [handle EXCEPT ![d] = h]
       /\ bound' = bound \union {d}
       /\ owns' = [owns EXCEPT ![t] = @ \union {d}]
  /\ source' = [source EXCEPT ![t] = None]
  /\ Return(t)
  /\ UNCHANGED <<used, harmed>>

(* Lines 643-644: DuplicateHandle fails; the target's slot is released, and
   lost to whoever holds it if its stream is open. *)
DuplicateFails(t) ==
  /\ pc[t] = "duplicating"
  /\ LET d == hand[t][1] IN
       harmed' = IF handle[d] # None THEN harmed \union {d} ELSE harmed
  /\ source' = [source EXCEPT ![t] = None]
  /\ Enter(t, "releasing", hand[t])
  /\ UNCHANGED <<used, streams, owns>>

-----------------------------------------------------------------------------
Next ==
  \E t \in Threads :
    \/ Claim(t) \/ OpenSucceeds(t) \/ OpenFails(t) \/ Release(t)
    \/ ClaimPair(t) \/ PipeSucceeds(t) \/ PipeFails(t)
    \/ ClaimTarget(t) \/ SourceGone(t)
    \/ DuplicateSucceeds(t) \/ DuplicateFails(t)
    \/ \E s \in Slots :
         \/ Reopen(t, s) \/ Close(t, s) \/ CloseRefused(t, s) \/ Dup(t, s)
         \/ \E d \in Slots : Dup2(t, s, d)

Spec == Init /\ [][Next]_vars

-----------------------------------------------------------------------------
(* Type invariant. *)
TypeOK ==
  /\ used \subseteq Slots /\ bound \subseteq Slots /\ harmed \subseteq Slots
  /\ handle \in [Slots -> Handles \union {None}]
  /\ native \subseteq Handles
  /\ pc \in [Threads -> Places]
  /\ hand \in [Threads -> Seq(Slots)]
  /\ source \in [Threads -> Slots \union {None}]
  /\ owns \in [Threads -> SUBSET Slots]

(* Every slot that is not harmed is claimed exactly while one thread holds
   it, and open exactly while that thread owns it: no slot leaks on any
   failure path, none is shared, none is freed early
   (docs/req-0074-thread-safe-streams.md:4). *)
TableExact ==
  /\ TypeOK
  /\ \A s \in Slots \ harmed :
       LET holders == {t \in Threads : s \in Holds(t)} IN
       /\ Cardinality(holders) <= 1
       /\ s \in used <=> holders # {}
       /\ IsOpen(s) <=> \E t \in Threads : s \in owns[t]

(* No native handle is lost: each open one is the handle of exactly one
   slot, unless a slot is harmed, and no slot keeps a handle that is
   closed. *)
HandlesAccounted ==
  /\ harmed = {} => \A h \in native : \E s \in Slots : handle[s] = h
  /\ \A s \in Slots : handle[s] # None => handle[s] \in native
  /\ \A r, s \in Slots : handle[r] = handle[s] /\ r # s => handle[r] = None

(* "no caller can be given an entry that another thread is still preparing
   or tearing down" (docs/req-0074-thread-safe-streams.md:6), for every
   operation that claims or releases an entry, _dup2 among them (line 9). *)
ClaimsExclusive ==
  \A t, u \in Threads : t # u => Holds(t) \intersect Holds(u) = {}

(* A table entry is "released only after that stream is closed"
   (docs/req-0074-thread-safe-streams.md:5). *)
ReleasedAfterClose ==
  [][\A s \in used \ used' : handle[s] = None]_vars
=============================================================================
