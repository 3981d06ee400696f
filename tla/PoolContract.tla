---------------------------- MODULE PoolContract -----------------------------
(***************************************************************************)
(* What a worker pool promises its callers (include/wcrt/thread_pool.h and *)
(* docs/req-0073-thread-pool.md): accepted tasks start in the order of     *)
(* their submission, never more at a time than there are workers; wait     *)
(* returns from an idle pool only; the first shutdown ends the acceptance  *)
(* of tasks, and no shutdown returns before all accepted ones are over.    *)
(*                                                                         *)
(* There are no threads, locks or conditions here: ThreadPool, which has   *)
(* them, is shown to implement this module.                                *)
(***************************************************************************)
EXTENDS Integers, Sequences, FiniteSets

CONSTANTS WorkerCount, Clients, Owner, Tasks, Reuse

VARIABLES
  phase,    \* of the pool's life
  backlog,  \* accepted tasks that have not started, oldest first
  status,   \* of every task
  owed,     \* owed[c]: tasks accepted before c's wait and not yet over
  call      \* the call each client is in

vars == <<phase, backlog, status, owed, call>>

Running == {k \in Tasks : status[k] = "running"}
Unfinished == {k \in Tasks : status[k] \in {"queued", "running"}}
Drained == backlog = <<>> /\ Running = {}

Init ==
  /\ phase = "building"
  /\ backlog = <<>>
  /\ status = [k \in Tasks |-> "new"]
  /\ owed = [c \in Clients |-> {}]
  /\ call = [c \in Clients |-> "none"]

Create ==
  /\ phase = "building"
  /\ phase' \in {"open", "failed"}
  /\ UNCHANGED <<backlog, status, owed, call>>

Submit(k) ==
  /\ phase \in {"open", "closing", "closed"}
  /\ Running # {} \/ \E c \in Clients : call[c] = "none"
  /\ status[k] = "new" \/ (Reuse /\ status[k] = "done")
  /\ IF phase = "open"
       THEN /\ backlog' = Append(backlog, k)
            /\ status' = [status EXCEPT ![k] = "queued"]
       ELSE /\ status' = [status EXCEPT ![k] = "rejected"]
            /\ UNCHANGED backlog
  /\ UNCHANGED <<phase, owed, call>>

Start ==
  /\ backlog # <<>>
  /\ Cardinality(Running) < WorkerCount
  /\ backlog' = Tail(backlog)
  /\ status' = [status EXCEPT ![Head(backlog)] = "running"]
  /\ UNCHANGED <<phase, owed, call>>

Finish(k) ==
  /\ k \in Running
  /\ status' = [status EXCEPT ![k] = "done"]
  /\ owed' = [c \in Clients |-> owed[c] \ {k}]
  /\ UNCHANGED <<phase, backlog, call>>

BeginWait(c) ==
  /\ phase \in {"open", "closing", "closed"} /\ call[c] = "none"
  /\ call' = [call EXCEPT ![c] = "wait"]
  /\ owed' = [owed EXCEPT ![c] = Unfinished]
  /\ UNCHANGED <<phase, backlog, status>>

BeginShutdown(c) ==
  /\ phase \in {"open", "closing", "closed"} /\ call[c] = "none"
  /\ call' = [call EXCEPT ![c] = "shutdown"]
  /\ UNCHANGED <<phase, backlog, status, owed>>

(* Destroy is called when no other client is inside the pool. *)
BeginDestroy ==
  /\ phase \in {"open", "closing", "closed"}
  /\ \A c \in Clients : call[c] = "none"
  /\ call' = [call EXCEPT ![Owner] = "destroy"]
  /\ UNCHANGED <<phase, backlog, status, owed>>

Close ==
  /\ phase = "open"
  /\ \E c \in Clients : call[c] \in {"shutdown", "destroy"}
  /\ phase' = "closing"
  /\ UNCHANGED <<backlog, status, owed, call>>

(* One of the callers completes the shutdown, and may return at once. *)
Closed(c) ==
  /\ phase = "closing" /\ Drained
  /\ call[c] \in {"shutdown", "destroy"}
  /\ phase' = "closed"
  /\ \/ UNCHANGED call
     \/ call[c] = "shutdown" /\ call' = [call EXCEPT ![c] = "none"]
  /\ UNCHANGED <<backlog, status, owed>>

EndWait(c) ==
  /\ call[c] = "wait" /\ Drained
  /\ call' = [call EXCEPT ![c] = "none"]
  /\ UNCHANGED <<phase, backlog, status, owed>>

EndShutdown(c) ==
  /\ call[c] = "shutdown" /\ phase = "closed"
  /\ call' = [call EXCEPT ![c] = "none"]
  /\ UNCHANGED <<phase, backlog, status, owed>>

EndDestroy ==
  /\ call[Owner] = "destroy" /\ phase = "closed"
  /\ phase' = "gone"
  /\ call' = [call EXCEPT ![Owner] = "none"]
  /\ UNCHANGED <<backlog, status, owed>>

Next ==
  \/ Create \/ Start \/ Close \/ BeginDestroy \/ EndDestroy
  \/ \E k \in Tasks : Submit(k) \/ Finish(k)
  \/ \E c \in Clients :
       \/ BeginWait(c) \/ BeginShutdown(c)
       \/ Closed(c) \/ EndWait(c) \/ EndShutdown(c)

Spec == Init /\ [][Next]_vars
=============================================================================
