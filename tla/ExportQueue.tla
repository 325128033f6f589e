----------------------------- MODULE ExportQueue -----------------------------
(* The export queue of crates/clip-export/src/queue.rs as operators over its  *)
(* state: one active slot, a short list of pending jobs, and a cancellation   *)
(* token per job.  Each operator is one method, which runs under one lock, so *)
(* it is one step of whoever calls it; ExportWorker has the callers.          *)
(*                                                                            *)
(* Abstractions.  Job ids are handed out from 1 upwards.  outcome is the      *)
(* whole history, which the code cuts to its last 32 records for display and  *)
(* never reads back except to word an error.  Progress is left out.  A method *)
(* that finds the lock taken returns Busy and does nothing: the worker then   *)
(* repeats it, and for everyone else it is a call that was not made.          *)
EXTENDS Naturals, Sequences, SequencesExt

CONSTANTS
    PendingLimit,  \* PENDING_JOB_LIMIT
    MaxJobs        \* bound: jobs accepted

ASSUME PendingLimitAssumption == PendingLimit \in Nat
ASSUME MaxJobsAssumption == MaxJobs \in Nat

Jobs == 1 .. MaxJobs
None == 0
Ends == {"completed", "failed", "cancelled"}

EmptyQueue == [active |-> None, pending |-> <<>>, tokens |-> {},
               outcome |-> [j \in Jobs |-> "none"]]

Live(q) == {j \in Jobs : q.outcome[j] = "accepted"}
Over(q) == {j \in Jobs : q.outcome[j] \in Ends}

-----------------------------------------------------------------------------
(* Submission.                                                                *)

Accepts(q) ==
    /\ \E j \in Jobs : q.outcome[j] = "none"
    /\ q.active # None => Len(q.pending) < PendingLimit

NextId(q) == CHOOSE j \in Jobs : q.outcome[j] = "none" /\ \A k \in 1 .. j - 1 : q.outcome[k] # "none"

Submitted(q) ==
    [q EXCEPT !.outcome[NextId(q)] = "accepted",
              !.active  = IF @ = None THEN NextId(q) ELSE @,
              !.pending = IF q.active = None THEN @ ELSE Append(@, NextId(q))]

-----------------------------------------------------------------------------
(* The end of a job.                                                          *)

EndedUnpromoted(q, j, end) == [q EXCEPT !.outcome[j] = end, !.active = None]
\* take_active, push_terminal and promote_next: the oldest pending job moves up.
Ended(q, j, end) ==
    [q EXCEPT !.outcome[j] = end,
              !.active  = IF q.pending = <<>> THEN None ELSE Head(q.pending),
              !.pending = IF @ = <<>> THEN <<>> ELSE Tail(@)]

Requested(q, j) == j \in q.tokens

\* complete and fail want the active job without a request, finish_cancelled
\* wants it with one; otherwise they change nothing.
Completed(q, j) == IF q.active = j /\ ~ Requested(q, j) THEN Ended(q, j, "completed") ELSE q
Failed(q, j) == IF q.active = j /\ ~ Requested(q, j) THEN Ended(q, j, "failed") ELSE q
FinishedCancelled(q, j) == IF q.active = j /\ Requested(q, j) THEN Ended(q, j, "cancelled") ELSE q

\* A pending job is over at once; the active one is only asked to stop.
Cancelled(q, j) ==
    CASE q.active = j -> [q EXCEPT !.tokens = @ \cup {j}]
      [] j \in ToSet(q.pending) -> [q EXCEPT !.tokens = @ \cup {j},
                                             !.pending = RemoveFirst(@, j),
                                             !.outcome[j] = "cancelled"]
      [] OTHER -> q

-----------------------------------------------------------------------------
(* Snapshots.                                                                 *)

\* states_result without the history: active first, then pending.
States(q) == (IF q.active = None THEN <<>> ELSE <<q.active>>) \o q.pending

QueueType ==
    [active: Jobs \cup {None}, pending: Seq(Jobs), tokens: SUBSET Jobs,
     outcome: [Jobs -> {"none", "accepted"} \cup Ends]]

\* The jobs that are not over are the active one and the pending ones, each once
\* and in order of submission; nobody waits behind an empty active slot.
QueueSound(q) ==
    /\ q \in QueueType
    /\ q.active = None => q.pending = <<>>
    /\ Len(q.pending) <= PendingLimit
    /\ ToSet(States(q)) = Live(q)
    /\ \A i, k \in DOMAIN States(q) : i < k => States(q)[i] < States(q)[k]
=============================================================================
