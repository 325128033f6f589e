----------------------------- MODULE ExportWorker -----------------------------
(* The export worker of crates/encoder-ffmpeg/src/worker.rs over the queue of *)
(* ExportQueue: an owner claims the queue's executor lease, runs a thread     *)
(* that exports the active job, and stops it again; clients submit and cancel *)
(* at any time, through a worker or directly on the queue.                    *)
(*                                                                            *)
(* Abstractions.  One export (executor.rs) is: run until it fails, is         *)
(* cancelled, or passes the last look at the token, and then publish.  Each   *)
(* job has a destination of its own.  A panic can only come out of the        *)
(* external process runner, while the export runs.  The lock around the queue *)
(* is never poisoned, for nothing under it can panic.                         *)
EXTENDS ExportQueue, FiniteSets

CONSTANTS
    Overlap,     \* may a worker be started while a shutdown() is returning?
    MaxWorkers,  \* bound: workers started
    MaxPanics    \* bound: threads that panic

ASSUME OverlapAssumption == Overlap \in BOOLEAN
ASSUME MaxWorkersAssumption == MaxWorkers \in Nat
ASSUME MaxPanicsAssumption == MaxPanics \in Nat

VARIABLES
    q,         \* ExportQueue.state
    lease,     \* ExportQueue.worker_claimed
    worker,    \* each ExportWorker: how far its owner is with it, and its thread
    calls,     \* how far each submit through a worker is with its job
    file,      \* what lies at the destination of each job
    owed,      \* auxiliary: jobs accepted and not over when the stop began
    rejected,  \* auxiliary: jobs whose submit returned an error after all
    starts,    \* auxiliary: workers started, which are numbered in that order
    panics     \* auxiliary: threads that panicked

vars == <<q, lease, worker, calls, file, owed, rejected, starts, panics>>

Workers == 1 .. MaxWorkers

NoWorker == [pc |-> "none", passes |-> 0, todo |-> <<>>, rounds |-> 0,
             thread |-> "none", job |-> None, sweep |-> <<>>]

Init ==
    /\ q = EmptyQueue /\ lease = FALSE
    /\ worker = [w \in Workers |-> NoWorker]
    /\ calls = [w \in Workers |-> [j \in Jobs |-> "none"]]
    /\ file = [j \in Jobs |-> "none"]
    /\ owed = [w \in Workers |-> {}] /\ rejected = {}
    /\ starts = 0 /\ panics = 0

Gone == {"none", "exited", "dead"}
Alive(w) == worker[w].thread \notin Gone
\* shutdown is set from the first step of stop_and_join on, the sender gone after
\* the sweep.
ShutDown(w) == worker[w].pc \notin {"none", "claimed", "running"}
HungUp(w) == worker[w].pc = "joining"

-----------------------------------------------------------------------------
(* Clients.                                                                   *)

Submit ==
    /\ Accepts(q) /\ q' = Submitted(q)
    /\ UNCHANGED <<lease, worker, calls, file, owed, rejected, starts, panics>>

Cancel(j) ==
    /\ j \in Live(q) /\ q' = Cancelled(q, j)
    /\ UNCHANGED <<lease, worker, calls, file, owed, rejected, starts, panics>>

CallAt(w, j, step) == calls' = [calls EXCEPT ![w][j] = step]

\* submit through a worker that is still there: the job goes to the queue first, and
\* whatever the thread does with it comes before or after the wake.
SubmitThrough(w) ==
    /\ worker[w].pc = "running"
    /\ Accepts(q) /\ q' = Submitted(q) /\ CallAt(w, NextId(q), "wake")
    /\ UNCHANGED <<lease, worker, file, owed, rejected, starts, panics>>

Heard(w, j) ==
    /\ calls[w][j] = "wake" /\ worker[w].thread # "dead" /\ CallAt(w, j, "none")
    /\ UNCHANGED <<q, lease, worker, file, owed, rejected, starts, panics>>

\* Nobody receives: the submit will return an error and takes the job back first.
Unheard(w, j) ==
    /\ calls[w][j] = "wake" /\ worker[w].thread = "dead" /\ CallAt(w, j, "cancel")
    /\ rejected' = rejected \cup {j}
    /\ UNCHANGED <<q, lease, worker, file, owed, starts, panics>>

\* By now the job may be pending, active or over.  Neither this call nor the next
\* is repeated when the queue is Busy.
TakeBack(w, j) ==
    /\ calls[w][j] = "cancel"
    /\ \/ q' = Cancelled(q, j) /\ CallAt(w, j, IF q.active = j THEN "finish" ELSE "none")
       \/ q' = q /\ CallAt(w, j, "none")
    /\ UNCHANGED <<lease, worker, file, owed, rejected, starts, panics>>

FinishTakenBack(w, j) ==
    /\ calls[w][j] = "finish" /\ CallAt(w, j, "none")
    /\ q' \in {q, FinishedCancelled(q, j)}
    /\ UNCHANGED <<lease, worker, file, owed, rejected, starts, panics>>

-----------------------------------------------------------------------------
(* The owner.                                                                 *)

Step(w, state) == worker' = [worker EXCEPT ![w] = state]
OwnerOnly == UNCHANGED <<q, calls, file, rejected, panics>>

\* shutdown(self) stops the worker and then drops it, which stops it again.
Returning(w) == worker[w].pc \in {"released", "again"}

Claim(w) ==
    /\ w = starts + 1 /\ ~ lease
    /\ Overlap \/ \A v \in Workers : ~ Returning(v)
    /\ lease' = TRUE /\ starts' = starts + 1
    /\ Step(w, [NoWorker EXCEPT !.pc = "claimed"])
    /\ OwnerOnly /\ UNCHANGED owed

Spawn(w) ==
    /\ worker[w].pc = "claimed"
    /\ \/ /\ lease' = lease
          /\ Step(w, [NoWorker EXCEPT !.pc = "running", !.thread = "top"])
       \/ /\ lease' = FALSE
          /\ Step(w, NoWorker)
    /\ OwnerOnly /\ UNCHANGED <<owed, starts>>

\* Dropping a worker is one pass over stop_and_join, shutdown() is two.  Both
\* need the worker to themselves: no submit through it is under way.
Stop(w) ==
    /\ worker[w].pc = "running" /\ \A j \in Jobs : calls[w][j] = "none"
    /\ \E passes \in {1, 2} : Step(w, [worker[w] EXCEPT !.pc = "stop", !.passes = passes])
    /\ owed' = [owed EXCEPT ![w] = Live(q)]
    /\ OwnerOnly /\ UNCHANGED <<lease, starts>>

ToDo(jobs, how) == [i \in DOMAIN jobs |-> [job |-> jobs[i], how |-> how[jobs[i]]]]
ByCancelling == [j \in Jobs |-> "cancel"]

SweepPendingOnly == q.pending
\* cancel_accepted_jobs: the jobs to cancel, of one snapshot.
Sweep == States(q)

StopSnapshot(w) ==
    /\ worker[w].pc = "stop"
    /\ Step(w, [worker[w] EXCEPT !.pc = "sweep", !.todo = ToDo(Sweep, ByCancelling)])
    /\ OwnerOnly /\ UNCHANGED <<lease, owed, starts>>

\* One job of a snapshot, whatever has become of it meanwhile.
Settle(w) ==
    /\ worker[w].todo # <<>>
    /\ LET next == Head(worker[w].todo) IN
         q' = CASE next.how = "cancel" -> Cancelled(q, next.job)
                [] next.how = "finish" -> FinishedCancelled(q, next.job)
                [] next.how = "fail"   -> Failed(q, next.job)
    /\ Step(w, [worker[w] EXCEPT !.todo = Tail(@)])
    /\ UNCHANGED <<lease, calls, file, owed, rejected, starts, panics>>

HangUp(w) ==
    /\ worker[w].pc = "sweep" /\ worker[w].todo = <<>>
    /\ Step(w, [worker[w] EXCEPT !.pc = "joining"])
    /\ OwnerOnly /\ UNCHANGED <<lease, owed, starts>>

OrphansAfterPanic(thread) == IF thread = "dead" THEN 1 ELSE 0
\* finish_orphaned_jobs runs once, and once more before that after a panic.
OrphanRounds(thread) == IF thread = "dead" THEN 2 ELSE 1

JoinedAtOnce(w) ==
    /\ worker[w].pc = "joining"
    /\ Step(w, [worker[w] EXCEPT !.pc = "finish", !.rounds = OrphanRounds(worker[w].thread)])
    /\ OwnerOnly /\ UNCHANGED <<lease, owed, starts>>
Joined(w) ==
    /\ worker[w].pc = "joining" /\ ~ Alive(w)
    /\ Step(w, [worker[w] EXCEPT !.pc = "finish", !.thread = "none", !.job = None,
                                 !.rounds = OrphanRounds(worker[w].thread)])
    /\ OwnerOnly /\ UNCHANGED <<lease, owed, starts>>

\* What finish_orphaned_jobs does to each job follows from one snapshot.
ByFinishing ==
    [j \in Jobs |-> IF q.active # j THEN "cancel" ELSE IF Requested(q, j) THEN "finish" ELSE "fail"]

OrphanSnapshot(w) ==
    /\ worker[w].pc \in {"finish", "again"} /\ worker[w].todo = <<>> /\ worker[w].rounds > 0
    /\ Step(w, [worker[w] EXCEPT !.todo = ToDo(States(q), ByFinishing), !.rounds = @ - 1])
    /\ OwnerOnly /\ UNCHANGED <<lease, owed, starts>>

\* release_worker stores FALSE, whoever holds the lease.
Release(w) ==
    /\ worker[w].pc \in {"finish", "again"} /\ worker[w].todo = <<>> /\ worker[w].rounds = 0
    /\ lease' = FALSE
    /\ Step(w, [worker[w] EXCEPT !.pc = IF worker[w].passes = 2 THEN "released" ELSE "none",
                                 !.passes = @ - 1])
    /\ OwnerOnly /\ UNCHANGED <<owed, starts>>

\* The drop at the end of shutdown(): nothing to sweep or join any more, but the
\* orphans are looked for and the lease is released once more.
SecondPass(w) ==
    /\ worker[w].pc = "released"
    /\ Step(w, [worker[w] EXCEPT !.pc = "again", !.rounds = 1])
    /\ OwnerOnly /\ UNCHANGED <<lease, owed, starts>>

-----------------------------------------------------------------------------
(* The thread: run_worker and run_active_job.                                 *)

Go(w, pc) == Step(w, [worker[w] EXCEPT !.thread = pc])
ThreadOnly == UNCHANGED <<lease, calls, owed, rejected, starts>>

Top(w) ==
    /\ worker[w].thread = "top"
    /\ Step(w, [worker[w] EXCEPT !.thread = "look", !.sweep = IF ShutDown(w) THEN Sweep ELSE <<>>])
    /\ ThreadOnly /\ UNCHANGED <<q, file, panics>>

ThreadSweep(w) ==
    /\ worker[w].thread = "look" /\ worker[w].sweep # <<>>
    /\ q' = Cancelled(q, Head(worker[w].sweep))
    /\ Step(w, [worker[w] EXCEPT !.sweep = Tail(@)])
    /\ ThreadOnly /\ UNCHANGED <<file, panics>>

\* active_snapshot
Look(w) ==
    /\ worker[w].thread = "look" /\ worker[w].sweep = <<>>
    /\ Step(w, IF q.active = None THEN [worker[w] EXCEPT !.thread = "check", !.job = None]
               ELSE [worker[w] EXCEPT !.thread = "export", !.job = q.active])
    /\ ThreadOnly /\ UNCHANGED <<q, file, panics>>

Check(w) ==
    /\ worker[w].thread = "check"
    /\ Go(w, IF ShutDown(w) THEN "exited" ELSE "idle")
    /\ ThreadOnly /\ UNCHANGED <<q, file, panics>>

\* recv_timeout: a wake, the timeout, or the end of the sender.
Wake(w) ==
    /\ worker[w].thread = "idle" /\ Go(w, "top")
    /\ ThreadOnly /\ UNCHANGED <<q, file, panics>>

Disconnect(w) ==
    /\ worker[w].thread = "idle" /\ HungUp(w) /\ Go(w, "exited")
    /\ ThreadOnly /\ UNCHANGED <<q, file, panics>>

\* The encoder takes as long as it likes, and may fail with or without a request.
ExportFails(w) ==
    /\ worker[w].thread = "export" /\ Go(w, "failed")
    /\ ThreadOnly /\ UNCHANGED <<q, file, panics>>

\* The last look at the token; publishing follows whatever happens to it then.
ExportReady(w) ==
    /\ worker[w].thread = "export" /\ ~ Requested(q, worker[w].job) /\ Go(w, "publish")
    /\ ThreadOnly /\ UNCHANGED <<q, file, panics>>

ExportPanics(w) ==
    /\ worker[w].thread = "export" /\ panics < MaxPanics
    /\ panics' = panics + 1 /\ Go(w, "dead")
    /\ ThreadOnly /\ UNCHANGED <<q, file>>

\* The child is polled with the token and killed, the staged output removed.
ExportCancelled(w) ==
    /\ worker[w].thread = "export" /\ Requested(q, worker[w].job) /\ Go(w, "cancelled")
    /\ ThreadOnly /\ UNCHANGED <<q, file, panics>>

\* publish_without_replacement
Publish(w) ==
    /\ worker[w].thread = "publish"
    /\ \/ Go(w, "published") /\ file' = [file EXCEPT ![worker[w].job] = "published"]
       \/ Go(w, "failed") /\ file' = file
    /\ ThreadOnly /\ UNCHANGED <<q, panics>>

\* complete; with a request meanwhile the file is withdrawn, and a job that is no
\* longer active is not this thread's any more.
Finish(w) ==
    LET j == worker[w].job IN
    /\ worker[w].thread = "published"
    /\ q' = Completed(q, j)
    /\ Go(w, IF q.active = j /\ Requested(q, j) THEN "withdraw" ELSE "top")
    /\ ThreadOnly /\ UNCHANGED <<file, panics>>

WithdrawNothing(w) ==
    /\ worker[w].thread = "withdraw" /\ Go(w, "cancelled")
    /\ ThreadOnly /\ UNCHANGED <<q, file, panics>>
\* remove_file, whose failure is ignored.
Withdraw(w) ==
    /\ worker[w].thread = "withdraw" /\ Go(w, "cancelled")
    /\ \E left \in {"none", "left"} : file' = [file EXCEPT ![worker[w].job] = left]
    /\ ThreadOnly /\ UNCHANGED <<q, panics>>

\* fail_or_cancel: a failure under a request is a cancellation.
Fail(w) ==
    LET j == worker[w].job IN
    /\ worker[w].thread = "failed"
    /\ q' = Failed(q, j)
    /\ Go(w, IF q.active = j /\ Requested(q, j) THEN "cancelled" ELSE "top")
    /\ ThreadOnly /\ UNCHANGED <<file, panics>>

\* finish_cancelled: a backend that stopped unasked has failed.
FinishCancelled(w) ==
    LET j == worker[w].job IN
    /\ worker[w].thread = "cancelled" /\ Go(w, "top")
    /\ q' = IF Requested(q, j) THEN FinishedCancelled(q, j) ELSE Failed(q, j)
    /\ ThreadOnly /\ UNCHANGED <<file, panics>>

-----------------------------------------------------------------------------
Client == Submit \/ (\E j \in Jobs : Cancel(j)) \/ (\E w \in Workers : SubmitThrough(w))

Call(w, j) == Heard(w, j) \/ Unheard(w, j) \/ TakeBack(w, j) \/ FinishTakenBack(w, j)

Stopping(w) ==
    StopSnapshot(w) \/ Settle(w) \/ HangUp(w) \/ Joined(w) \/ OrphanSnapshot(w)
    \/ Release(w) \/ SecondPass(w)

Owner(w) == Claim(w) \/ Spawn(w) \/ Stop(w) \/ Stopping(w)

Encoder(w) == ExportFails(w) \/ ExportReady(w) \/ ExportPanics(w)

Thread(w) ==
    Top(w) \/ ThreadSweep(w) \/ Look(w) \/ Check(w) \/ Wake(w) \/ Disconnect(w)
    \/ ExportCancelled(w) \/ Publish(w) \/ Finish(w) \/ Withdraw(w) \/ Fail(w)
    \/ FinishCancelled(w)

Next ==
    \/ Client
    \/ \E w \in Workers, j \in Jobs : Call(w, j)
    \/ \E w \in Workers : Owner(w) \/ Encoder(w) \/ Thread(w)

Spec == Init /\ [][Next]_vars

\* A submit or a stop under way and a thread that is not inside the encoder keep
\* going.  The encoder has no time limit: only a cancellation is sure to end it.
Fairness ==
    /\ \A w \in Workers, j \in Jobs : WF_vars(Call(w, j))
    /\ \A w \in Workers : WF_vars(Spawn(w) \/ Stopping(w)) /\ WF_vars(Thread(w))

FairSpec == Spec /\ Fairness

-----------------------------------------------------------------------------
(* Properties.                                                                *)

WorkerType ==
    [pc: {"none", "claimed", "running", "stop", "sweep", "joining", "finish", "released", "again"},
     passes: 0 .. 2, todo: Seq([job: Jobs, how: {"cancel", "finish", "fail"}]),
     rounds: 0 .. 2,
     thread: Gone \cup {"top", "look", "check", "idle", "export", "publish", "published",
                        "withdraw", "failed", "cancelled"},
     job: Jobs \cup {None}, sweep: Seq(Jobs)]

\* The type of every variable, and the shape of the queue behind it: what is not
\* over is active or pending exactly once, and nobody waits behind an empty slot.
TypeOK ==
    /\ QueueSound(q)
    /\ lease \in BOOLEAN
    /\ worker \in [Workers -> WorkerType]
    /\ calls \in [Workers -> [Jobs -> {"none", "wake", "cancel", "finish"}]]
    /\ file \in [Jobs -> {"none", "published", "left"}]
    /\ owed \in [Workers -> SUBSET Jobs]
    /\ rejected \subseteq Jobs
    /\ starts \in 0 .. MaxWorkers /\ panics \in 0 .. MaxPanics

\* queue.rs:281, "Claim the single executor lease associated with this queue.":
\* never do two threads execute jobs of one queue.
OneExecutor == Cardinality({w \in Workers : Alive(w)}) <= 1

\* A terminal record tells what happened, wherever a thread died, a request came in
\* or a submit took its job back.  Completed: the file is there and nobody had asked
\* to cancel.  Cancelled or failed: nothing lies at the destination, or what could
\* not be removed again.
OutcomeTruthful ==
    \A j \in Over(q) :
        IF q.outcome[j] = "completed"
        THEN file[j] = "published" /\ ~ Requested(q, j)
        ELSE file[j] # "published"

\* A stop leaves no job behind: whatever was accepted before it is over when the
\* worker is gone, though the thread may have panicked, may never have heard of
\* the job, or may have had others promoted under its hands.
ShutdownAnswersAll ==
    \A w \in Workers : worker[w].pc \in {"none", "released", "again"} => owed[w] \subseteq Over(q)

Service ==
    INSTANCE ExportService WITH
        Room <- PendingLimit, outcome <- q.outcome, asked <- q.tokens, refused <- rejected,
        executors <- Cardinality({w \in Workers : Alive(w)})

\* The worker is an ExportService, whoever starts, stops, drops or loses executors
\* meanwhile: one line and one executor for it, a file only for the first in line, and
\* ends that are final and say what happened.  A submit that returns an error does so
\* when nobody serves, and its job is neither published nor completed after that.
ExportsServed == Service!Spec

\* The thread took a job that was submitted on the queue behind the sweep's back,
\* between its own look at the shutdown flag and its look at the queue.
BehindTheSweep(w) ==
    worker[w].thread = "export" /\ worker[w].job \notin owed[w] /\ ~ Requested(q, worker[w].job)

\* To ask for an end is to get it. As long as a thread serves the queue, a job that
\* was asked to stop ends, however long its encoder would still have run; and a stop
\* of the worker returns, never joining on an encoder nobody asked to stop. The one
\* exception is a job the stop could not know of, which runs to its end.
StopsTakeEffect ==
    /\ \A j \in Jobs : Requested(q, j) ~> (j \in Over(q) \/ \A w \in Workers : ~ Alive(w))
    /\ \A w \in Workers : worker[w].pc = "stop" ~> (worker[w].pc = "none" \/ BehindTheSweep(w))
=============================================================================
