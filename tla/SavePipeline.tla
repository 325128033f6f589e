---------------------------- MODULE SavePipeline ----------------------------
(* Saving a replay: the controller (crates/app-controller/src/controller.rs), *)
(* the save worker it owns (jobs.rs), the staged file the muxer writes and    *)
(* publishes (crates/muxer/src/mp4_muxer.rs), and the folder they share with  *)
(* the clip library, which renames and deletes clips on a thread of its own.  *)
(*                                                                            *)
(* The shell holds a mutex around the controller, so commands never overlap;  *)
(* a save worker runs beside them, and for the length of one drop two of them *)
(* do.  Every command is poll; command; poll, and its steps are what lies     *)
(* between two points where the worker can be noticed.                        *)
(*                                                                            *)
(* Abstractions.  The engine is "none", "live" or "error" (RecorderEngine     *)
(* has the rest); whether the buffer can be saved, the free-space probe, the  *)
(* muxer's validation and every file error are choices.  A clip path is a     *)
(* member of Names, and next_clip_path takes any free one: the clock renders  *)
(* a different name every second.  Export locks, metrics and notifications    *)
(* are left out.                                                              *)
EXTENDS Naturals, Sequences, FiniteSets, SequencesExt

CONSTANTS
    QueueBound,  \* SAVE_QUEUE_BOUND: of the queue and of the results
    Names,       \* clip paths
    MaxSaves,    \* bound: save requests that reach submit
    MaxMoves,    \* bound: requests whose clip the library renames
    MaxKills     \* bound: times the process dies

ASSUME QueueBoundAssumption == QueueBound \in Nat \ {0}
ASSUME MaxSavesAssumption == MaxSaves \in Nat
ASSUME MaxMovesAssumption == MaxMoves \in Nat
ASSUME MaxKillsAssumption == MaxKills \in Nat

VARIABLES
    pc,         \* where the controller is in a command
    engine,     \* Controller.engine and its state
    reserved,   \* Controller.reserved_paths
    workers,    \* save workers: Controller.save_worker and the one being dropped
    collected,  \* results gathered by shutdown and not yet mapped
    name,       \* clip_path of each request on its way, in its SaveWork or SaveResult
    verdict,    \* auxiliary: what the controller said of each request
    clips,      \* which request's footage lies under each clip path
    parts,      \* clip paths with a .part file
    stale,      \* auxiliary: the part files a killed process left
    written,    \* auxiliary: requests whose clip was published
    moved,      \* auxiliary: requests whose clip the library renamed
    kills       \* auxiliary: times the process died

folder == <<clips, parts, stale, written, moved>>
vars == <<pc, engine, reserved, workers, collected, name, verdict, folder, kills>>

Saves == 1 .. MaxSaves
None == 0
Roles == {"kept", "dropped"}
Commands == {"start", "stop", "save", "tail"}

NoWorker == [thread |-> "none", open |-> FALSE, heard |-> FALSE,
             queue |-> <<>>, hand |-> None, phase |-> "idle", results |-> <<>>]
FreshWorker == [NoWorker EXCEPT !.thread = "running", !.open = TRUE, !.heard = TRUE]

Init ==
    /\ pc = "idle" /\ engine = "none" /\ reserved = {} /\ collected = <<>>
    /\ workers = [r \in Roles |-> NoWorker]
    /\ name = [s \in Saves |-> None]
    /\ verdict = [s \in Saves |-> "unasked"]
    /\ clips = [n \in Names |-> None]
    /\ parts = {} /\ stale = {} /\ written = {} /\ moved = {} /\ kills = 0

-----------------------------------------------------------------------------
(* Requests on their way, in the order they were accepted.                    *)

InHand(w) == IF w.hand = None THEN <<>> ELSE <<w.hand>>
SavesIn(rs) == [i \in DOMAIN rs |-> rs[i].save]
Flow(w) == SavesIn(w.results) \o InHand(w) \o w.queue

Pending == SavesIn(collected) \o Flow(workers["kept"])
InFlight == ToSet(Pending) \cup ToSet(Flow(workers["dropped"]))

Abandoned(lost) == [s \in Saves |-> IF s \in lost THEN "abandoned" ELSE verdict[s]]

-----------------------------------------------------------------------------
(* The controller: polling.                                                   *)

\* map_save_results: every result frees its name and becomes an event.
MapResults(rs) ==
    /\ name' = [s \in Saves |-> IF s \in ToSet(SavesIn(rs)) THEN None ELSE name[s]]
    /\ reserved' = reserved \ {name[rs[i].save] : i \in DOMAIN rs}
    /\ verdict' = [s \in Saves |-> IF \E r \in ToSet(rs) : r.save = s
                                   THEN (CHOOSE r \in ToSet(rs) : r.save = s).told
                                   ELSE verdict[s]]

\* pump can only bring bad news here: a live engine may turn out to have failed.
PumpEngine == engine' \in (IF engine = "live" THEN {"live", "error"} ELSE {engine})

PollResults ==
    /\ PumpEngine
    /\ MapResults(workers["kept"].results)
    /\ workers' = [workers EXCEPT !["kept"].results = <<>>]
    /\ UNCHANGED <<collected, folder, kills>>

\* Poll runs no command of its own and goes straight to the second poll.
Begin(command) == pc = "idle" /\ pc' = command /\ PollResults
End == pc = "tail" /\ pc' = "idle" /\ PollResults

Unchanged == UNCHANGED <<engine, reserved, workers, collected, name, verdict, folder, kills>>

-----------------------------------------------------------------------------
(* The controller: SaveReplay.                                                *)

\* No engine, too little buffered, or a failing snapshot: nothing is kept.
SaveRefused == pc = "save" /\ pc' = "tail" /\ Unchanged

NextSave == CHOOSE s \in Saves : verdict[s] = "unasked" /\ \A t \in 1 .. s - 1 : verdict[t] # "unasked"
FreeNamesUnreserved == {n \in Names : clips[n] = None /\ n \notin parts}
FreeNamesOffDisk == {n \in Names : n \notin parts /\ n \notin reserved}
FreeNames == {n \in Names : clips[n] = None /\ n \notin parts /\ n \notin reserved}

RejectsStopped(w) == w.thread # "running"
\* try_send: the queue is full, or the worker is gone.
Rejects(w) == Len(w.queue) = QueueBound \/ w.thread # "running"

SaveSubmits ==
    /\ pc = "save" /\ engine # "none" /\ workers["kept"].open
    /\ \E s \in Saves : verdict[s] = "unasked"
    /\ \E n \in FreeNames :
         IF Rejects(workers["kept"])
         THEN /\ verdict' = [verdict EXCEPT ![NextSave] = "refused"]
              /\ UNCHANGED <<reserved, workers, name>>
         ELSE /\ verdict' = [verdict EXCEPT ![NextSave] = "accepted"]
              /\ reserved' = reserved \cup {n}
              /\ name' = [name EXCEPT ![NextSave] = n]
              /\ workers' = [workers EXCEPT !["kept"].queue = Append(@, NextSave)]
    /\ pc' = "tail"
    /\ UNCHANGED <<engine, collected, folder, kills>>

-----------------------------------------------------------------------------
(* The controller: StartCapture.                                              *)

\* A live engine is left alone; a failed one is stopped and gone even when the
\* settings are then rejected.
StartRejected ==
    /\ pc = "start" /\ pc' = "tail"
    /\ engine' = IF engine = "live" THEN "live" ELSE "none"
    /\ UNCHANGED <<reserved, workers, collected, name, verdict, folder, kills>>

\* cleanup_staged_files removes what it finds until a removal fails.
StartCleans ==
    /\ pc = "start" /\ engine # "live"
    /\ pc' = "install" /\ engine' = "none"
    /\ parts' \in SUBSET parts
    /\ stale' = stale \cap parts'
    /\ UNCHANGED <<reserved, workers, collected, name, verdict, clips, written, moved, kills>>

StartFails ==
    /\ pc = "install" /\ pc' = "tail" /\ Unchanged

\* The new worker takes the old one's place, and the old one is dropped: its
\* channels close, and what it still owed will not be reported.
StartInstalls ==
    /\ pc = "install" /\ pc' = "replace"
    /\ engine' = "live"
    /\ LET old == workers["kept"] IN
         /\ workers' = [kept |-> FreshWorker,
                        dropped |-> [old EXCEPT !.open = FALSE, !.heard = FALSE, !.results = <<>>]]
         /\ verdict' = Abandoned(ToSet(Flow(old)))
    /\ UNCHANGED <<reserved, collected, name, folder, kills>>

\* Drop joins the old thread.
Replaced ==
    /\ pc = "replace" /\ workers["dropped"].thread # "running"
    /\ pc' = "tail"
    /\ workers' = [workers EXCEPT !["dropped"] = NoWorker]
    /\ UNCHANGED <<engine, reserved, collected, name, verdict, folder, kills>>

-----------------------------------------------------------------------------
(* The controller: StopCapture.                                               *)

StopRejected == pc = "stop" /\ engine = "none" /\ pc' = "tail" /\ Unchanged

StopBegins ==
    /\ pc = "stop" /\ engine # "none"
    /\ engine' = "none"
    /\ pc' = IF workers["kept"].thread = "none" THEN "tail" ELSE "drain"
    /\ workers' = [workers EXCEPT !["kept"].open = FALSE]
    /\ UNCHANGED <<reserved, collected, name, verdict, folder, kills>>

JoinWithoutDraining == FALSE /\ UNCHANGED vars
\* shutdown keeps emptying the bounded result channel while it waits.
DrainWhileWaiting ==
    /\ pc = "drain" /\ workers["kept"].thread = "running"
    /\ workers["kept"].results # <<>>
    /\ collected' = collected \o workers["kept"].results
    /\ workers' = [workers EXCEPT !["kept"].results = <<>>]
    /\ UNCHANGED <<pc, engine, reserved, name, verdict, folder, kills>>

StopReportsLast ==
    /\ pc = "drain" /\ workers["kept"].thread = "exited"
    /\ MapResults(workers["kept"].results)
    /\ collected' = <<>>
    /\ workers' = [workers EXCEPT !["kept"] = NoWorker]
    /\ pc' = "tail"
    /\ UNCHANGED <<engine, folder, kills>>

\* The worker has exited: everything it delivered is reported, then Stopped.
StopReports ==
    /\ pc = "drain" /\ workers["kept"].thread = "exited"
    /\ MapResults(collected \o workers["kept"].results)
    /\ collected' = <<>>
    /\ workers' = [workers EXCEPT !["kept"] = NoWorker]
    /\ pc' = "tail"
    /\ UNCHANGED <<engine, folder, kills>>

-----------------------------------------------------------------------------
(* The save worker.                                                           *)

Controller == <<pc, engine, reserved, collected, name, verdict, kills>>

\* recv hands out what is queued even after the sender is gone.
Take(r) ==
    /\ workers[r].thread = "running" /\ workers[r].hand = None /\ workers[r].queue # <<>>
    /\ workers' = [workers EXCEPT ![r].hand = Head(workers[r].queue),
                                  ![r].queue = Tail(@), ![r].phase = "taken"]
    /\ UNCHANGED <<Controller, folder>>

Exit(r) ==
    /\ workers[r].thread = "running" /\ workers[r].hand = None
    /\ workers[r].queue = <<>> /\ ~ workers[r].open
    /\ workers' = [workers EXCEPT ![r].thread = "exited"]
    /\ UNCHANGED <<Controller, folder>>

Outcome(r, phase) == workers' = [workers EXCEPT ![r].phase = phase]

\* No space, no folder or a snapshot that cannot be muxed: no file was opened.
FailUnopened(r) ==
    /\ workers[r].phase = "taken" /\ Outcome(r, "failed")
    /\ UNCHANGED <<Controller, folder>>

\* write_staged_mp4 creates or truncates the part file.
Stage(r) ==
    /\ workers[r].phase = "taken" /\ Outcome(r, "staged")
    /\ parts' = parts \cup {name[workers[r].hand]}
    /\ stale' = stale \ {name[workers[r].hand]}
    /\ UNCHANGED <<Controller, clips, written, moved>>

PublishUnvalidated(r) ==
    LET s == workers[r].hand IN
    /\ workers[r].phase = "staged" /\ name[s] \in parts
    /\ Outcome(r, "saved") \/ Outcome(r, "failed")
    /\ clips' = [clips EXCEPT ![name[s]] = s]
    /\ parts' = parts \ {name[s]}
    /\ written' = written \cup {s}
    /\ UNCHANGED <<Controller, stale, moved>>

\* The validated part is renamed over the final path, whatever lies there.
Publish(r) ==
    LET s == workers[r].hand IN
    /\ workers[r].phase = "staged" /\ name[s] \in parts /\ Outcome(r, "saved")
    /\ clips' = [clips EXCEPT ![name[s]] = s]
    /\ parts' = parts \ {name[s]}
    /\ written' = written \cup {s}
    /\ UNCHANGED <<Controller, stale, moved>>

FailStagedUnguarded(r) ==
    /\ workers[r].phase = "staged" /\ Outcome(r, "failed")
    /\ UNCHANGED <<Controller, folder>>

\* Writing, validating or renaming fails: the guard removes the part file.
FailStaged(r) ==
    /\ workers[r].phase = "staged" /\ Outcome(r, "failed")
    /\ parts' = parts \ {name[workers[r].hand]}
    /\ UNCHANGED <<Controller, clips, stale, written, moved>>

\* send waits for room; a closed channel ends the thread and its queue with it.
Deliver(r) ==
    LET w == workers[r] IN
    /\ w.phase \in {"saved", "failed"}
    /\ w.heard => Len(w.results) < QueueBound
    /\ workers' = [workers EXCEPT ![r] =
         [w EXCEPT !.hand = None, !.phase = "idle",
                   !.results = IF w.heard THEN Append(@, [save |-> w.hand, told |-> w.phase]) ELSE @,
                   !.queue   = IF w.heard THEN @ ELSE <<>>,
                   !.thread  = IF w.heard THEN @ ELSE "exited"]]
    /\ UNCHANGED <<Controller, folder>>

Worker(r) == Take(r) \/ Exit(r) \/ FailUnopened(r) \/ Stage(r) \/ Publish(r)
             \/ FailStaged(r) \/ Deliver(r)

-----------------------------------------------------------------------------
(* The clip library's thread, and the end of the process.                     *)

Pipeline == <<Controller, workers, parts, stale, written>>

\* The library sees files, never the controller's reservations.
LibraryRename(from, to) ==
    /\ clips[from] # None /\ clips[to] = None
    /\ clips' = [clips EXCEPT ![to] = clips[from], ![from] = None]
    /\ moved' = moved \cup {clips[from]} /\ Cardinality(moved') <= MaxMoves
    /\ UNCHANGED Pipeline

LibraryDelete(n) ==
    /\ clips[n] # None
    /\ clips' = [clips EXCEPT ![n] = None]
    /\ UNCHANGED <<Pipeline, moved>>

\* Files outlive the process; threads, channels and reservations do not.
Kill ==
    /\ kills < MaxKills /\ kills' = kills + 1
    /\ pc' = "idle" /\ engine' = "none" /\ reserved' = {} /\ collected' = <<>>
    /\ workers' = [r \in Roles |-> NoWorker]
    /\ verdict' = Abandoned(InFlight)
    /\ name' = [s \in Saves |-> None]
    /\ stale' = parts
    /\ UNCHANGED <<clips, parts, written, moved>>

Proceed ==
    \/ SaveRefused \/ SaveSubmits
    \/ StartRejected \/ StartCleans \/ StartFails \/ StartInstalls \/ Replaced
    \/ StopRejected \/ StopBegins \/ DrainWhileWaiting \/ StopReports
    \/ End

Library ==
    \/ \E from, to \in Names : LibraryRename(from, to)
    \/ \E n \in Names : LibraryDelete(n)

Next ==
    \/ \E command \in Commands : Begin(command)
    \/ Proceed
    \/ \E r \in Roles : Worker(r)
    \/ Library \/ Kill

Spec == Init /\ [][Next]_vars

\* The shell polls every 25 ms, a command runs to its end, and a thread with
\* work to do does it.
Fairness ==
    /\ WF_vars(Begin("tail")) /\ WF_vars(Proceed)
    /\ \A r \in Roles : WF_vars(Worker(r))

FairSpec == Spec /\ Fairness

-----------------------------------------------------------------------------
(* Properties.                                                                *)

WorkerType ==
    [thread: {"none", "running", "exited"}, open: BOOLEAN, heard: BOOLEAN,
     queue: Seq(Saves), hand: Saves \cup {None},
     phase: {"idle", "taken", "staged", "saved", "failed"},
     results: Seq([save: Saves, told: {"saved", "failed"}])]

\* The type of every variable, with both channels within their bound.
TypeOK ==
    /\ pc \in {"idle", "install", "replace", "drain"} \cup Commands
    /\ engine \in {"none", "live", "error"}
    /\ reserved \subseteq Names
    /\ workers \in [Roles -> WorkerType]
    /\ \A r \in Roles : Len(workers[r].queue) <= QueueBound /\ Len(workers[r].results) <= QueueBound
    /\ collected \in Seq([save: Saves, told: {"saved", "failed"}])
    /\ name \in [Saves -> Names \cup {None}]
    /\ verdict \in [Saves -> {"unasked", "refused", "accepted", "abandoned", "saved", "failed"}]
    /\ clips \in [Names -> Saves \cup {None}]
    /\ parts \subseteq Names /\ stale \subseteq parts
    /\ written \subseteq Saves /\ moved \subseteq Saves
    /\ kills \in 0 .. MaxKills

\* The pipeline keeps the service's promise: requests are answered once, in the
\* order they were accepted, across polls, shutdowns and replaced workers.
Service == INSTANCE SaveService WITH pending <- Pending
ServiceKept == Service!Spec

\* Two requests on their way never have the same file, and the names of both are
\* reserved, also while the worker that holds one of them is being dropped.
NamesExclusive ==
    /\ \A s \in InFlight : name[s] \in reserved
    /\ \A s, t \in InFlight : s # t => name[s] # name[t]

\* What the user is told is what happened: ClipSaved only of a published clip,
\* SaveFailed only of one that never reached the folder.
VerdictsTruthful ==
    \A s \in Saves : /\ verdict[s] = "saved" => s \in written
                     /\ verdict[s] = "failed" => s \notin written

\* A part file on disk is being written by a worker, or is what a killed process
\* left: no failure, no stop and no replacement leaves one behind (STO-008).
PartsAccounted ==
    parts \subseteq stale \cup {name[workers[r].hand] : r \in {q \in Roles : workers[q].phase = "staged"}}

\* A clip that is replaced on disk is one the library renamed: no save ever
\* writes over the clip of another save, whatever the interleaving.
OnlyMovedReplaced ==
    [][\A n \in Names : clips[n] # None /\ clips'[n] # clips[n]
           => clips'[n] = None \/ clips[n] \in moved]_vars

\* Nobody waits for ever. Every accepted request is answered or given up, though
\* result channels fill, sessions stop and threads go away; and every command
\* returns: shutting down never waits on a worker that waits for the results to be
\* read, and dropping a worker ends.
NobodyWaitsForever ==
    /\ \A s \in Saves : verdict[s] = "accepted" ~> verdict[s] # "accepted"
    /\ pc # "idle" ~> pc = "idle"

\* MUX-011 of spec.md, "The application must report save failures with actionable
\* messages": as long as the process lives, an accepted save is never given up in
\* silence.
FailuresReported == kills = 0 => \A s \in Saves : verdict[s] # "abandoned"
=============================================================================
