--------------------------- MODULE RecorderEngine ---------------------------
(* The recorder engine (crates/recorder-engine): its lifecycle states, the    *)
(* video worker that captures, encodes and fills the replay buffer, the audio *)
(* worker, and the bounded event queue by which the workers reach the         *)
(* controller thread.                                                         *)
(*                                                                            *)
(* Two threads matter.  The controller thread calls the engine's methods; the *)
(* video worker runs run_video_worker.  They share the buffer mutex, the      *)
(* shutdown flag and the event queue, and each step below is what a thread    *)
(* does between two such synchronizations.                                    *)
(*                                                                            *)
(* Abstractions.  The buffer keeps what ReplayBuffer promises: which codec    *)
(* generations the retained video belongs to, which generation the registered *)
(* descriptor's initialization bytes belong to, and whether it is primed      *)
(* (inserting never unprimes it, see PrimedStays there).  A generation is one *)
(* configuration of the encoder: FallbackVideoEncoder::epoch.  Event payloads *)
(* are dropped; Warning and StateChanged, which pump hands on unread, are     *)
(* both "Other".  Sleeping between attempts and mutex poisoning are left out. *)
EXTENDS Integers, Sequences, FiniteSets

CONSTANTS
    QueueBound,    \* ENGINE_EVENT_QUEUE_BOUND
    RestartLimit,  \* VIDEO_RESTART_LIMIT
    StreamClashes, \* whether an audio input may reuse a registered stream id
    MaxFaults      \* bound: format changes, source losses, encoder faults, resumes
                   \* and retention changes, together

ASSUME QueueBoundAssumption == QueueBound \in Nat \ {0}
ASSUME RestartLimitAssumption == RestartLimit \in Nat \ {0}
ASSUME StreamClashesAssumption == StreamClashes \subseteq BOOLEAN
ASSUME MaxFaultsAssumption == MaxFaults \in Nat

VARIABLES
    state,      \* RecorderEngine.state
    parts,      \* pending_parts.is_some()
    ctl,        \* where the controller thread is in pump or stop
    queue,      \* the event channel
    drops,      \* event_drops > 0
    shutdown,   \* the flag shared with the workers
    pc,         \* where the video worker is
    cause,      \* what the worker recovers from
    attempts,   \* restart attempts of the running recovery
    probing,    \* scaling_mode is Preferred2xPending
    encGen,     \* generation of the active encoder
    seenGen,    \* the worker's encoder_epoch
    descGen,    \* generation of stream_descriptor.extradata, 0 = None
    inHand,     \* generations of the packets encode returned
    primedSent, \* the worker's primed_reported
    fellBack,   \* the encoder holds a Fallback event for the engine
    failed,     \* auxiliary: the worker has published WorkerFailed
    buffer,     \* the shared replay buffer
    audio,      \* the audio worker
    faults      \* auxiliary: faults so far

worker == <<pc, cause, attempts, probing, encGen, seenGen, descGen, inHand,
            primedSent, fellBack, failed>>
vars == <<state, parts, ctl, queue, drops, shutdown, worker, buffer, audio, faults>>

States == {"Stopped", "Starting", "Buffering", "Ready", "Saving", "Degraded",
           "Recovering", "Error", "Stopping"}
Events == {"Other", "Primed", "RecoveryStarted", "RecoveryCompleted", "Failed"}

-----------------------------------------------------------------------------
(* The lifecycle table.                                                       *)

AllowedFromErrorToo(from) ==
    CASE from = "Stopped"    -> {"Starting"}
      [] from = "Starting"   -> {"Buffering", "Error", "Stopping"}
      [] from = "Stopping"   -> {"Stopped"}
      [] OTHER -> {"Buffering", "Ready", "Saving", "Degraded", "Recovering", "Error", "Stopping"}
AllowedTransitions(from) ==
    CASE from = "Stopped"    -> {"Starting"}
      [] from = "Starting"   -> {"Buffering", "Error", "Stopping"}
      [] from = "Buffering"  -> {"Ready", "Degraded", "Recovering", "Error", "Stopping"}
      [] from = "Ready"      -> {"Saving", "Degraded", "Recovering", "Error", "Stopping"}
      [] from = "Saving"     -> {"Ready", "Degraded", "Error", "Stopping"}
      [] from = "Degraded"   -> {"Ready", "Saving", "Recovering", "Error", "Stopping"}
      [] from = "Recovering" -> {"Buffering", "Ready", "Degraded", "Error", "Stopping"}
      [] from = "Error"      -> {"Starting", "Stopping"}
      [] from = "Stopping"   -> {"Stopped"}

IsActive == state # "Stopped"

-----------------------------------------------------------------------------
(* The event queue: try_send, an event that does not fit is dropped.          *)

Fits(q, events) == Len(q) + Len(events) <= QueueBound

EnqueueUnbounded(q, events) == q \o events
Enqueue(q, events) ==
    SubSeq(q \o events, 1, IF Fits(q, events) THEN Len(q) + Len(events) ELSE QueueBound)

Publish(events) ==
    /\ queue' = Enqueue(queue, events)
    /\ drops' = (drops \/ ~ Fits(queue, events))

Silent == UNCHANGED <<queue, drops>>

-----------------------------------------------------------------------------
(* The shared buffer.                                                         *)

EmptyBuffer == [streams |-> {}, held |-> {}, desc |-> 0, primed |-> FALSE, sound |-> FALSE]

\* register_stream for the video stream: a fresh track under the worker's descriptor.
RegisteredVideo(b) ==
    [b EXCEPT !.streams = @ \cup {"video"}, !.held = {}, !.desc = descGen, !.primed = FALSE]

\* reset_video_buffer_epoch: a new epoch that keeps the registered streams.
ResetVideoOnly(b) == [RegisteredVideo(b) EXCEPT !.streams = {"video"}, !.sound = FALSE]
ResetEpoch(b) == [RegisteredVideo(b) EXCEPT !.sound = FALSE]

\* Inserting packets of some generations; they may complete the retention window.
Inserted(b, gens) ==
    IF gens = {} THEN {b}
    ELSE {[b EXCEPT !.held = @ \cup gens, !.primed = p] : p \in {b.primed, TRUE}}

-----------------------------------------------------------------------------

Init ==
    /\ state = "Stopped"
    /\ parts = TRUE
    /\ ctl = "idle"
    /\ queue = <<>>
    /\ drops = FALSE
    /\ shutdown = FALSE
    /\ pc = "none"
    /\ cause = "none"
    /\ attempts = 0
    /\ probing = FALSE
    /\ encGen = 0
    /\ seenGen = 0
    /\ descGen = 0
    /\ inHand = {}
    /\ primedSent = FALSE
    /\ fellBack = FALSE
    /\ failed = FALSE
    /\ buffer = EmptyBuffer
    /\ audio = "none"
    /\ faults = 0

Fault == faults < MaxFaults /\ faults' = faults + 1

-----------------------------------------------------------------------------
(* The controller thread.                                                     *)

\* transition_to with the event it publishes.
TransitionTo(target) ==
    /\ target \in AllowedTransitions(state)
    /\ state' = target
    /\ Publish(<<"Other">>)

\* start: the components are taken, the streams registered, the workers spawned.
Start ==
    /\ ctl = "idle"
    /\ parts
    /\ "Starting" \in AllowedTransitions(state)
    /\ parts' = FALSE
    /\ shutdown' = FALSE
    /\ buffer' = [buffer EXCEPT !.streams = {"video", "audio"}]
    /\ state' = "Buffering"
    /\ pc' = "configure"
    /\ audio' = "running"
    /\ Publish(<<"Other", "Other">>)
    /\ UNCHANGED <<ctl, cause, attempts, probing, encGen, seenGen, descGen, inHand,
                   primedSent, fellBack, failed, faults>>

\* start with an audio stream id that is already registered: the early return
\* inside the registration block leaves the taken components behind.
StartClash ==
    /\ TRUE \in StreamClashes
    /\ ctl = "idle"
    /\ parts
    /\ parts' = FALSE
    /\ TransitionTo("Starting")
    /\ buffer' = [buffer EXCEPT !.streams = @ \cup {"video"}]
    /\ UNCHANGED <<ctl, shutdown, worker, audio, faults>>

\* pump: drain the queue, check priming, drain again.
PumpBegin ==
    /\ ctl = "idle"
    /\ ctl' = "drain"
    /\ UNCHANGED <<state, parts, queue, drops, shutdown, worker, buffer, audio, faults>>

\* One event of pump_internal.  A transition_to inside it appends its StateChanged
\* to the queue being drained.
Handle(target, rest) ==
    /\ state' = target
    /\ queue' = Enqueue(rest, <<"Other">>)
    /\ drops' = (drops \/ ~ Fits(rest, <<"Other">>))

Ignore(rest) == queue' = rest /\ UNCHANGED <<state, drops>>

\* promote_if_primed: what is primed is read from the buffer, not from the event.
PromoteIfPrimed == state = "Buffering" /\ buffer.primed

PumpEvent ==
    /\ ctl \in {"drain", "drainAgain"}
    /\ queue # <<>>
    /\ LET event == Head(queue)
           rest == Tail(queue)
       IN  \/ /\ event = "Other"
              /\ Ignore(rest)
           \/ /\ event = "Primed"
              /\ IF PromoteIfPrimed THEN Handle("Ready", rest)
                 ELSE Ignore(rest)
           \/ /\ event = "Failed"
              /\ IF state # "Error" /\ "Error" \in AllowedTransitions(state)
                 THEN Handle("Error", rest) ELSE Ignore(rest)
           \/ /\ event = "RecoveryStarted"
              /\ IF "Recovering" \in AllowedTransitions(state)
                 THEN Handle("Recovering", rest) ELSE Ignore(rest)
           \/ /\ event = "RecoveryCompleted"
              /\ IF state = "Recovering" THEN Handle("Buffering", rest) ELSE Ignore(rest)
    /\ UNCHANGED <<parts, ctl, shutdown, worker, buffer, audio, faults>>

PumpWithoutPromote ==
    /\ ctl = "drain"
    /\ queue = <<>>
    /\ ctl' = "drainAgain"
    /\ UNCHANGED <<state, parts, queue, drops, shutdown, worker, buffer, audio, faults>>
PumpPromote ==
    /\ ctl = "drain"
    /\ queue = <<>>
    /\ ctl' = "drainAgain"
    /\ IF PromoteIfPrimed THEN TransitionTo("Ready") ELSE UNCHANGED state /\ Silent
    /\ UNCHANGED <<parts, shutdown, worker, buffer, audio, faults>>

PumpEnd ==
    /\ ctl = "drainAgain"
    /\ queue = <<>>
    /\ ctl' = "idle"
    /\ UNCHANGED <<state, parts, queue, drops, shutdown, worker, buffer, audio, faults>>

\* set_replay_retention_ms: a shorter window may prime the buffer, a longer one
\* may leave it short of a full window; the state is not revisited.
SetRetention ==
    /\ ctl = "idle"
    /\ Fault
    /\ \E primed \in IF buffer.held = {} THEN {FALSE} ELSE BOOLEAN :
          buffer' = [buffer EXCEPT !.primed = primed]
    /\ UNCHANGED <<state, parts, ctl, queue, drops, shutdown, worker, audio>>

\* notify_resume: discard the buffer, keep the registrations, start over.
Resume ==
    /\ ctl = "idle"
    /\ Fault
    /\ "Recovering" \in AllowedTransitions(state)
    /\ buffer' = [buffer EXCEPT !.held = {}, !.primed = FALSE, !.sound = FALSE]
    /\ state' = "Buffering"
    /\ Publish(<<"Other", "Other">>)
    /\ UNCHANGED <<parts, ctl, shutdown, worker, audio>>

\* stop: raise the flag, join the workers, release everything.
StopBegin ==
    /\ ctl = "idle"
    /\ IsActive
    /\ TransitionTo("Stopping")
    /\ shutdown' = TRUE
    /\ ctl' = "joining"
    /\ UNCHANGED <<parts, worker, buffer, audio, faults>>

WorkersJoined == pc \in {"none", "done"} /\ audio \in {"none", "done"}

StopEnd ==
    /\ ctl = "joining"
    /\ WorkersJoined
    /\ TransitionTo("Stopped")
    /\ parts' = FALSE
    /\ ctl' = "idle"
    /\ UNCHANGED <<shutdown, worker, buffer, audio, faults>>

Controller ==
    \/ Start \/ StartClash
    \/ PumpBegin \/ PumpEvent \/ PumpPromote \/ PumpEnd
    \/ SetRetention \/ Resume
    \/ StopBegin \/ StopEnd
-----------------------------------------------------------------------------
(* The video worker.                                                          *)

WorkerOnly == UNCHANGED <<state, parts, ctl, shutdown, audio>>

\* Publish WorkerFailed, after other events, and leave the loop.
Fail(before) ==
    /\ Publish(before \o <<"Failed">>)
    /\ failed' = TRUE

EncoderEvents == IF fellBack THEN <<"Other">> ELSE <<>>

\* Whether codec_extradata is known: certainly once the encoder has put out a
\* packet, possibly before.
Learned == IF inHand = {} THEN BOOLEAN ELSE {TRUE}

\* resolve_video_scaling: a new encoder generation and a re-registered video
\* stream; the preferred 2x mode stays on trial until the first frame.
Configure(at, next, onFailure) ==
    /\ pc = at
    /\ \/ /\ encGen' = encGen + 1
          /\ probing' \in BOOLEAN
          /\ buffer' = RegisteredVideo(buffer)
          /\ pc' = next
          /\ Publish(<<>>) \/ (~ probing' /\ Publish(<<"Other">>))
          /\ UNCHANGED <<failed, faults>>
       \/ /\ Fault
          /\ Fail(<<>>)
          /\ pc' = onFailure
          /\ UNCHANGED <<encGen, probing, buffer>>
    /\ WorkerOnly
    /\ UNCHANGED <<cause, attempts, seenGen, descGen, inHand, primedSent, fellBack>>

\* publish_video_extradata, from one point of the worker to the next.
PublishExtradataOnce(at, next) ==
    /\ pc = at
    /\ \E learned \in Learned :
          /\ descGen' = IF descGen = 0 /\ learned THEN encGen ELSE descGen
          /\ buffer' = [buffer EXCEPT !.desc = descGen']
    /\ pc' = next
    /\ seenGen' = IF at = "startMeta" THEN encGen ELSE seenGen
    /\ WorkerOnly /\ Silent
    /\ UNCHANGED <<cause, attempts, probing, encGen, inHand, primedSent, fellBack, failed, faults>>
PublishExtradata(at, next) ==
    /\ pc = at
    /\ \E learned \in Learned :
          /\ descGen' = IF learned THEN encGen ELSE descGen
          /\ buffer' = [buffer EXCEPT !.desc = IF learned THEN encGen ELSE @]
    /\ pc' = next
    /\ seenGen' = IF at = "startMeta" THEN encGen ELSE seenGen
    /\ WorkerOnly /\ Silent
    /\ UNCHANGED <<cause, attempts, probing, encGen, inHand, primedSent, fellBack, failed, faults>>

ObserveShutdown ==
    /\ pc = "loop"
    /\ shutdown
    /\ pc' = "exit"
    /\ WorkerOnly /\ Silent
    /\ UNCHANGED <<cause, attempts, probing, encGen, seenGen, descGen, inHand, primedSent,
                   fellBack, failed, buffer, faults>>

Encoding == (pc = "loop" /\ ~ shutdown) \/ pc = "retry"

\* encode succeeds, on the active backend or after a fallback to another generation.
EncodeFrame ==
    /\ Encoding
    /\ \/ UNCHANGED <<encGen, fellBack, faults>>
       \/ Fault /\ encGen' = encGen + 1 /\ fellBack' = TRUE
    /\ inHand' \in {{}, {encGen'}}
    /\ probing' = FALSE
    /\ pc' = "sync"
    /\ WorkerOnly /\ Silent
    /\ UNCHANGED <<cause, attempts, seenGen, descGen, primedSent, failed, buffer>>

\* encode fails; a reinitialization inside it may have bumped the generation.
EncodeFails ==
    /\ Encoding
    /\ Fault
    /\ \/ UNCHANGED <<encGen, fellBack>>
       \/ encGen' = encGen + 1 /\ fellBack' = TRUE
    /\ pc' = IF probing THEN "probe" ELSE "failing"
    /\ WorkerOnly /\ Silent
    /\ UNCHANGED <<cause, attempts, probing, seenGen, descGen, inHand, primedSent, failed, buffer>>

\* The first 2x frame failed: fall back to the native size in a new epoch and
\* encode the same frame again.
FallBackToNative ==
    /\ pc = "probe"
    /\ \/ /\ encGen' = encGen + 1
          /\ seenGen' = encGen'
          /\ buffer' = ResetEpoch(buffer)
          /\ primedSent' = FALSE
          /\ probing' = FALSE
          /\ pc' = "retry"
          /\ Publish(<<"Other">>)
          /\ UNCHANGED <<failed, faults>>
       \/ /\ Fault
          /\ Fail(<<>>)
          /\ pc' = "exit"
          /\ UNCHANGED <<encGen, seenGen, buffer, primedSent, probing>>
    /\ WorkerOnly
    /\ UNCHANGED <<cause, attempts, descGen, inHand, fellBack>>

\* sync_encoder_epoch: a generation change starts a new buffer epoch.
Synced ==
    IF seenGen = encGen THEN UNCHANGED <<buffer, seenGen, primedSent>>
    ELSE buffer' = ResetEpoch(buffer) /\ seenGen' = encGen /\ primedSent' = FALSE

SyncEpoch ==
    /\ pc = "sync"
    /\ Synced
    /\ pc' = "meta"
    /\ WorkerOnly /\ Silent
    /\ UNCHANGED <<cause, attempts, probing, encGen, descGen, inHand, fellBack, failed, faults>>

GiveUpEncoding ==
    /\ pc = "failing"
    /\ Synced
    /\ Fail(EncoderEvents)
    /\ fellBack' = FALSE
    /\ pc' = "exit"
    /\ WorkerOnly
    /\ UNCHANGED <<cause, attempts, probing, encGen, descGen, inHand, faults>>

\* insert_packets: a packet the buffer refuses ends the loop, or the final drain.
InsertPackets(at, next, onFailure) ==
    /\ pc = at
    /\ buffer' \in Inserted(buffer, inHand)
    /\ inHand' = {}
    /\ \/ Silent /\ pc' = next /\ UNCHANGED <<failed, faults>>
       \/ Fault /\ Fail(<<>>) /\ pc' = onFailure
    /\ WorkerOnly
    /\ UNCHANGED <<cause, attempts, probing, encGen, seenGen, descGen, primedSent, fellBack>>

\* publish_encoder_events.
ReportEncoder(at, next) ==
    /\ pc = at
    /\ Publish(EncoderEvents)
    /\ fellBack' = FALSE
    /\ pc' = next
    /\ WorkerOnly
    /\ UNCHANGED <<cause, attempts, probing, encGen, seenGen, descGen, inHand, primedSent, failed,
                   buffer, faults>>

ReportPriming(at, next) ==
    /\ pc = at
    /\ IF ~ primedSent /\ buffer.primed
       THEN Publish(<<"Primed">>) /\ primedSent' = (at = "prime")
       ELSE Silent /\ UNCHANGED primedSent
    /\ pc' = next
    /\ WorkerOnly
    /\ UNCHANGED <<cause, attempts, probing, encGen, seenGen, descGen, inHand, fellBack, failed,
                   buffer, faults>>

\* The capture reports a new format, or that the source is lost.
CaptureDisturbed ==
    /\ pc = "loop" /\ ~ shutdown
    /\ Fault
    /\ \/ /\ cause' = "format"
          /\ \/ Publish(<<"RecoveryStarted", "Other">>) /\ pc' = "drain" /\ UNCHANGED failed
             \/ Fail(<<"RecoveryStarted", "Other">>) /\ pc' = "exit"
       \/ /\ cause' = "loss"
          /\ Publish(<<"Other", "RecoveryStarted">>)
          /\ pc' = "drain"
          /\ UNCHANGED failed
    /\ WorkerOnly
    /\ UNCHANGED <<attempts, probing, encGen, seenGen, descGen, inHand, primedSent, fellBack, buffer>>

\* The capture stream ends or its event call fails.
CaptureEnds ==
    /\ pc = "loop" /\ ~ shutdown
    /\ Fault
    /\ (Silent /\ UNCHANGED failed) \/ Fail(<<>>)
    /\ pc' = "exit"
    /\ WorkerOnly
    /\ UNCHANGED <<cause, attempts, probing, encGen, seenGen, descGen, inHand, primedSent, fellBack,
                   buffer>>

\* drain_video_encoder_into_buffer: what the old generation still holds goes
\* into the buffer as it is, all or some of it with a warning.  After a loss
\* shutdown is looked at before and after.
DrainForRecovery ==
    /\ pc = "drain"
    /\ \/ /\ \E gens \in {{}, {encGen}} : buffer' \in Inserted(buffer, gens)
          /\ Silent \/ Publish(<<"Other">>)
          /\ pc' = IF cause = "format" THEN "reconfigure"
                   ELSE IF shutdown THEN "exit" ELSE "restart"
       \/ /\ cause = "loss" /\ shutdown
          /\ pc' = "exit"
          /\ Silent /\ UNCHANGED buffer
    /\ WorkerOnly
    /\ UNCHANGED <<cause, attempts, probing, encGen, seenGen, descGen, inHand, primedSent, fellBack,
                   failed, faults>>

\* restart_video_capture: a bounded number of attempts, without a look at shutdown.
RestartCapture ==
    /\ pc = "restart"
    /\ \/ Silent /\ attempts' = 0 /\ pc' = "reconfigure" /\ UNCHANGED failed
       \/ /\ attempts + 1 < RestartLimit
          /\ attempts' = attempts + 1
          /\ Publish(<<"Other">>)
          /\ UNCHANGED <<pc, failed>>
       \/ /\ attempts + 1 = RestartLimit
          /\ attempts' = 0
          /\ Fail(<<"Other">>)
          /\ pc' = "exit"
    /\ WorkerOnly
    /\ UNCHANGED <<cause, probing, encGen, seenGen, descGen, inHand, primedSent, fellBack, buffer,
                   faults>>

ResetAfterRecovery ==
    /\ pc = "reset"
    /\ buffer' = ResetEpoch(buffer)
    /\ seenGen' = encGen
    /\ primedSent' = FALSE
    /\ pc' = "remeta"
    /\ WorkerOnly /\ Silent
    /\ UNCHANGED <<cause, attempts, probing, encGen, descGen, inHand, fellBack, failed, faults>>

CompleteRecoveryQuietly ==
    /\ pc = "complete"
    /\ Publish(EncoderEvents)
    /\ fellBack' = FALSE
    /\ cause' = "none"
    /\ pc' = "loop"
    /\ WorkerOnly
    /\ UNCHANGED <<attempts, probing, encGen, seenGen, descGen, inHand, primedSent, failed, buffer,
                   faults>>
CompleteRecovery ==
    /\ pc = "complete"
    /\ Publish(EncoderEvents \o <<"RecoveryCompleted">>)
    /\ fellBack' = FALSE
    /\ cause' = "none"
    /\ pc' = "loop"
    /\ WorkerOnly
    /\ UNCHANGED <<attempts, probing, encGen, seenGen, descGen, inHand, primedSent, failed, buffer,
                   faults>>

\* The final drain on the way out.
FinalDrain ==
    /\ pc = "exit"
    /\ \/ inHand' \in {{}, {encGen}} /\ pc' = "exitMeta" /\ Silent /\ UNCHANGED failed
       \/ inHand' = {} /\ pc' = "exitEvents" /\ Fail(<<>>)
    /\ WorkerOnly
    /\ UNCHANGED <<cause, attempts, probing, encGen, seenGen, descGen, primedSent, fellBack, buffer,
                   faults>>

VideoWorker ==
    \/ Configure("configure", "startMeta", "done")
    \/ PublishExtradata("startMeta", "loop")
    \/ ObserveShutdown
    \/ EncodeFrame \/ EncodeFails \/ FallBackToNative
    \/ SyncEpoch \/ GiveUpEncoding
    \/ PublishExtradata("meta", "insert")
    \/ InsertPackets("insert", "events", "exit")
    \/ ReportEncoder("events", "prime")
    \/ ReportPriming("prime", "loop")
    \/ CaptureDisturbed \/ CaptureEnds
    \/ DrainForRecovery \/ RestartCapture
    \/ Configure("reconfigure", "reset", "exit")
    \/ ResetAfterRecovery
    \/ PublishExtradata("remeta", "complete")
    \/ CompleteRecovery
    \/ FinalDrain
    \/ PublishExtradata("exitMeta", "exitInsert")
    \/ InsertPackets("exitInsert", "exitPrime", "exitEvents")
    \/ ReportPriming("exitPrime", "exitEvents")
    \/ ReportEncoder("exitEvents", "done")

-----------------------------------------------------------------------------
(* The audio worker, as far as the shared buffer and queue see it.            *)

AudioInsert ==
    /\ audio = "running"
    /\ IF "audio" \in buffer.streams
       THEN buffer' = [buffer EXCEPT !.sound = TRUE] /\ Silent /\ UNCHANGED audio
       ELSE audio' = "done" /\ Publish(<<"Other">>) /\ UNCHANGED buffer
    /\ UNCHANGED <<state, parts, ctl, shutdown, worker, faults>>

\* A lost device recovered, or a frame the synchronizer refused: the worker goes on.
AudioWarns ==
    /\ audio = "running"
    /\ Fault
    /\ Publish(<<"Other">>)
    /\ UNCHANGED <<state, parts, ctl, shutdown, worker, buffer, audio>>

AudioEndsByItself ==
    /\ audio = "running"
    /\ Fault /\ Publish(<<"Other">>)
    /\ audio' = "done"
    /\ UNCHANGED <<state, parts, ctl, shutdown, worker, buffer>>
AudioEnds ==
    /\ audio = "running"
    /\ \/ shutdown /\ UNCHANGED faults /\ (Silent \/ Publish(<<"Other">>))
       \/ Fault /\ Publish(<<"Other">>)
    /\ audio' = "done"
    /\ UNCHANGED <<state, parts, ctl, shutdown, worker, buffer>>

Next == Controller \/ VideoWorker \/ AudioInsert \/ AudioWarns \/ AudioEnds

\* The worker threads run, the capture source goes on producing events (next_event
\* waits for one as long as it takes: StopObserved of CaptureSession), the bridge
\* polls on a timer, and a started stop goes on.
Fairness ==
    /\ WF_vars(VideoWorker)
    /\ WF_vars(AudioEnds)
    /\ WF_vars(PumpBegin) /\ WF_vars(PumpEvent \/ PumpPromote \/ PumpEnd)
    /\ WF_vars(StopEnd)

Spec == Init /\ [][Next]_vars
FairSpec == Spec /\ Fairness

-----------------------------------------------------------------------------
(* Properties.                                                                *)

Generations == 0 .. (2 * MaxFaults + 2)

\* The type of every variable: the event queue stays within its bound and the
\* attempts of a recovery within the restart limit.
TypeOK ==
    /\ state \in States
    /\ parts \in BOOLEAN
    /\ ctl \in {"idle", "drain", "drainAgain", "joining"}
    /\ queue \in Seq(Events) /\ Len(queue) <= QueueBound
    /\ drops \in BOOLEAN /\ shutdown \in BOOLEAN
    /\ pc \in {"none", "configure", "startMeta", "loop", "retry", "sync", "meta", "insert",
               "events", "prime", "probe", "failing", "drain", "restart", "reconfigure", "reset",
               "remeta", "complete", "exit", "exitMeta", "exitInsert", "exitPrime",
               "exitEvents", "done"}
    /\ cause \in {"none", "format", "loss"}
    /\ attempts \in 0 .. RestartLimit - 1
    /\ probing \in BOOLEAN
    /\ encGen \in Generations /\ seenGen \in Generations /\ descGen \in Generations
    /\ inHand \subseteq Generations
    /\ primedSent \in BOOLEAN /\ fellBack \in BOOLEAN /\ failed \in BOOLEAN
    /\ buffer \in [streams : SUBSET {"video", "audio"}, held : SUBSET Generations,
                   desc : Generations, primed : BOOLEAN, sound : BOOLEAN]
    /\ audio \in {"none", "running", "done"}
    /\ faults \in 0 .. MaxFaults

\* Every clip can be decoded. The buffer holds packets of one encoder configuration
\* at a time ("clears its replay buffer before accepting packets from the new codec
\* configuration"), and the codec initialization bytes a clip would carry are
\* theirs, except while a recovery holds packets it drained from the old encoder.
ClipDecodable ==
    /\ Cardinality(buffer.held) <= 1
    /\ pc \in {"loop", "retry", "sync", "meta", "insert", "events", "prime", "remeta",
               "complete", "done"}
        => (buffer.held = {} \/ buffer.held = {buffer.desc} \/ cause # "none")

\* A recovery never pulls a stream from under the audio worker: its inserts
\* always find the stream registered ("without allowing audio workers to race
\* ahead into an unregistered stream").
AudioStreamRegistered == audio = "running" => "audio" \in buffer.streams

\* A failure is not masked: no late event, neither a stale completion nor a
\* priming report, takes the engine out of Error; only stop does.
FailureNotMasked == [][state = "Error" => state' \in {"Error", "Stopping"}]_vars

\* stop returns: the workers look at the flag between two frames and exit, while
\* they publish to a queue nobody reads.
StopTerminates == (state = "Stopping") ~> (state = "Stopped")

\* A primed buffer is noticed even when the priming event is lost, because pump
\* looks at the buffer itself.
PrimingNoticed ==
    (state = "Buffering" /\ buffer.primed) ~> (state # "Buffering" \/ ~ buffer.primed)

\* Trouble comes to an end the controller sees: a recovery completes or fails
\* (spec.md 21.2) and the state follows the worker, and a worker that failed takes
\* the engine out of the live states; unless the queue has dropped an event, which
\* may have been the one that says so.
TroubleSettles ==
    /\ (state = "Recovering") ~> (state # "Recovering" \/ drops)
    /\ failed ~> (state \in {"Error", "Stopping", "Stopped"} \/ drops)

\* "Buffering means capture is live but a full replay-duration history has not
\* accumulated yet" (state.rs): a settled engine in Ready has that history.
ReadyHasHistory ==
    (state = "Ready" /\ ctl = "idle" /\ queue = <<>> /\ pc = "loop" /\ ~ drops)
        => buffer.primed

\* "so a rejected start remains retryable": outside start and stop the engine is
\* not left in Starting with its components gone.
RejectedStartRetryable == state = "Starting" => parts
=============================================================================
