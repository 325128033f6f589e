--------------------------- MODULE CaptureSession ---------------------------
(* One session of display capture (crates/capture-windows, session.rs): the   *)
(* FrameArrived callback copies each picture into a ring of textures made in  *)
(* advance, registers it under a handle and queues the handle; the video      *)
(* worker takes events from the queue, resolves the handle and converts what  *)
(* lies under it. The callback never waits: a full queue drops the event, a   *)
(* full registry drops the oldest handle, and a texture is used again when    *)
(* the ring comes round, whoever still reads it.                              *)
(*                                                                            *)
(* A picture is the number of its copy. Time is the compositor's clock, in    *)
(* units of its frame interval; what arrives on it, and when, is up to the    *)
(* screen, which owes nobody a frame. SystemRelativeTime never goes back, so  *)
(* the error of next_event for a stamp far behind is not reached.             *)
EXTENDS Integers, Sequences, FiniteSets, SequencesExt

CONSTANTS
    RingSize,       \* STAGING_RING_SIZE
    EventBound,     \* EVENT_QUEUE_BOUND
    MinIntervals,   \* min_frame_interval_ms, by frame rate
    MaxJump,        \* MAX_TIMESTAMP_JUMP_MS
    Sizes,          \* sizes of the captured source
    Gaps,           \* how much later than the last a frame may come
    MaxCopies, MaxResizes   \* bounds: pictures and changes of size in a session

ASSUME CaptureAssumption ==
    /\ {RingSize, EventBound} \subseteq Nat \ {0}
    /\ {MaxJump, MaxCopies, MaxResizes} \subseteq Nat
    /\ MinIntervals \cup Gaps \subseteq Nat

VARIABLES
    source,     \* the screen: its size, its clock, how often resized, whether gone
    pool,       \* the staging pool in use: its generation and size
    picture,    \* what each texture holds, by <<generation, slot>>
    copies,     \* pictures copied so far, which is ring_cursor as well
    registry,   \* the resolvable handles, oldest first
    callback,   \* how far the callback is with its frame
    events,     \* the event queue
    thread,     \* the session thread
    alive,      \* SharedState.queue_alive
    worker,     \* the video worker in its loop, and what it holds
    clock,      \* timeline, last_source_pts and last_delivered_pts (which the code keeps
                \* only when it shapes), and the tick of the last frame shown (history)
    shutdown    \* the engine's flag

captureVars == <<source, pool, picture, copies, registry, callback, events, thread, alive,
                 worker, clock, shutdown>>
producerVars == <<source, pool, picture, copies, callback>>

None == -1
Slots == 0 .. RingSize - 1
Textures == (0 .. MaxResizes) \X Slots
Waiting == [at |-> "wait"]
FreshClock(interval) ==
    [interval |-> interval, origin |-> 0, accepted |-> 0, last |-> 0,
     source |-> None, delivered |-> None, shown |-> None]

CaptureInit ==
    /\ \E s \in Sizes :
        /\ source = [size |-> s, now |-> 0, resizes |-> 0, gone |-> FALSE]
        /\ pool = [generation |-> 0, size |-> s]
    /\ picture = [t \in Textures |-> None]
    /\ copies = 0
    /\ registry = <<>>
    /\ callback = [at |-> "idle"]
    /\ events = <<>>
    /\ thread = "setup"
    /\ alive = TRUE
    /\ worker = [at |-> "loop"]
    /\ \E interval \in MinIntervals : clock = FreshClock(interval)
    /\ shutdown = FALSE

SendAlways(event) == events' = Append(events, event)
(* Whatever does not fit is dropped.                                          *)
TrySend(event) == events' = IF Len(events) < EventBound THEN Append(events, event) ELSE events

--------------------------------------------------------------------------------
(* The session thread: set up, park, take the handlers off, close.            *)
SetUp ==
    /\ thread = "setup"
    /\ \/ thread' = "parked" /\ UNCHANGED events
       \/ thread' = "closed" /\ TrySend([kind |-> "failed"])
    /\ UNCHANGED <<producerVars, registry, alive, worker, clock, shutdown>>

SessionCloses ==
    /\ thread = "parked" /\ worker.at = "joining"
    /\ thread' = "closed"
    /\ UNCHANGED <<producerVars, registry, events, alive, worker, clock, shutdown>>

--------------------------------------------------------------------------------
(* The callback. A frame of a new size replaces the textures, forgets their   *)
(* handles and is not copied itself; textures that cannot be made stay.       *)
ContentArrives == thread = "parked" /\ callback.at = "idle" /\ alive /\ ~source.gone

Resized(s) ==
    /\ ContentArrives
    /\ s # source.size /\ source.resizes < MaxResizes
    /\ source' = [source EXCEPT !.size = s, !.resizes = @ + 1]
    /\ \/ pool' = [generation |-> pool.generation + 1, size |-> s] /\ registry' = <<>>
       \/ UNCHANGED <<pool, registry>>
    /\ TrySend([kind |-> "format"])
    /\ UNCHANGED <<picture, copies, callback, thread, alive, worker, clock, shutdown>>

(* CopyResource between textures of two sizes leaves the target as it was.    *)
CopyFrame(gap) ==
    LET texture == <<pool.generation, copies % RingSize>>
    IN  /\ ContentArrives /\ copies < MaxCopies
        /\ source' = [source EXCEPT !.now = @ + gap]
        /\ copies' = copies + 1
        /\ picture' = IF source.size = pool.size THEN [picture EXCEPT ![texture] = copies] ELSE picture
        /\ callback' = [at |-> "copied", frame |-> copies, texture |-> texture,
                        size |-> source.size, fits |-> source.size = pool.size,
                        tick |-> source.now + gap]
        /\ UNCHANGED <<pool, registry, events, thread, alive, worker, clock, shutdown>>

Newest(handles) == SubSeq(handles, Len(handles) - RingSize + 1, Len(handles))

NeverEvicted(handle) == Append(registry, handle)
Registered(handle) ==
    LET all == Append(registry, handle)
    IN  IF Len(all) > RingSize THEN Newest(all) ELSE all

InsertStaged ==
    /\ callback.at = "copied"
    /\ registry' = Registered([frame |-> callback.frame, texture |-> callback.texture,
                               fits |-> callback.fits])
    /\ callback' = [callback EXCEPT !.at = "staged"]
    /\ UNCHANGED <<source, pool, picture, copies, events, thread, alive, worker, clock, shutdown>>

(* A frame whose time cannot be read is staged and never announced.           *)
PublishFrame ==
    /\ callback.at = "staged"
    /\ \/ TrySend([kind |-> "frame", frame |-> callback.frame, tick |-> callback.tick])
       \/ UNCHANGED events
    /\ callback' = [at |-> "idle"]
    /\ UNCHANGED <<source, pool, picture, copies, registry, thread, alive, worker, clock, shutdown>>

SourceCloses ==
    /\ thread = "parked" /\ ~source.gone
    /\ TrySend([kind |-> "closed"])
    /\ source' = [source EXCEPT !.gone = TRUE]
    /\ UNCHANGED <<pool, picture, copies, callback, registry, thread, alive, worker, clock, shutdown>>

--------------------------------------------------------------------------------
(* The worker: look at the flag, then next_event, which goes on waiting until *)
(* there is an event or every sender is gone.                                 *)
NextEvent ==
    /\ worker.at = "loop"
    /\ worker' = IF shutdown THEN [at |-> "stop"] ELSE Waiting
    /\ UNCHANGED <<producerVars, registry, events, thread, alive, clock, shutdown>>

(* MediaTimeline.to_shared: the first two stamps calibrate, a later one that  *)
(* is far ahead makes next_event start a new timeline with it.                *)
Calibrated(tick) == [clock EXCEPT !.origin = tick, !.accepted = 1, !.last = 0]
Accepted(tick) == [clock EXCEPT !.accepted = 2, !.last = tick - clock.origin]

Rebased(tick) ==
    IF \/ clock.accepted = 0
       \/ clock.accepted = 2 /\ tick - clock.origin - clock.last > MaxJump
    THEN Calibrated(tick) ELSE Accepted(tick)

Unclamped(rebased) == rebased.last
SourcePts(rebased) == IF rebased.last > clock.source THEN rebased.last ELSE clock.source

TooSoon(pts) ==
    /\ clock.interval > 0 /\ clock.delivered # None
    /\ pts - clock.delivered < clock.interval

ReceiveFrame ==
    LET event == Head(events)
        rebased == Rebased(event.tick)
        pts == SourcePts(rebased)
    IN  /\ worker.at = "wait" /\ events # <<>> /\ event.kind = "frame"
        /\ events' = Tail(events)
        /\ IF TooSoon(pts)
           THEN /\ clock' = [rebased EXCEPT !.source = pts]
                /\ UNCHANGED worker
           ELSE /\ clock' = [rebased EXCEPT !.source = pts, !.shown = event.tick, !.delivered = pts]
                /\ worker' = [at |-> "encode", frame |-> event.frame]
        /\ UNCHANGED <<producerVars, registry, thread, alive, shutdown>>

(* A new format drains and configures the encoder and goes on; a lost source  *)
(* and a failure leave the loop (a new session is one more of these).         *)
ReceiveOther ==
    /\ worker.at = "wait" /\ events # <<>> /\ Head(events).kind # "frame"
    /\ events' = Tail(events)
    /\ worker' = [at |-> IF Head(events).kind = "format" THEN "loop" ELSE "stop"]
    /\ UNCHANGED <<producerVars, registry, thread, alive, clock, shutdown>>

(* resolve, and then the conversion that reads the texture: a handle that is  *)
(* gone skips the frame, a texture of another size fails the encoder.         *)
Resolve ==
    LET found == {h \in ToSet(registry) : h.frame = worker.frame}
    IN  /\ worker.at = "encode"
        /\ \/ found = {} /\ worker' = [at |-> "loop"]
           \/ \E h \in found : worker' = IF h.fits
                THEN [at |-> "convert", frame |-> h.frame, texture |-> h.texture]
                ELSE [at |-> "stop"]
        /\ UNCHANGED <<producerVars, registry, events, thread, alive, clock, shutdown>>

Convert ==
    /\ worker.at = "convert"
    /\ worker' = [at |-> "loop"]
    /\ UNCHANGED <<producerVars, registry, events, thread, alive, clock, shutdown>>

StopCapture ==
    /\ worker.at = "stop"
    /\ alive' = FALSE
    /\ worker' = [at |-> "joining"]
    /\ UNCHANGED <<producerVars, registry, events, thread, clock, shutdown>>

ReleaseStaged ==
    /\ worker.at = "joining" /\ thread = "closed"
    /\ registry' = <<>> /\ events' = <<>>
    /\ worker' = [at |-> "done"]
    /\ UNCHANGED <<producerVars, thread, alive, clock, shutdown>>

RequestStop ==
    /\ ~shutdown
    /\ shutdown' = TRUE
    /\ UNCHANGED <<producerVars, registry, events, thread, alive, worker, clock>>

--------------------------------------------------------------------------------
CallbackSteps == InsertStaged \/ PublishFrame
Screen == (\E s \in Sizes : Resized(s)) \/ (\E gap \in Gaps : CopyFrame(gap)) \/ SourceCloses
SessionThread == SetUp \/ SessionCloses
Worker == NextEvent \/ ReceiveFrame \/ ReceiveOther \/ Resolve \/ Convert \/ StopCapture \/ ReleaseStaged

CaptureNext == SessionThread \/ Screen \/ CallbackSteps \/ Worker \/ RequestStop

CaptureSpec == CaptureInit /\ [][CaptureNext]_captureVars

(* Every thread of the program runs; the screen does what it likes.           *)
CaptureFairSpec ==
    CaptureSpec /\ WF_captureVars(SessionThread) /\ WF_captureVars(CallbackSteps) /\ WF_captureVars(Worker)

--------------------------------------------------------------------------------
CaptureTypeOK ==
    /\ source.size \in Sizes /\ source.now \in Nat /\ source.resizes \in 0..MaxResizes
    /\ pool.generation \in 0..source.resizes /\ pool.size \in Sizes
    /\ picture \in [Textures -> -1 .. copies - 1] /\ copies \in 0..MaxCopies
    /\ Len(registry) <= RingSize
    /\ \A h \in ToSet(registry) : h.frame \in 0 .. copies - 1 /\ h.texture \in Textures
    /\ callback.at \in {"idle", "copied", "staged"}
    /\ Len(events) <= EventBound
    /\ \A e \in ToSet(events) : e.kind \in {"frame", "format", "closed", "failed"}
    /\ thread \in {"setup", "parked", "closed"} /\ alive \in BOOLEAN /\ shutdown \in BOOLEAN
    /\ worker.at \in {"loop", "wait", "encode", "convert", "stop", "joining", "done"}
    /\ clock.accepted \in 0..2 /\ clock.source >= clock.delivered

(* A handle stands for its own picture: what resolves was copied for it and is *)
(* not copied over yet, but for the one texture a copy has begun to use again *)
(* before its old handle is gone; and what the worker converts is right unless *)
(* the whole ring came round while it held it.                                *)
PicturesTrue ==
    /\ \A h \in ToSet(registry) :
        \/ ~h.fits \/ picture[h.texture] = h.frame
        \/ callback.at = "copied" /\ callback.texture = h.texture
    /\ worker.at = "convert" =>
        picture[worker.texture] = worker.frame \/ copies > worker.frame + RingSize

(* Delivered frames never go back in time and keep the frame interval, across *)
(* pauses after which the timeline starts anew (the replay buffer refuses a   *)
(* decode time that goes back).                                               *)
PtsNeverBack ==
    [][clock.delivered # None /\ clock'.delivered # clock.delivered =>
        clock'.delivered >= clock.delivered + clock.interval]_captureVars

(* session.rs:408, on a pause longer than the largest jump: "Recalibrate video *)
(* timeline so capture continues seamlessly!" So a frame is left out only when *)
(* it came sooner after the last one shown than the frame rate asks. It is    *)
(* not so: the new timeline counts from zero while the clamp and the shaping  *)
(* still go by the times of the old one, and every frame is left out for as   *)
(* long as the session had lasted before the pause.                           *)
SeamlessAfterPause ==
    [][worker.at = "wait" /\ worker'.at = "wait" /\ Len(events') < Len(events) =>
        Head(events).tick - clock.shown < clock.interval]_captureVars

(* threading.md:62: "the public next_event wait is capped at 50 ms so a caller *)
(* can observe stop/drop without waiting on an unbounded compositor interval". *)
(* The wait is repeated inside next_event, where the only flag looked at is   *)
(* set by the same thread later: a stop asked for on a still screen waits for *)
(* the next picture, and with it RecorderEngine.stop, which joins the worker. *)
StopObserved == shutdown ~> worker.at = "done"
=============================================================================
