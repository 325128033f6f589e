----------------------------- MODULE AudioSession -----------------------------
(* One audio worker of a session (recorder-engine, run_audio_worker) with its  *)
(* WASAPI capture (audio-wasapi) and its AudioSynchronizer (audio-sync). The   *)
(* capture makes silence up when nothing plays; the synchronizer puts chunks  *)
(* on a timeline of its own and takes it up anew when the device was lost or  *)
(* the stamps jumped, and the worker restarts a lost device a few times.      *)
(*                                                                            *)
(* Stamps and lengths are whole milliseconds; samples, resampling and gain    *)
(* are left out, and so is the AAC encoder but for its failure.               *)
EXTENDS Integers, Sequences

CONSTANTS
    SilenceWait,    \* 50: a wait without sound, and the silence made up for it
    RestartPause,   \* 25: the first pause before a restart, times the attempt
    RestartLimit,   \* AUDIO_RESTART_LIMIT
    MaxDiscontinuity,
    Lengths,        \* bounds: lengths of packets,
    Delays,         \* how much later than the last one ended a packet starts,
    MaxChunks, MaxLosses

ASSUME AudioAssumption ==
    /\ {SilenceWait, RestartLimit, MaxDiscontinuity} \subseteq Nat \ {0} /\ RestartPause \in Nat
    /\ Lengths \subseteq Nat \ {0} /\ Delays \subseteq Int /\ {MaxChunks, MaxLosses} \subseteq Nat

(* The largest jump, a minute, is longer than a wait and than what a packet can *)
(* have gathered before a wait ended.                                          *)
ASSUME JumpAssumption ==
    SilenceWait <= MaxDiscontinuity /\ \A d \in Delays : d >= -MaxDiscontinuity

VARIABLES
    endpoint,   \* the device: is its loss noted; times it was lost; what was heard of it
    audioTime,  \* now
    sync,       \* the AudioSynchronizer and its MediaTimeline
    listener,   \* the worker: where it is, and restart_attempts
    frame,      \* the frame next_event returned
    chunks      \* frames encoded (history)

audioVars == <<endpoint, audioTime, sync, listener, frame, chunks>>

Unset == -1
NoFrame == [stamp |-> 0, length |-> 0]
Later(a, b) == IF a > b THEN a ELSE b

AudioInit ==
    /\ endpoint = [lost |-> FALSE, losses |-> 0, heard |-> 0]
    /\ audioTime = 0 /\ frame = NoFrame /\ chunks = <<>>
    /\ sync = [accepted |-> 0, origin |-> 0, last |-> 0, offset |-> 0, out |-> Unset, expected |-> Unset]
    /\ listener = [at |-> "loop", attempts |-> 0]

Listen(place) == listener' = [listener EXCEPT !.at = place]

--------------------------------------------------------------------------------
(* The notification callback latches a loss and wakes the worker.             *)
LoseDevice ==
    /\ listener.at \notin {"restart", "done"} /\ ~ endpoint.lost /\ endpoint.losses < MaxLosses
    /\ endpoint' = [endpoint EXCEPT !.lost = TRUE, !.losses = @ + 1]
    /\ UNCHANGED <<audioTime, sync, listener, frame, chunks>>

(* Each round begins with a look at the shutdown flag.                        *)
Round ==
    /\ listener.at = "loop"
    /\ Listen("capture") \/ Listen("done")
    /\ UNCHANGED <<endpoint, audioTime, sync, frame, chunks>>

(* next_event, where the loss is looked for before the wait and after the      *)
(* packet is read; reading may find it first, or fail for good.               *)
DeviceLost ==
    /\ listener.at = "capture" /\ endpoint.lost
    /\ Listen("restart") \/ Listen("done")
    /\ UNCHANGED <<endpoint, audioTime, sync, frame, chunks>>

CaptureFails ==
    /\ listener.at = "capture" /\ Listen("done")
    /\ UNCHANGED <<endpoint, audioTime, sync, frame, chunks>>

(* read_packet: a packet has the time its first sample was captured. That may  *)
(* lie before silence made up when the packet was not full yet.               *)
ReadPacket(delay, length) ==
    LET stamp == audioTime + delay
    IN  /\ listener.at = "capture" /\ ~ endpoint.lost /\ Len(chunks) < MaxChunks
        /\ stamp >= endpoint.heard /\ stamp + length > audioTime
        /\ frame' = [stamp |-> stamp, length |-> length]
        /\ audioTime' = stamp + length
        /\ endpoint' = [endpoint EXCEPT !.heard = stamp + length]
        /\ Listen("process")
        /\ UNCHANGED <<sync, chunks>>

(* Nothing came for 50 ms: silence of that length, stamped now.               *)
MakeSilence ==
    /\ listener.at = "capture" /\ ~ endpoint.lost /\ Len(chunks) < MaxChunks
    /\ audioTime' = audioTime + SilenceWait
    /\ frame' = [stamp |-> audioTime', length |-> SilenceWait]
    /\ Listen("process")
    /\ UNCHANGED <<endpoint, sync, chunks>>

--------------------------------------------------------------------------------
(* MediaTimeline.to_shared: the first stamp is the origin, the second is       *)
(* taken as it is, and from the third on a jump is refused.                   *)
Since == IF sync.accepted = 0 THEN 0 ELSE frame.stamp - sync.origin
Jumps ==
    /\ sync.accepted = 2
    /\ Since - sync.last > MaxDiscontinuity \/ sync.last - Since > MaxDiscontinuity

(* AudioSynchronizer.process: the time of a frame is never before the one      *)
(* before it.                                                                 *)
Time == IF sync.out = Unset THEN Since + sync.offset ELSE Later(Since + sync.offset, sync.out)

(* reset_source: a new timeline goes on where the packets end.                *)
ResetToLast(s) == [s EXCEPT !.accepted = 0, !.offset = IF s.out = Unset THEN 0 ELSE s.out + 1]
ResetSource(s) == [s EXCEPT !.accepted = 0, !.offset = IF s.expected = Unset THEN 0 ELSE s.expected]

Process ==
    /\ listener.at = "process" /\ ~ Jumps
    /\ sync' = [sync EXCEPT !.accepted = IF @ = 2 THEN 2 ELSE @ + 1, !.last = Since,
                            !.origin = IF sync.accepted = 0 THEN frame.stamp ELSE @,
                            !.out = Time, !.expected = Time + frame.length]
    /\ chunks' = Append(chunks, [time |-> Time, length |-> frame.length, stamp |-> frame.stamp,
                                 nth |-> sync'.accepted])
    /\ frame' = NoFrame
    /\ \/ listener' = [at |-> "loop", attempts |-> 0]
       \/ Listen("done")
    /\ UNCHANGED <<endpoint, audioTime>>

(* A frame that jumps is left out.                                            *)
Discontinuity ==
    /\ listener.at = "process" /\ Jumps
    /\ sync' = ResetSource(sync)
    /\ frame' = NoFrame
    /\ Listen("loop")
    /\ UNCHANGED <<endpoint, audioTime, chunks>>

(* restart_audio_capture: attempts are counted over all losses since a frame   *)
(* was encoded.                                                               *)
Restart ==
    /\ listener.at = "restart"
    /\ IF listener.attempts = RestartLimit
       THEN Listen("done") /\ UNCHANGED <<endpoint, audioTime, sync>>
       ELSE LET attempt == listener.attempts + 1
            IN  /\ audioTime' = audioTime + RestartPause * attempt
                /\ \/ /\ listener' = [at |-> "loop", attempts |-> attempt]
                      /\ sync' = ResetSource(sync)
                      /\ endpoint' = [endpoint EXCEPT !.lost = FALSE, !.heard = audioTime']
                   \/ /\ listener' = [listener EXCEPT !.attempts = attempt]
                      /\ UNCHANGED <<sync, endpoint>>
    /\ UNCHANGED <<frame, chunks>>

AudioNext ==
    \/ LoseDevice \/ Round \/ DeviceLost \/ CaptureFails \/ MakeSilence
    \/ Process \/ Discontinuity \/ Restart
    \/ \E delay \in Delays, length \in Lengths : ReadPacket(delay, length)

AudioSpec == AudioInit /\ [][AudioNext]_audioVars

--------------------------------------------------------------------------------
AudioTypeOK ==
    /\ endpoint.lost \in BOOLEAN /\ endpoint.losses \in 0..MaxLosses /\ audioTime \in Int
    /\ sync.accepted \in 0..2 /\ sync.out >= Unset /\ sync.expected >= Unset
    /\ listener.at \in {"loop", "capture", "process", "restart", "done"}
    /\ listener.attempts \in 0..RestartLimit /\ Len(chunks) <= MaxChunks

Lead(i) == chunks[i].time - (chunks[i].stamp - chunks[1].stamp)
Anew(i) == i > 1 /\ chunks[i].nth = 1

(* The times of a stream never go back. A timeline taken up anew goes on where *)
(* the one before ended, without a gap and without an overlap (the comment of *)
(* reset_source); otherwise no jump larger than the threshold gets in once    *)
(* the cadence is known. A stream that was never taken up anew is in step     *)
(* with the clock, whatever silence was made up; each time it is taken up     *)
(* anew it gets ahead by no more than that silence was too long.              *)
AudioInStep ==
    \A i \in 2..Len(chunks) :
        LET now == chunks[i]
            before == chunks[i - 1]
        IN  /\ now.time >= before.time
            /\ now.nth = 1 => now.time = before.time + before.length
            /\ now.nth = 2 /\ before.nth = 2 => now.time - before.time <= MaxDiscontinuity
            /\ (\A j \in 1..i : ~ Anew(j)) /\ now.stamp >= before.stamp => Lead(i) = 0
            /\ Anew(i) => Lead(i) <= Lead(i - 1) + Later(0, SilenceWait - RestartPause)
=============================================================================
