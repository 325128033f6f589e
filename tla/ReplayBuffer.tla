---------------------------- MODULE ReplayBuffer ----------------------------
(* The duration-bounded replay buffer (crates/replay-buffer): encoded packets *)
(* per stream in decode order, one global ingestion sequence, an eviction     *)
(* rule anchored on video keyframes, and epochs that separate codec           *)
(* generations.  The buffer has no lock of its own: the engine holds one      *)
(* mutex around every call, so each public method is one atomic action here.  *)
(*                                                                            *)
(* Abstractions.  A payload is reduced to its size: one unit, or KeyBytes for *)
(* a keyframe.  The descriptors and set_stream_extradata, which rewrites one, *)
(* are in RecorderEngine.  Every stream uses the millisecond time base        *)
(* (register_stream refuses any other without touching the state), and the    *)
(* program has one video stream, so the field video_stream is Some(Video)     *)
(* exactly while Video is registered.  A call that returns an error changes   *)
(* nothing and is not an action.                                              *)
EXTENDS Integers, Sequences, FiniteSets

CONSTANTS
    Streams,      \* the stream identifiers
    Video,        \* the video stream
    NoDts,        \* last_dts = None
    Cap,          \* config.max_packets_per_stream
    Retentions,   \* the values of retention_ms a caller may ask for
    KeyBytes,     \* payload size of a keyframe; any other packet has size 1
    Lags,         \* how far a packet's pts may lie before its dts
    FrameDuration,\* duration of a video packet
    Durations,    \* durations of the other packets
    MaxDts,       \* bound: decode timestamps are 0 .. MaxDts
    MaxInserts,   \* bound: packets inserted over the whole behaviour
    MaxEpochs     \* bound: epochs started

ASSUME StreamsAssumption == Video \in Streams /\ IsFiniteSet(Streams)
ASSUME NoDtsAssumption == NoDts \notin Int
ASSUME CapAssumption == Cap \in Nat \ {0}
ASSUME RetentionsAssumption == Retentions \subseteq Nat
ASSUME KeyBytesAssumption == KeyBytes \in Nat \ {0}
ASSUME TimesAssumption == Lags \subseteq Nat /\ Durations \cup {FrameDuration} \subseteq Nat
ASSUME BoundsAssumption == MaxDts \in Nat /\ MaxInserts \in Nat /\ MaxEpochs \in Nat

VARIABLES
    registered,    \* keys of ReplayBuffer.streams
    packets,       \* stream -> StreamTrack.packets, oldest first
    lastDts,       \* stream -> StreamTrack.last_dts
    retention,     \* config.retention_ms
    nextSequence,  \* ReplayBuffer.next_sequence
    epoch,         \* ReplayBuffer.epoch
    memoryBytes,   \* ReplayBuffer.memory_bytes
    log,           \* auxiliary: stream -> everything inserted since it was registered
    capped,        \* auxiliary: streams that lost packets to the packet cap this epoch
    replacedBytes  \* auxiliary: payload in the tracks register_stream replaced this epoch

vars == <<registered, packets, lastDts, retention, nextSequence, epoch,
          memoryBytes, log, capped, replacedBytes>>

-----------------------------------------------------------------------------
(* Packets and tracks.                                                        *)

Packet == [dts : Int, pts : Int, duration : Nat, key : BOOLEAN, seq : Nat]

NoPackets == [s \in Streams |-> <<>>]

\* The positions of the packets held in a family of tracks.
Slots(tracks) == UNION {{s} \X (1 .. Len(tracks[s])) : s \in Streams}

\* The payload a family of tracks holds.
PayloadBytes(tracks) ==
    Cardinality(Slots(tracks))
    + (KeyBytes - 1) * Cardinality({x \in Slots(tracks) : tracks[x[1]][x[2]].key})

\* u64::saturating_sub.
SaturatingSub(a, b) == IF a >= b THEN a - b ELSE 0

DropFronts(track, n) == SubSeq(track, n + 1, Len(track))

\* The safety valve: only the newest Cap packets of a track stay.
TrimToCap(track) == DropFronts(track, IF Len(track) > Cap THEN Len(track) - Cap ELSE 0)

-----------------------------------------------------------------------------
(* Eviction.                                                                  *)

\* A packet of another stream lies wholly before the earliest kept video.
ExpiredByStart(p, t) == p.dts <= t
Expired(p, t) == p.dts + p.duration <= t

\* How many leading packets of a track have expired at time t.
StaleFronts(track, t) ==
    Cardinality({i \in 1 .. Len(track) : \A j \in 1 .. i : Expired(track[j], t)})

Eligible(track, boundary) ==
    {i \in 1 .. Len(track) : track[i].key /\ track[i].dts <= boundary}

\* The index eviction keeps the video from: the newest eligible keyframe, if any.
KeepFromInside(track, boundary) ==
    {i \in 1 .. Len(track) : /\ track[i].key /\ track[i].dts >= boundary
                             /\ \A j \in 1 .. i - 1 : ~ (track[j].key /\ track[j].dts >= boundary)}
KeepFrom(track, boundary) ==
    {i \in Eligible(track, boundary) : \A j \in Eligible(track, boundary) : j <= i}

NewestVideoDts(tracks) == tracks[Video][Len(tracks[Video])].dts

\* Drop the video before index k, then align the other streams with what is kept.
AlignByFilter(tracks, k) ==
    [s \in Streams |->
        IF s = Video THEN DropFronts(tracks[s], k - 1)
        ELSE SelectSeq(tracks[s], LAMBDA p : ~ Expired(p, tracks[Video][k].dts))]
AlignTo(tracks, k) ==
    [s \in Streams |->
        DropFronts(tracks[s], IF s = Video THEN k - 1
                              ELSE StaleFronts(tracks[s], tracks[Video][k].dts))]

\* What evict() leaves of a family of tracks under a retention of r.
Evicted(tracks, r) ==
    LET from == KeepFrom(tracks[Video], NewestVideoDts(tracks) - r)
    IN  IF tracks[Video] = <<>> \/ from = {} THEN tracks
        ELSE AlignTo(tracks, CHOOSE k \in from : TRUE)

-----------------------------------------------------------------------------
(* The operations.                                                            *)

Init ==
    /\ registered = {}
    /\ packets = NoPackets
    /\ lastDts = [s \in Streams |-> NoDts]
    /\ retention \in Retentions \ {0}
    /\ nextSequence = 0
    /\ epoch = 0
    /\ memoryBytes = 0
    /\ log = NoPackets
    /\ capped = {}
    /\ replacedBytes = 0

\* register_stream: a fresh track under the descriptor, whatever was there before.
RegisterStream(s) ==
    /\ registered' = registered \cup {s}
    /\ packets' = [packets EXCEPT ![s] = <<>>]
    /\ lastDts' = [lastDts EXCEPT ![s] = NoDts]
    /\ log' = [log EXCEPT ![s] = <<>>]
    /\ capped' = capped \ {s}
    /\ replacedBytes' = replacedBytes + PayloadBytes(packets) - PayloadBytes(packets')
    /\ UNCHANGED <<retention, nextSequence, epoch, memoryBytes>>

ClearPacketsAndSequence ==
    /\ packets' = NoPackets
    /\ lastDts' = [s \in Streams |-> NoDts]
    /\ memoryBytes' = 0
    /\ epoch' = epoch + 1
    /\ nextSequence' = 0
    /\ log' = NoPackets
    /\ capped' = {}
    /\ replacedBytes' = 0
    /\ UNCHANGED retention
ClearPackets ==
    /\ packets' = NoPackets
    /\ lastDts' = [s \in Streams |-> NoDts]
    /\ memoryBytes' = 0
    /\ epoch' = epoch + 1
    /\ log' = NoPackets
    /\ capped' = {}
    /\ replacedBytes' = 0
    /\ UNCHANGED <<retention, nextSequence>>

StartNewEpoch ==
    /\ epoch < MaxEpochs
    /\ registered' = {}
    /\ ClearPackets

StartNewEpochPreservingStreams ==
    /\ epoch < MaxEpochs
    /\ ClearPackets
    /\ UNCHANGED registered

\* What the encoders emit.  A packet never goes back in decode time within one
\* encoder session, and a backward presentation jitter stays under a frame.
NewPackets(s) ==
    {p \in [dts : 0 .. MaxDts, pts : (-MaxDts) .. MaxDts, duration : Durations \cup {FrameDuration},
            key : BOOLEAN, seq : {nextSequence}] :
        /\ p.dts - p.pts \in Lags
        /\ lastDts[s] # NoDts => p.dts = p.pts \/ p.pts >= lastDts[s]
        /\ IF s = Video THEN p.duration = FrameDuration ELSE p.key /\ p.dts = p.pts /\ p.duration \in Durations}

\* insert's monotonic check: an equal timestamp is accepted, a smaller one is not.
InOrderAlways(s, p) == TRUE
InOrder(s, p) == lastDts[s] # NoDts => p.dts >= lastDts[s]

Insert(s, p) ==
    LET appended == [packets EXCEPT ![s] = Append(@, p)]
        trimmed == [appended EXCEPT ![s] = TrimToCap(@)]
    IN  /\ s \in registered
        /\ nextSequence < MaxInserts
        /\ InOrder(s, p)
        /\ nextSequence' = nextSequence + 1
        /\ lastDts' = [lastDts EXCEPT ![s] = p.dts]
        /\ packets' = Evicted(trimmed, retention)
        /\ memoryBytes' = SaturatingSub(memoryBytes + (IF p.key THEN KeyBytes ELSE 1),
                                        PayloadBytes(appended) - PayloadBytes(packets'))
        /\ log' = [log EXCEPT ![s] = Append(@, p)]
        /\ capped' = IF trimmed = appended THEN capped ELSE capped \cup {s}
        /\ UNCHANGED <<registered, retention, epoch, replacedBytes>>

\* set_retention: a live change evicts at once; a retention of zero is refused.
SetRetentionUnchecked(r) ==
    /\ retention' = r
    /\ packets' = Evicted(packets, r)
    /\ memoryBytes' = SaturatingSub(memoryBytes, PayloadBytes(packets) - PayloadBytes(packets'))
    /\ UNCHANGED <<registered, lastDts, nextSequence, epoch, log, capped, replacedBytes>>
SetRetentionForgetsBytes(r) ==
    /\ r > 0
    /\ retention' = r
    /\ packets' = Evicted(packets, r)
    /\ UNCHANGED <<registered, lastDts, nextSequence, epoch, memoryBytes, log, capped,
                   replacedBytes>>
SetRetention(r) ==
    /\ r > 0
    /\ retention' = r
    /\ packets' = Evicted(packets, r)
    /\ memoryBytes' = SaturatingSub(memoryBytes, PayloadBytes(packets) - PayloadBytes(packets'))
    /\ UNCHANGED <<registered, lastDts, nextSequence, epoch, log, capped, replacedBytes>>

Next ==
    \/ \E s \in Streams : RegisterStream(s)
    \/ StartNewEpoch
    \/ StartNewEpochPreservingStreams
    \/ \E s \in Streams : \E p \in NewPackets(s) : Insert(s, p)
    \/ \E r \in Retentions : SetRetention(r)

Spec == Init /\ [][Next]_vars

-----------------------------------------------------------------------------
(* Reading the buffer: priming and snapshots.                                 *)

DurationTicks ==
    IF packets[Video] = <<>> THEN 0
    ELSE LET span == NewestVideoDts(packets) - packets[Video][1].dts
         IN  IF span > 0 THEN span ELSE 0

IsPrimed == Video \in registered /\ DurationTicks >= retention

\* The keyframe a snapshot starts at: the newest one presented by the request.
SnapshotIndexBefore(requested) ==
    {i \in 1 .. Len(packets[Video]) :
        /\ packets[Video][i].key
        /\ packets[Video][i].pts < requested
        /\ \A j \in i + 1 .. Len(packets[Video]) :
              ~ (packets[Video][j].key /\ packets[Video][j].pts < requested)}
SnapshotIndex(requested) ==
    {i \in 1 .. Len(packets[Video]) :
        /\ packets[Video][i].key
        /\ packets[Video][i].pts <= requested
        /\ \A j \in i + 1 .. Len(packets[Video]) :
              ~ (packets[Video][j].key /\ packets[Video][j].pts <= requested)}

\* The first packet of a clip and where the clip really starts.
ActualStart(first) == IF first.pts <= first.dts THEN first.pts ELSE first.dts

\* A packet of another stream that overlaps the clip's interval.
Overlaps(p, start, end) == p.dts + p.duration > start /\ p.dts < end

\* The packets of a clip, by their positions in the tracks, and their timestamps.
ClipSlots(k) ==
    LET newest == packets[Video][Len(packets[Video])]
        start == ActualStart(packets[Video][k])
        end == newest.dts + newest.duration
    IN  {x \in Slots(packets) : IF x[1] = Video THEN x[2] >= k
                                ELSE Overlaps(packets[x[1]][x[2]], start, end)}

Times(slots) == UNION {{packets[x[1]][x[2]].dts, packets[x[1]][x[2]].pts} : x \in slots}

\* normalize_timestamps: the shift is the least of the origin and of the timestamps
\* of the first packet of every stream.
FirstTimes(clip) == Times({x \in clip : \A y \in clip : y[1] = x[1] => x[2] <= y[2]})
NormalizeShift(clip, origin) ==
    CHOOSE m \in FirstTimes(clip) \cup {origin} : \A x \in FirstTimes(clip) \cup {origin} : m <= x

\* snapshot_replay_with_preroll asks for the retention window, or for the oldest
\* keyframe when less than that is buffered.
RequestedStart ==
    LET window == NewestVideoDts(packets) - retention
        keys == {i \in 1 .. Len(packets[Video]) : packets[Video][i].key}
        oldest == IF keys = {} THEN 0
                  ELSE packets[Video][CHOOSE i \in keys : \A j \in keys : i <= j].pts
    IN  IF window >= oldest THEN window ELSE oldest

-----------------------------------------------------------------------------
(* Properties.                                                                *)

\* The type of every variable; ingestion and memory counters are numbers, so neither
\* the saturating subtractions nor a rejected call takes one below zero.
TypeOK ==
    /\ registered \subseteq Streams
    /\ packets \in [Streams -> Seq(Packet)]
    /\ lastDts \in [Streams -> Int \cup {NoDts}]
    /\ retention \in Nat \ {0}
    /\ nextSequence \in Nat
    /\ epoch \in Nat
    /\ memoryBytes \in Nat
    /\ log \in [Streams -> Seq(Packet)]
    /\ capped \subseteq Streams
    /\ replacedBytes \in Int

\* Packet order (P1 of the property tests): within a track decode times never go
\* back and ingestion numbers grow, no number is handed out twice, and the last
\* accepted decode time is that of the newest packet while one is retained.
TracksOrdered ==
    \A s \in Streams :
        /\ \A i, j \in 1 .. Len(packets[s]) : i < j =>
              /\ packets[s][i].dts <= packets[s][j].dts
              /\ packets[s][i].seq < packets[s][j].seq
        /\ \A i \in 1 .. Len(packets[s]) :
              /\ packets[s][i].seq < nextSequence
              /\ lastDts[s] # NoDts
              /\ packets[s][i].dts <= lastDts[s]

\* Every track stays within the packet cap, whatever the timestamps do (ADR 0004,
\* "an absolute per-stream packet cap acts as a safety valve").
TracksBounded == \A s \in Streams : Len(packets[s]) <= Cap

\* Both: bad timestamps neither break the order of a track nor make it grow.
TracksSound == TracksOrdered /\ TracksBounded

\* Nothing is lost in the middle: what is retained of a stream is always the
\* newest part of what was inserted since the stream was registered, so a clip,
\* which is a suffix of the video, has no hole.
NoHoles ==
    \A s \in Streams :
        /\ Len(packets[s]) <= Len(log[s])
        /\ packets[s] = DropFronts(log[s], Len(log[s]) - Len(packets[s]))

\* Eviction never leaves an undecodable prefix (BUF-006, ADR 0004): a recording
\* that started with a keyframe still starts with one, unless the packet cap cut it.
DecodablePrefix ==
    (Video \notin capped /\ log[Video] # <<>> /\ log[Video][1].key)
        => packets[Video] # <<>> /\ packets[Video][1].key

\* Eviction keeps what the window needs and no more. No keyframe behind the front
\* is at or before the retention boundary ("retention plus one GOP", BUF-004); once
\* the front is, every other stream starts with a packet that reaches into the
\* retained video; and no packet that does is evicted (BUF-011), except by the
\* packet cap and the replacement of a live track.
EvictionExact ==
    packets[Video] # <<>> =>
        LET boundary == NewestVideoDts(packets) - retention
            front == packets[Video][1].dts
        IN  /\ \A i \in 2 .. Len(packets[Video]) : i \notin Eligible(packets[Video], boundary)
            /\ 1 \in Eligible(packets[Video], boundary) =>
                  \A s \in Streams \ {Video} :
                      packets[s] # <<>> => ~ Expired(packets[s][1], front)
            /\ replacedBytes = 0 =>
                  \A s \in Streams \ (capped \cup {Video}) :
                      \A i \in 1 .. Len(log[s]) - Len(packets[s]) :
                          log[s][i].dts + log[s][i].duration <= front

\* The memory counter is the payload retained plus that of the tracks replaced
\* while they held packets: it never under-reports and never saturates.
MemoryAccounted == memoryBytes = PayloadBytes(packets) + replacedBytes

\* Once primed, a save covers the whole retention window (BUF-013, spec 9.2): the
\* request the engine makes finds a keyframe and the clip starts no later than
\* one retention before the newest frame.
PrimedClipCoversWindow ==
    (IsPrimed /\ Video \notin capped /\ log[Video][1].key) =>
        /\ RequestedStart <= NewestVideoDts(packets) - retention
        /\ \E k \in SnapshotIndex(RequestedStart) :
              ActualStart(packets[Video][k]) <= NewestVideoDts(packets) - retention

\* Whatever start is requested, the clip starts on a keyframe not after it and,
\* rebased as normalize_timestamps does it, has no negative timestamp ("after
\* shifting, every timestamp is >= 0") while something in it is at zero.
ClipsStartAtZero ==
    \A requested \in 0 .. MaxDts : \A k \in SnapshotIndex(requested) :
        LET clip == ClipSlots(k)
            start == ActualStart(packets[Video][k])
            shift == NormalizeShift(clip, start)
            times == {t - shift : t \in Times(clip)}
        IN  /\ start <= requested
            /\ 0 \in times
            /\ \A t \in times : t >= 0

\* Every clip a save could take now: decodable, long enough, and timed from zero.
ClipSound == DecodablePrefix /\ PrimedClipCoversWindow /\ ClipsStartAtZero

\* A primed buffer stays primed: eviction after an insert never takes back the
\* window it has just completed.  Only a new epoch, a longer retention, a replaced
\* video track or the packet cap can; the engine relies on it by never looking
\* again once it is Ready.
PrimedStays ==
    [][(IsPrimed /\ epoch' = epoch /\ retention' = retention
        /\ Video \notin capped' /\ Len(log'[Video]) >= Len(log[Video]))
           => IsPrimed']_vars

\* Ingestion numbers never restart, not even across epochs, so packets of two
\* epochs can be told apart (ADR 0004, "sequences never reset").
SequencesNeverRestart ==
    [][/\ nextSequence' >= nextSequence
       /\ \A s \in Streams : \A i \in 1 .. Len(packets'[s]) :
             packets'[s][i].seq >= nextSequence
             \/ \E j \in 1 .. Len(packets[s]) : packets[s][j] = packets'[s][i]]_vars
=============================================================================
