------------------------------ MODULE ClipFile ------------------------------
(* The clip file: what Mp4Muxer (crates/muxer) hands to the MP4 writer for a   *)
(* snapshot, how the writer (crates/mp4-silk) lays it out in chunks and sample *)
(* tables, what its reader makes of them, and the two operations on a finished *)
(* clip that copy samples: trimming, and extracting an audio track.           *)
(*                                                                            *)
(* One video and one audio track. A byte is a unit that knows its sample;     *)
(* codec configuration, box headers and validation of a snapshot are left out. *)
(* The staged file and its publication are in SavePipeline.                   *)
EXTENDS Integers, Sequences, FiniteSets

CONSTANTS
    Second,         \* video ticks in a second, 1000
    AudioRate,      \* audio ticks in a second, 48000
    FrameTicks,     \* AAC_LC_SAMPLES_PER_FRAME, 1024
    PauseTicks,     \* 40 ms at AudioRate
    FrameTime,      \* nominal duration of a video frame
    VideoKinds,     \* what a video packet may be: [key, offset, size]
    VideoSteps, AudioStarts, AudioSteps,    \* bounds: distances of packets
    MaxVideo, MaxAudio,                     \* bounds: packets in a snapshot
    Cuts            \* bound: times to trim at

ASSUME ClipFileAssumption ==
    /\ {Second, AudioRate, FrameTicks, FrameTime} \subseteq Nat \ {0}
    /\ {PauseTicks, MaxVideo, MaxAudio} \subseteq Nat
    /\ \A k \in VideoKinds : k.key \in BOOLEAN /\ k.size \in Nat \ {0} /\ k.offset \in Nat
    /\ VideoSteps \cup AudioSteps \cup Cuts \subseteq Nat /\ AudioStarts \subseteq Int

VARIABLES
    snapshot,   \* the media of the clip: packets by track
    making,     \* which file is being made
    todo,       \* samples still to be written, by track
    writer,     \* Mp4Writer: the tables by track, and the mdat
    clip        \* the finished clip

clipFileVars == <<snapshot, making, todo, writer, clip>>

EmptyFile == [mdat |-> <<>>]
NoSample == [bytes |-> <<>>]
Sum(f, n) == LET upTo[k \in 0..n] == IF k = 0 THEN 0 ELSE upTo[k - 1] + f[k] IN upTo[n]
Final(s) == s[Len(s)]
Lowest(S) == CHOOSE x \in S : \A y \in S : x <= y
Highest(S) == CHOOSE x \in S : \A y \in S : y <= x

--------------------------------------------------------------------------------
(* The muxer. A snapshot starts at its first video packet, a keyframe; audio   *)
(* may begin before it (it overlaps) or after it (the device came late).       *)
VideoOf(kinds, steps) ==
    [k \in 1..Len(kinds) |-> [dts |-> Sum(steps, k - 1), key |-> kinds[k].key,
                              offset |-> kinds[k].offset, size |-> kinds[k].size]]
AudioOf(first, steps) == [k \in 1..Len(steps) |-> [dts |-> first + Sum(steps, k - 1), size |-> 1]]

(* normalize_snapshot: the earliest first packet is at zero.                  *)
Normalized(s) ==
    LET shift == Lowest({0} \cup {s[track][1].dts : track \in DOMAIN s})
    IN  [track \in DOMAIN s |->
            [k \in 1..Len(s[track]) |-> [s[track][k] EXCEPT !.dts = @ - shift]]]

Bytes(k, size) == [i \in 1..size |-> [of |-> k, at |-> i]]

(* A frame lasts until the next one, or for its nominal time when it is the    *)
(* last or the next has the same decode time.                                 *)
VideoSamples(packets) ==
    [k \in 1..Len(packets) |->
        LET p == packets[k]
            gap == IF k < Len(packets) THEN packets[k + 1].dts - p.dts ELSE 0
        IN  [start |-> p.dts, duration |-> IF gap > 0 THEN gap ELSE FrameTime,
             offset |-> p.offset, sync |-> p.key, bytes |-> Bytes(k, p.size), rank |-> p.dts]]

(* Audio is timed by counting frames, unless a packet comes so late that the   *)
(* time between is a pause.                                                   *)
AudioSamples(packets) ==
    LET ticks(k) == (packets[k].dts * AudioRate) \div Second
        start[k \in 1..Len(packets)] ==
            IF k = 1 THEN ticks(1)
            ELSE LET expected == start[k - 1] + FrameTicks
                 IN  IF ticks(k) > expected + PauseTicks THEN ticks(k) ELSE expected
    IN  [k \in 1..Len(packets) |->
            [start |-> start[k], duration |-> FrameTicks, offset |-> 0, sync |-> TRUE,
             bytes |-> Bytes(k, packets[k].size), rank |-> packets[k].dts]]

Prepared(s) ==
    [track \in DOMAIN s |-> IF track = "video" THEN VideoSamples(Normalized(s)[track])
                            ELSE AudioSamples(Normalized(s)[track])]

--------------------------------------------------------------------------------
(* The writer. The tables count runs of equal values; a chunk is the samples of *)
(* one track for about a second, written when it is full.                     *)
EmptyTable(rate) ==
    [rate |-> rate, next |-> 1,
     stts |-> <<>>, ctts |-> <<>>, stss |-> <<>>, stsc |-> <<>>, chunks |-> <<>>,
     stsz |-> [fixed |-> 0, listed |-> <<>>, count |-> 0],
     pending |-> <<>>, samples |-> 0, span |-> 0]

Counted(runs, value) ==
    IF runs # <<>> /\ Final(runs).value = value
    THEN [runs EXCEPT ![Len(runs)].count = @ + 1]
    ELSE Append(runs, [count |-> 1, value |-> value])

(* The table of offsets is begun by the first that is not zero.               *)
OffsetsFromHere(runs, before, offset) ==
    IF runs = <<>> /\ offset = 0 THEN <<>> ELSE Counted(runs, offset)
Offsets(runs, before, offset) ==
    IF runs # <<>> THEN Counted(runs, offset)
    ELSE IF offset = 0 THEN <<>>
    ELSE Counted(IF before > 0 THEN <<[count |-> before, value |-> 0]>> ELSE <<>>, offset)

(* One size for all, until two differ.                                        *)
SampleSizes(stsz, size) ==
    IF stsz.count = 0 THEN [fixed |-> size, listed |-> <<>>, count |-> 1]
    ELSE IF stsz.fixed = size THEN [stsz EXCEPT !.count = @ + 1]
    ELSE [fixed |-> 0, count |-> stsz.count + 1,
          listed |-> Append(IF stsz.fixed > 0 THEN [i \in 1..stsz.count |-> stsz.fixed]
                            ELSE stsz.listed, size)]

(* write_chunk: the pending bytes of a track go to the end of the file.        *)
WithChunk(w, track) ==
    LET t == w.tables[track]
        run == [first |-> Len(t.chunks) + 1, samples |-> t.samples]
    IN  IF t.pending = <<>> THEN w
        ELSE [mdat |-> w.mdat \o t.pending,
              tables |-> [w.tables EXCEPT ![track] =
                [t EXCEPT !.stsc = IF @ # <<>> /\ Final(@).samples = t.samples THEN @
                                   ELSE Append(@, run),
                          !.chunks = Append(@, Len(w.mdat)),
                          !.pending = <<>>, !.samples = 0, !.span = 0]]]

(* write_sample; start, which the caller worked out, is not looked at.        *)
WithSample(w, track, sample) ==
    LET t == w.tables[track]
        added == [t EXCEPT !.pending = @ \o sample.bytes, !.samples = @ + 1,
                           !.span = @ + sample.duration,
                           !.stsz = SampleSizes(@, Len(sample.bytes)),
                           !.stts = Counted(@, sample.duration),
                           !.ctts = Offsets(@, t.next - 1, sample.offset),
                           !.stss = IF sample.sync THEN Append(@, t.next) ELSE @,
                           !.next = @ + 1]
        grown == [w EXCEPT !.tables[track] = added]
    IN  IF added.span >= added.rate THEN WithChunk(grown, track) ELSE grown

(* write_end: what is pending, track by track.                                *)
Finished(w) ==
    LET video == IF "video" \in DOMAIN w.tables THEN WithChunk(w, "video") ELSE w
    IN  IF "audio" \in DOMAIN w.tables THEN WithChunk(video, "audio") ELSE video

--------------------------------------------------------------------------------
(* The reader.                                                                *)
RunOf(runs, id) ==
    LET upTo(i) == Sum([j \in 1..Len(runs) |-> runs[j].count], i)
        i == Lowest({j \in 1..Len(runs) : id <= upTo(j)})
    IN  [value |-> runs[i].value, before |-> upTo(i - 1),
         elapsed |-> Sum([j \in 1..Len(runs) |-> runs[j].count * runs[j].value], i - 1)]

SampleTime(t, id) ==
    LET run == RunOf(t.stts, id) IN (id - run.before - 1) * run.value + run.elapsed
SampleSize(t, id) == IF t.stsz.fixed > 0 THEN t.stsz.fixed ELSE t.stsz.listed[id]
RenderingOffset(t, id) ==
    IF id > Sum([j \in 1..Len(t.ctts) |-> t.ctts[j].count], Len(t.ctts)) THEN 0
    ELSE RunOf(t.ctts, id).value
IsSync(t, id) == t.stss = <<>> \/ \E i \in 1..Len(t.stss) : t.stss[i] = id

(* The first sample of a run of chunks is not in the file but worked out.      *)
FirstSamples(t) ==
    LET first[i \in 1..Len(t.stsc)] ==
            IF i = 1 THEN 1
            ELSE first[i - 1] + (t.stsc[i].first - t.stsc[i - 1].first) * t.stsc[i - 1].samples
    IN  first

SampleOffset(t, id) ==
    LET first == FirstSamples(t)
        i == Highest({j \in 1..Len(t.stsc) : first[j] <= id})
        chunk == ((id - first[i]) \div t.stsc[i].samples) + t.stsc[i].first
        head == id - ((id - first[i]) % t.stsc[i].samples)
    IN  IF chunk > Len(t.chunks) THEN {}
        ELSE {t.chunks[chunk] + Sum([j \in 1..id - head |-> SampleSize(t, head + j - 1)], id - head)}

ReadSample(file, track, id) ==
    LET t == file.tables[track]
        whole == {o \in SampleOffset(t, id) : o + SampleSize(t, id) <= Len(file.mdat)}
    IN  IF whole = {} THEN NoSample
        ELSE [bytes |-> SubSeq(file.mdat, Lowest(whole) + 1, Lowest(whole) + SampleSize(t, id)),
              start |-> SampleTime(t, id), duration |-> RunOf(t.stts, id).value,
              offset |-> RenderingOffset(t, id), sync |-> IsSync(t, id)]

SampleCount(t) == t.stsz.count
Ids(t) == 1..SampleCount(t)
Pts(t, id) == SampleTime(t, id) + RenderingOffset(t, id)

--------------------------------------------------------------------------------
(* trim_mp4.                                                                  *)
Beyond(t, id, time) == Pts(t, id) > time /\ SampleTime(t, id) > time

(* The last keyframe that is not beyond the start.                            *)
StartSample(t, start) ==
    Highest({1} \cup {id \in Ids(t) : IsSync(t, id) /\ \A j \in 1..id : ~ Beyond(t, j, start)})

VideoCut(t, start, end) ==
    LET first == StartSample(t, start)
    IN  {id \in Ids(t) : id >= first /\ \A j \in first..id : ~ Beyond(t, j, end)}

(* Seconds to audio ticks, rounded to the nearest.                            *)
AudioTicks(time) == (2 * time * AudioRate + Second) \div (2 * Second)

AudioCutFromStart(video, t, start, end) ==
    {id \in Ids(t) : SampleTime(t, id) \in AudioTicks(start)..AudioTicks(end)}
AudioCut(video, t, start, end) ==
    LET from == AudioTicks(SampleTime(video, StartSample(video, start)))
    IN  {id \in Ids(t) : SampleTime(t, id) \in from..AudioTicks(end)}

(* The samples a copy takes from the clip, in order.                          *)
Copies(track, ids) ==
    [k \in 1..Cardinality(ids) |->
        LET was == ReadSample(clip, track, Lowest(ids) + k - 1)
        IN  [start |-> was.start, duration |-> was.duration, offset |-> was.offset, sync |-> was.sync,
             bytes |-> was.bytes, rank |-> IF track = "video" THEN 0 ELSE 1]]

--------------------------------------------------------------------------------
Rate(track) == IF track = "video" THEN Second ELSE AudioRate
StartWriting(samples) ==
    /\ todo' = samples
    /\ writer' = [mdat |-> <<>>, tables |-> [track \in DOMAIN samples |-> EmptyTable(Rate(track))]]

ClipFileInit ==
    /\ snapshot = <<>> /\ making = [kind |-> "none"] /\ todo = <<>>
    /\ writer = EmptyFile /\ clip = EmptyFile

(* write_snapshot for a snapshot with or without audio.                       *)
Save ==
    /\ making.kind = "none"
    /\ \E n \in 1..MaxVideo, m \in 0..MaxAudio :
       \E kinds \in [1..n -> VideoKinds], steps \in [1..n - 1 -> VideoSteps] :
       \E first \in AudioStarts, pace \in [1..m -> AudioSteps] :
        /\ kinds[1].key
        /\ \A k \in 1..m : k = m => pace[k] = Lowest(AudioSteps)
        /\ m = 0 => first = Lowest(AudioStarts)
        /\ snapshot' = IF m = 0 THEN [video |-> VideoOf(kinds, steps)]
                       ELSE [video |-> VideoOf(kinds, steps), audio |-> AudioOf(first, pace)]
    /\ StartWriting(Prepared(snapshot'))
    /\ making' = [kind |-> "clip"]
    /\ UNCHANGED clip

(* One write_sample: the sample first in order; equal decode times are in the  *)
(* order of ingestion, which may be any.                                      *)
Write ==
    /\ \E track \in DOMAIN todo :
        /\ todo[track] # <<>>
        /\ \A other \in DOMAIN todo :
            todo[other] # <<>> => Head(todo[track]).rank <= Head(todo[other]).rank
        /\ writer' = WithSample(writer, track, Head(todo[track]))
        /\ todo' = [todo EXCEPT ![track] = Tail(@)]
    /\ UNCHANGED <<snapshot, making, clip>>

(* write_end, and the file is there to be read.                               *)
WriteEnd ==
    /\ making.kind \in {"clip", "trim", "extract"}
    /\ \A track \in DOMAIN todo : todo[track] = <<>>
    /\ writer' = Finished(writer)
    /\ making' = [making EXCEPT !.kind = IF @ = "clip" THEN "saved" ELSE "done"]
    /\ clip' = IF making.kind = "clip" THEN writer' ELSE clip
    /\ UNCHANGED <<snapshot, todo>>

(* trim_mp4_file and extract_audio_track_file read the clip and write another. *)
Trim(start, end, included) ==
    /\ making.kind = "saved" /\ start < end
    /\ LET video == clip.tables.video
           cut == Copies("video", VideoCut(video, start, end))
       IN  StartWriting(IF "audio" \in DOMAIN clip.tables /\ included
            THEN [video |-> cut,
                  audio |-> Copies("audio", AudioCut(video, clip.tables.audio, start, end))]
            ELSE [video |-> cut])
    /\ making' = [kind |-> "trim", start |-> start, end |-> end]
    /\ UNCHANGED <<snapshot, clip>>

ExtractAudio ==
    /\ making.kind = "saved" /\ "audio" \in DOMAIN clip.tables
    /\ StartWriting([audio |-> Copies("audio", Ids(clip.tables.audio))])
    /\ making' = [kind |-> "extract"]
    /\ UNCHANGED <<snapshot, clip>>

ClipFileNext ==
    \/ Save \/ Write \/ WriteEnd \/ ExtractAudio
    \/ \E start, end \in Cuts, included \in BOOLEAN : Trim(start, end, included)

ClipFileSpec == ClipFileInit /\ [][ClipFileNext]_clipFileVars

--------------------------------------------------------------------------------
(* The types: a table and its bytes go together.                              *)
ClipFileTypeOK ==
    /\ making.kind \in {"none", "clip", "saved", "trim", "extract", "done"}
    /\ DOMAIN snapshot \subseteq {"video", "audio"} /\ DOMAIN todo \subseteq {"video", "audio"}
    /\ writer = EmptyFile \/ DOMAIN writer.tables = DOMAIN todo
    /\ (clip = EmptyFile) = (making.kind \in {"none", "clip"})

Answers(track, id, sample) ==
    LET read == ReadSample(clip, track, id)
    IN  /\ read # NoSample
        /\ <<read.bytes, read.duration, read.offset, read.sync>>
            = <<sample.bytes, sample.duration, sample.offset, sample.sync>>

(* What the muxer handed to the writer is what the reader finds in the clip:  *)
(* every sample, under its number, with its own bytes, duration, rendering    *)
(* offset and sync mark, however the samples fell into chunks and the values  *)
(* into runs; and a video frame at its decode time from the first, or later   *)
(* if frames before it shared theirs. Nothing else checks it: the validation  *)
(* of a staged file looks at boxes and codecs only (mp4_muxer.rs:2371).       *)
FileTrue ==
    making.kind \notin {"none", "clip"} =>
        LET prepared == Prepared(snapshot)
        IN  /\ DOMAIN clip.tables = DOMAIN prepared
            /\ \A track \in DOMAIN prepared :
                LET samples == prepared[track]
                    t == clip.tables[track]
                IN  /\ SampleCount(t) = Len(samples)
                    /\ \A id \in Ids(t) : Answers(track, id, samples[id])
            /\ LET frames == prepared.video
                    t == clip.tables.video
               IN  \A id \in Ids(t) :
                    LET due == frames[id].start - frames[1].start
                    IN  \/ SampleTime(t, id) = due
                        \/ /\ SampleTime(t, id) > due
                           /\ \E k \in 1..id - 1 : frames[k].start = frames[k + 1].start

(* The place in the clip of a sample of the file being written.               *)
Origin(track, id) == ReadSample(writer, track, id).bytes[1].of

(* From sample k of the clip on, the new track holds what the old one does,   *)
(* as far apart as it was.                                                    *)
SameFrom(track, k) ==
    LET old == clip.tables[track]
        new == writer.tables[track]
    IN  \A id \in Ids(new) :
            LET was == ReadSample(clip, track, k + id - 1)
                is == ReadSample(writer, track, id)
            IN  /\ was # NoSample
                /\ is = [was EXCEPT !.start = @ - SampleTime(old, k)]

(* A trimmed clip starts at a keyframe, the last at or before the asked time,  *)
(* and holds every frame from there to the asked end, with its bytes, offset,  *)
(* sync mark and distance from the first; its audio is the audio of that      *)
(* stretch, heard less than one audio frame early; an extracted track is the  *)
(* whole of it.                                                               *)
TrimSound ==
    making.kind = "done" =>
        IF "start" \notin DOMAIN making
        THEN /\ SampleCount(writer.tables.audio) = SampleCount(clip.tables.audio)
             /\ SameFrom("audio", 1)
        ELSE
            LET video == clip.tables.video
                from == Origin("video", 1)
                last == from + SampleCount(writer.tables.video) - 1
                zero == AudioTicks(SampleTime(video, from))
            IN  /\ IsSync(writer.tables.video, 1) /\ SampleTime(video, from) <= making.start
                /\ \A id \in Ids(video) :
                    /\ id > from /\ IsSync(video, id) => SampleTime(video, id) > making.start
                    /\ id >= from /\ SampleTime(video, id) <= making.end => id <= last
                /\ SameFrom("video", from)
                /\ "audio" \in DOMAIN writer.tables =>
                    LET audio == clip.tables.audio
                        heard == {id \in Ids(audio) :
                                    SampleTime(audio, id) \in zero..AudioTicks(making.end)}
                    IN  /\ SampleCount(writer.tables.audio) = Cardinality(heard)
                        /\ heard # {} =>
                            /\ SampleTime(audio, Origin("audio", 1)) \in zero..zero + FrameTicks - 1
                            /\ SameFrom("audio", Origin("audio", 1))

(* Both: a clip as it was written, and copies of it that say the same.          *)
ClipFileSound == FileTrue /\ TrimSound

(* A pause in the audio lasts as long in the clip as it did: a frame is read   *)
(* as far from the first as the muxer placed it ("Preserve real silence gaps   *)
(* between sentences in voice chat", mp4_muxer.rs:2196).                       *)
SilenceKept ==
    (making.kind = "saved" /\ "audio" \in DOMAIN snapshot) =>
        LET frames == Prepared(snapshot).audio
        IN  \A id \in Ids(clip.tables.audio) :
                SampleTime(clip.tables.audio, id) = frames[id].start - frames[1].start
=============================================================================
