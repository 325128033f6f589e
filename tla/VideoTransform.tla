--------------------------- MODULE VideoTransform ---------------------------
(* MediaFoundationVideoEncoder (crates/encoder-media-foundation) over an       *)
(* asynchronous transform. The transform says by events when it wants a frame *)
(* and when it has one ready; it is handed frames and asked for output by the *)
(* video worker, who may wait for it. The presentation times of frames inside *)
(* wait in a queue and are given to the outputs in turn.                      *)
(*                                                                            *)
(* The transform is the system's: it accepts a frame for each it asked for,    *)
(* gives one output for each, in order, and stops when too many outputs wait. *)
(* One configured instance, from start to drain; any error is the end of it   *)
(* (EncoderFallback replaces it).                                             *)
EXTENDS Integers, Sequences

CONSTANTS
    Wanted,         \* frames the transform asks for ahead
    Shelf,          \* outputs it keeps before it stops
    Intervals,      \* bound: distances of frames
    MaxOffered      \* bound: frames offered

ASSUME TransformAssumption ==
    {Wanted, Shelf} \subseteq Nat \ {0} /\ MaxOffered \in Nat /\ Intervals \subseteq Nat

VARIABLES
    mft,        \* the transform: what it asked for, holds, has ready and announced
    call,       \* the call of the worker and how far it is
    pending,    \* async_pending_outputs
    ptsQueue,   \* input_pts_queue
    lastDts,    \* timeline.last_dts_ms, -1 for None
    offered,    \* presentation times of the frames offered (history)
    accepted,   \* which of them went in (history)
    packets     \* packets returned, with the frame each encodes (history)

transformVars == <<mft, call, pending, ptsQueue, lastDts, offered, accepted, packets>>

NoWork == [at |-> "idle", again |-> FALSE]
TransformInit ==
    /\ mft = [open |-> TRUE, asked |-> 0, inside |-> <<>>, ready |-> <<>>, events |-> <<>>]
    /\ call = NoWork /\ pending = 0 /\ ptsQueue = <<>> /\ lastDts = -1
    /\ offered = <<>> /\ accepted = <<>> /\ packets = <<>>

Announce(event) == Append(mft.events, event)
NowAt(place) == call' = [call EXCEPT !.at = place]

--------------------------------------------------------------------------------
(* The transform.                                                             *)
AskForInput ==
    /\ mft.open /\ mft.asked + Len(mft.inside) < Wanted
    /\ mft' = [mft EXCEPT !.asked = @ + 1, !.events = Announce("NeedInput")]
    /\ UNCHANGED <<call, pending, ptsQueue, lastDts, offered, accepted, packets>>

FinishFrame ==
    /\ mft.inside # <<>> /\ Len(mft.ready) < Shelf
    /\ mft' = [mft EXCEPT !.inside = Tail(@), !.ready = Append(@, Head(mft.inside)),
                          !.events = Announce("HaveOutput")]
    /\ UNCHANGED <<call, pending, ptsQueue, lastDts, offered, accepted, packets>>

CompleteDrain ==
    /\ ~ mft.open /\ mft.inside = <<>> /\ call.at = "drain"
    /\ \A i \in 1..Len(mft.events) : mft.events[i] # "DrainComplete"
    /\ mft' = [mft EXCEPT !.events = Announce("DrainComplete")]
    /\ UNCHANGED <<call, pending, ptsQueue, lastDts, offered, accepted, packets>>

--------------------------------------------------------------------------------
(* drain_output: the next output gets the time that has waited longest, and   *)
(* never less than the one before (OutputTimeline::advance).                  *)
ProcessOutput ==
    IF mft.ready = <<>> THEN UNCHANGED <<ptsQueue, lastDts, packets>>
    ELSE LET raw == IF ptsQueue = <<>> THEN 0 ELSE Head(ptsQueue)
             pts == IF raw < lastDts THEN lastDts ELSE raw
         IN  /\ packets' = Append(packets, [frame |-> Head(mft.ready), pts |-> pts])
             /\ lastDts' = pts
             /\ ptsQueue' = IF ptsQueue = <<>> THEN <<>> ELSE Tail(ptsQueue)
Shelved(m) == [m EXCEPT !.ready = IF @ = <<>> THEN @ ELSE Tail(@)]

(* collect_async_events, one event at a time, until there is none.            *)
CollectEvents ==
    /\ call.at = "collect"
    /\ \/ /\ mft.events # <<>>
          /\ mft' = [mft EXCEPT !.events = Tail(@)]
          /\ pending' = IF Head(mft.events) = "HaveOutput" THEN pending + 1 ELSE pending
          /\ UNCHANGED call
       \/ mft.events = <<>> /\ NowAt("fetch") /\ UNCHANGED <<mft, pending>>
    /\ UNCHANGED <<ptsQueue, lastDts, offered, accepted, packets>>

(* drain_pending_async_outputs.                                               *)
FetchPending ==
    /\ call.at = "fetch"
    /\ \/ /\ pending > 0 /\ pending' = pending - 1
          /\ ProcessOutput /\ mft' = Shelved(mft)
          /\ UNCHANGED call
       \/ /\ pending = 0
          /\ IF call.again THEN call' = NoWork ELSE NowAt("sample")
          /\ UNCHANGED <<mft, pending, ptsQueue, lastDts, packets>>
    /\ UNCHANGED <<offered, accepted>>

(* encode. The texture of a frame may be gone: then the frame is left out.     *)
Encode(pts) ==
    /\ call.at = "idle" /\ mft.open /\ Len(offered) < MaxOffered
    /\ offered' = Append(offered, pts)
    /\ call' = [at |-> "collect", again |-> FALSE]
    /\ UNCHANGED <<mft, pending, ptsQueue, lastDts, accepted, packets>>

MakeSampleLast ==
    /\ call.at = "sample"
    /\ ptsQueue' = Append(ptsQueue, offered[Len(offered)])
    /\ NowAt("input") \/ call' = NoWork
    /\ UNCHANGED <<mft, pending, lastDts, offered, accepted, packets>>
MakeSample ==
    /\ call.at = "sample"
    /\ \/ NowAt("input") /\ ptsQueue' = Append(ptsQueue, offered[Len(offered)])
       \/ call' = NoWork /\ UNCHANGED ptsQueue
    /\ UNCHANGED <<mft, pending, lastDts, offered, accepted, packets>>

(* ProcessInput is refused unless the transform asked for a frame.            *)
ProcessInput ==
    /\ call.at = "input"
    /\ IF mft.asked = 0 THEN NowAt("wait") /\ UNCHANGED <<mft, accepted>>
       ELSE /\ mft' = [mft EXCEPT !.asked = @ - 1, !.inside = Append(@, Len(offered))]
            /\ accepted' = Append(accepted, Len(offered))
            /\ call' = [at |-> "collect", again |-> TRUE]
    /\ UNCHANGED <<pending, ptsQueue, lastDts, offered, packets>>

(* wait_for_async_input: an output announced meanwhile is fetched at once.     *)
WaitForInput ==
    /\ call.at = "wait" /\ mft.events # <<>>
    /\ LET taken == [mft EXCEPT !.events = Tail(@)]
       IN  IF Head(mft.events) = "NeedInput"
           THEN NowAt("input") /\ mft' = taken /\ UNCHANGED <<ptsQueue, lastDts, packets>>
           ELSE ProcessOutput /\ mft' = Shelved(taken) /\ UNCHANGED call
    /\ UNCHANGED <<pending, offered, accepted>>

(* drain: no more frames; outputs until the transform has said it is done.     *)
DrainBegin ==
    /\ call.at = "idle" /\ mft.open
    /\ mft' = [mft EXCEPT !.open = FALSE, !.asked = 0]
    /\ NowAt("drain")
    /\ UNCHANGED <<pending, ptsQueue, lastDts, offered, accepted, packets>>

DrainStep ==
    /\ call.at = "drain" /\ mft.events # <<>>
    /\ LET taken == [mft EXCEPT !.events = Tail(@)]
       IN  CASE Head(mft.events) = "HaveOutput" ->
                    ProcessOutput /\ mft' = Shelved(taken) /\ UNCHANGED call
             [] Head(mft.events) = "NeedInput" ->
                    mft' = taken /\ UNCHANGED <<ptsQueue, lastDts, packets, call>>
             [] OTHER -> mft' = taken /\ NowAt("drained") /\ UNCHANGED <<ptsQueue, lastDts, packets>>
    /\ UNCHANGED <<pending, offered, accepted>>

(* Any call into the transform may fail, and a wait ends after 5 seconds.     *)
TransformFails ==
    /\ call.at \notin {"idle", "failed", "drained"} /\ NowAt("failed")
    /\ UNCHANGED <<mft, pending, ptsQueue, lastDts, offered, accepted, packets>>

Previous == IF offered = <<>> THEN 0 ELSE offered[Len(offered)]
TransformNext ==
    \/ AskForInput \/ FinishFrame \/ CompleteDrain
    \/ CollectEvents \/ FetchPending \/ MakeSample \/ ProcessInput \/ WaitForInput
    \/ DrainBegin \/ DrainStep \/ TransformFails
    \/ \E gap \in Intervals : Encode(Previous + gap)

TransformSpec == TransformInit /\ [][TransformNext]_transformVars

--------------------------------------------------------------------------------
TransformTypeOK ==
    /\ call.at \in {"idle", "collect", "fetch", "sample", "input", "wait", "drain", "drained", "failed"}
    /\ pending \in Nat /\ mft.asked \in 0..Wanted /\ Len(mft.ready) <= Shelf /\ lastDts >= -1

(* A packet carries the time of the frame it encodes, frames come out in the   *)
(* order they went in, and a drain that ends has brought out every one,       *)
(* although times and outputs meet only by their order and frames whose        *)
(* texture is gone never go in.                                                *)
PacketsPaired ==
    /\ \A i \in 1..Len(packets) :
        packets[i] = [frame |-> accepted[i], pts |-> offered[accepted[i]]]
    /\ call.at = "drained" => Len(packets) = Len(accepted)

(* The 5 seconds of a wait run only while the transform owes an event by       *)
(* itself: it keeps no output the worker has been told of and not fetched,     *)
(* which would stop it, and is neither full nor waiting for a frame.          *)
WaitsOnTransform ==
    (call.at \in {"wait", "drain"} /\ mft.events = <<>>) =>
        /\ mft.ready = <<>> /\ pending = 0
        /\ call.at = "wait" => mft.asked = 0

(* Both.                                                                      *)
TransformSound == PacketsPaired /\ WaitsOnTransform
=============================================================================
