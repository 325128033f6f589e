----------------------------- MODULE MCClipFile -----------------------------
(* The media of the small clips: two keyframes of different sizes and a frame *)
(* that is shown later than it is decoded; audio that begins before the first *)
(* frame, or after it.                                                        *)
EXTENDS ClipFile

MCVideoKinds ==
    {[key |-> TRUE, offset |-> 0, size |-> 2], [key |-> TRUE, offset |-> 0, size |-> 1],
     [key |-> FALSE, offset |-> 2, size |-> 1]}
MCAudioStarts == {-2, 7}
=============================================================================
