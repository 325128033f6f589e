----------------------------- MODULE ExportPlan -----------------------------
(* The planner of an export that must not exceed a number of bytes             *)
(* (clip-export, planner.rs): reserve and audio are taken off the target,      *)
(* rounded up, and what is left is spread over the clip as the bitrate of the  *)
(* video, rounded down. Inputs are u64, the arithmetic is checked u128.        *)
(*                                                                            *)
(* The kinds of refusal are not told apart.                                   *)
EXTENDS Integers, Sequences

CONSTANTS
    Bits, Micros,   \* 8 and 1 000 000: bits of a byte, microseconds of a second
    Narrow, Wide,   \* the largest u64 and the largest u128
    Ladder,         \* the rungs in order of preference, each <<width, height, fps>>
    Requests        \* bound: what is asked for

ASSUME PlanAssumption ==
    /\ Bits \in Nat \ {0} /\ Micros \in Nat \ {0}
    /\ Narrow \in Nat /\ Wide \in Nat /\ Narrow * Narrow <= Wide
    /\ Ladder \in Seq(Nat \X Nat \X Nat)
    /\ Requests \subseteq
        [target : 0..Narrow, duration : 0..Narrow, audio : 0..Narrow, tracks : 0..Narrow,
         part : 0..Narrow, whole : 0..Narrow, fixed : 0..Narrow, floor : 0..Narrow,
         source : Nat \X Nat \X Nat]

VARIABLES
    request,
    plan        \* ExportPlan, or why there is none yet

planVars == <<request, plan>>

Unplanned == [made |-> FALSE, refused |-> FALSE]
NoPlan == [made |-> FALSE, refused |-> TRUE]

--------------------------------------------------------------------------------
CeilDiv(a, d) == IF a % d = 0 THEN a \div d ELSE a \div d + 1

(* supports_no_upscale, and select_rung: the first that does.                  *)
NoUpscale(rung, source) ==
    \A k \in 1..3 : rung[k] > 0 /\ rung[k] <= source[k]
Selectable(source) == {i \in 1..Len(Ladder) : NoUpscale(Ladder[i], source)}
SelectRung(source) ==
    Ladder[CHOOSE i \in Selectable(source) : \A j \in Selectable(source) : i <= j]

RatioBytes(r) == CeilDiv(r.target * r.part, r.whole)
Reserved(r) == RatioBytes(r) + r.fixed
AudioFloor(r) == (r.audio * r.duration * r.tracks) \div (Bits * Micros)
AudioBytes(r) == CeilDiv(r.audio * r.duration * r.tracks, Bits * Micros)
VideoBudget(r) == r.target - Reserved(r) - AudioBytes(r)
VideoBitrate(r) == (VideoBudget(r) * Bits * Micros) \div r.duration

(* What plan looks at, in its order; each product and sum must fit u128, the    *)
(* bitrate u64.                                                                *)
WellFormed(r) == r.duration # 0 /\ r.target # 0 /\ r.whole # 0 /\ r.part <= r.whole
Affordable(r) ==
    /\ r.target * r.part <= Wide /\ Reserved(r) <= Wide /\ Reserved(r) <= r.target
    /\ r.audio * r.duration <= Wide /\ r.audio * r.duration * r.tracks <= Wide
    /\ AudioBytes(r) <= r.target - Reserved(r)
    /\ VideoBudget(r) * Bits <= Wide /\ VideoBudget(r) * Bits * Micros <= Wide
Watchable(r) ==
    /\ Selectable(r.source) # {}
    /\ VideoBitrate(r) # 0 /\ VideoBitrate(r) >= r.floor /\ VideoBitrate(r) <= Narrow
Feasible(r) == WellFormed(r) /\ Affordable(r) /\ Watchable(r)

Planned(r) ==
    [made |-> TRUE, refused |-> FALSE, reserve |-> Reserved(r), audio |-> AudioBytes(r),
     video |-> VideoBudget(r), bitrate |-> VideoBitrate(r), rung |-> SelectRung(r.source)]

PlanInit == request \in Requests /\ plan = Unplanned

MakePlan ==
    /\ plan = Unplanned
    /\ plan' = IF Feasible(request) THEN Planned(request) ELSE NoPlan
    /\ UNCHANGED request

PlanSpec == PlanInit /\ [][MakePlan]_planVars

--------------------------------------------------------------------------------
(* The media of that length at that bitrate, with the audio and the reserve as *)
(* the request has them, unrounded (all times whole * Bits * Micros).          *)
Uses(r, bitrate) ==
    r.target * r.part * Bits * Micros
        + r.whole * (r.fixed * Bits * Micros + r.audio * r.duration * r.tracks
                     + bitrate * r.duration)
Full(r) == r.target * r.whole * Bits * Micros
Slack(r) == 2 * r.whole * Bits * Micros
Fits(r, bitrate) == Uses(r, bitrate) <= Full(r)

PlanTypeOK ==
    /\ request \in Requests
    /\ plan.made => \A f \in {"reserve", "audio", "video", "bitrate"} : plan[f] \in 0..Narrow

(* A plan keeps to the target whatever was rounded, wastes less than the two   *)
(* bytes of rounding and one bit per second, meets the floor, and never makes  *)
(* the picture larger.                                                         *)
PlanKeeps ==
    LET r == request
    IN  plan.made =>
            /\ Fits(r, plan.bitrate)
            /\ Uses(r, plan.bitrate + 1) > Full(r) - Slack(r)
            /\ plan.bitrate >= r.floor /\ plan.bitrate > 0
            /\ NoUpscale(plan.rung, r.source)

(* A well-formed request is refused only when the arithmetic leaves its width, *)
(* no rung is small enough, or nothing at or above the floor fits with a byte  *)
(* to spare for each rounding.                                                 *)
RefusedRightly ==
    LET r == request
    IN  plan.refused /\ WellFormed(r) /\ Selectable(r.source) # {} =>
            \/ Uses(r, 0) > Wide \/ VideoBudget(r) * Bits * Micros > Wide
            \/ VideoBitrate(r) > Narrow
            \/ \A bitrate \in 1..Narrow :
                bitrate >= r.floor => Uses(r, bitrate) > Full(r) - Slack(r)

(* Both.                                                                       *)
PlanFits == PlanKeeps /\ RefusedRightly
=============================================================================
