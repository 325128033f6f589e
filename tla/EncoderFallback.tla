-------------------------- MODULE EncoderFallback --------------------------
(* FallbackVideoEncoder (crates/encoder-api): one encoder out of a ranked list *)
(* is active; a frame it fails on is offered to a new instance of the same    *)
(* encoder once, then to those further down the list. The video worker makes  *)
(* every call, so a call is a sequence of steps nothing interleaves with; what *)
(* the encoders answer is open. An encoder may hold frames back for a while.  *)
(* A packet stands for the frame it encodes, marked with the instance.        *)
EXTENDS Integers, Sequences, FiniteSets

CONSTANTS
    Candidates,         \* encoders found on the machine
    Hardware,           \* those with capabilities.hardware_accelerated
    MaxFrames, MaxConfigures,   \* bounds: frames offered, configure calls
    MaxFailures                 \* bound: failed answers of encoders

ASSUME FallbackAssumption ==
    /\ IsFiniteSet(Candidates) /\ Hardware \subseteq Candidates
    /\ {MaxFrames, MaxConfigures, MaxFailures} \subseteq Nat

VARIABLES
    ranked,     \* self.candidates, best first
    active,     \* the active instance, Nobody when there is none
    activeIndex,\* self.active_index, 0 for None
    epoch,
    attempt,    \* the encode call under way
    untold,     \* self.events
    counts,     \* self.metrics
    told,       \* epochs the engine was told of (history)
    answers,    \* packets returned, with the epoch they were returned under (history)
    abandoned,  \* frames that went down with a failed instance (history)
    budget      \* how much of each bound is used

fallbackVars == <<ranked, active, activeIndex, epoch, attempt, untold, counts, told, answers,
                  abandoned, budget>>

Nobody == [born |-> 0]
NoCall == [at |-> "none"]
NoCounts == [submitted |-> 0, encoded |-> 0, dropped |-> 0, refused |-> 0]

FallbackInit ==
    /\ ranked = <<>>
    /\ active = Nobody
    /\ activeIndex = 0
    /\ epoch = 0
    /\ attempt = NoCall
    /\ untold = <<>>
    /\ counts = NoCounts
    /\ told = {} /\ answers = {} /\ abandoned = {}
    /\ budget = [configures |-> 0, failures |-> 0]

Fails == budget.failures < MaxFailures /\ budget' = [budget EXCEPT !.failures = @ + 1]
Works == UNCHANGED budget

(* Hardware before software; among equals any order stands for vendor, name   *)
(* and identifier.                                                            *)
HardwareFirst(order) ==
    \A i, j \in 1..Len(order) : i < j /\ order[j] \in Hardware => order[i] \in Hardware
Rankings ==
    {order \in UNION {[1..n -> Candidates] : n \in 0..Cardinality(Candidates)} :
        /\ \A i, j \in 1..Len(order) : order[i] = order[j] => i = j
        /\ HardwareFirst(order)}

Held == IF active = Nobody THEN {} ELSE {active.inside[i] : i \in 1..Len(active.inside)}
Packets(frames) == {[frame |-> frames[i], born |-> active.born, epoch |-> epoch] : i \in 1..Len(frames)}
Instance(index, at) == [born |-> at, index |-> index, inside |-> <<>>]

(* A replacement takes effect with a new epoch and an event that names it.    *)
ActivateInPlace(index) ==
    /\ active' = Instance(index, epoch + 1)
    /\ activeIndex' = index
    /\ UNCHANGED <<epoch, untold>>
Activate(index) ==
    /\ active' = Instance(index, epoch + 1)
    /\ activeIndex' = index
    /\ epoch' = epoch + 1
    /\ untold' = Append(untold, epoch + 1)

--------------------------------------------------------------------------------
(* configure: rank anew, and take the first that can be configured. What an   *)
(* old instance held is drained by the caller, or lost.                       *)
Configure(order) ==
    /\ attempt = NoCall /\ budget.configures < MaxConfigures
    /\ budget' = [budget EXCEPT !.configures = @ + 1]
    /\ ranked' = order
    /\ abandoned' = abandoned \cup Held
    /\ \/ \E index \in 1..Len(order) : Activate(index)
       \/ active' = Nobody /\ activeIndex' = 0 /\ UNCHANGED <<epoch, untold>>
    /\ UNCHANGED <<attempt, counts, told, answers>>

--------------------------------------------------------------------------------
(* encode.                                                                    *)
EncodeBegin ==
    /\ attempt = NoCall /\ activeIndex # 0 /\ counts.submitted < MaxFrames
    /\ counts' = [counts EXCEPT !.submitted = @ + 1,
                                !.refused = IF active = Nobody THEN @ + 1 ELSE @]
    /\ attempt' = IF active = Nobody THEN NoCall
                  ELSE [at |-> "offer", frame |-> counts.submitted + 1, index |-> activeIndex,
                        again |-> TRUE, offers |-> 0]
    /\ UNCHANGED <<ranked, active, activeIndex, epoch, untold, told, answers, abandoned, budget>>

(* It takes the frame and gives back some of the oldest it holds.             *)
Encoded ==
    LET held == Append(active.inside, attempt.frame)
    IN  /\ attempt.at = "offer" /\ Works
        /\ \E n \in 0..Len(held) :
            /\ active' = [active EXCEPT !.inside = SubSeq(held, n + 1, Len(held))]
            /\ answers' = answers \cup Packets(SubSeq(held, 1, n))
        /\ counts' = [counts EXCEPT !.encoded = @ + 1]
        /\ attempt' = NoCall
        /\ UNCHANGED <<ranked, activeIndex, epoch, untold, told, abandoned>>

EncodeFailed ==
    /\ attempt.at = "offer" /\ Fails
    /\ attempt' = [attempt EXCEPT !.at = IF attempt.again THEN "reinitialize" ELSE "next",
                                  !.offers = @ + 1]
    /\ abandoned' = abandoned \cup Held
    /\ active' = Nobody
    /\ UNCHANGED <<ranked, activeIndex, epoch, untold, counts, told, answers>>

Reinitialize ==
    /\ attempt.at = "reinitialize"
    /\ \/ /\ Activate(attempt.index) /\ Works
          /\ attempt' = [attempt EXCEPT !.at = "offer", !.again = FALSE]
       \/ /\ attempt' = [attempt EXCEPT !.at = "next", !.again = FALSE] /\ Fails
          /\ UNCHANGED <<active, activeIndex, epoch, untold>>
    /\ UNCHANGED <<ranked, counts, told, answers, abandoned>>

FallBack ==
    /\ attempt.at = "next" /\ attempt.index < Len(ranked) /\ Works
    /\ \E index \in attempt.index + 1 .. Len(ranked) :
        /\ Activate(index)
        /\ attempt' = [attempt EXCEPT !.at = "offer", !.index = index]
    /\ UNCHANGED <<ranked, counts, told, answers, abandoned>>

(* Nothing is left: the wrapper has no encoder, but keeps its place and is     *)
(* asked again only by a caller that ignores the error.                       *)
GiveUp ==
    /\ attempt.at = "next"
    /\ counts' = [counts EXCEPT !.dropped = @ + 1]
    /\ attempt' = NoCall
    /\ UNCHANGED <<ranked, active, activeIndex, epoch, untold, told, answers, abandoned, budget>>

--------------------------------------------------------------------------------
Drain ==
    /\ attempt = NoCall /\ active # Nobody
    /\ answers' = answers \cup Packets(active.inside)
    /\ active' = [active EXCEPT !.inside = <<>>]
    /\ UNCHANGED <<ranked, activeIndex, epoch, attempt, untold, counts, told, abandoned, budget>>

TakeEvents ==
    /\ attempt = NoCall /\ untold # <<>>
    /\ told' = told \cup {untold[i] : i \in 1..Len(untold)}
    /\ untold' = <<>>
    /\ UNCHANGED <<ranked, active, activeIndex, epoch, attempt, counts, answers, abandoned, budget>>

FallbackNext ==
    \/ \E order \in Rankings : Configure(order)
    \/ EncodeBegin \/ Encoded \/ EncodeFailed \/ Reinitialize \/ FallBack \/ GiveUp
    \/ Drain \/ TakeEvents

FallbackSpec == FallbackInit /\ [][FallbackNext]_fallbackVars

--------------------------------------------------------------------------------
FallbackTypeOK ==
    /\ ranked \in Rankings
    /\ active # Nobody => active.index \in 1..Len(ranked) /\ active.born \in 1..epoch
    /\ activeIndex \in 0..Len(ranked)
    /\ attempt.at \in {"none", "offer", "reinitialize", "next"}
    /\ \A f \in DOMAIN counts : counts[f] \in 0..MaxFrames

(* One epoch, one instance: packets returned under an epoch were all made by  *)
(* the instance that epoch stands for, no epoch passes without an event, and  *)
(* within a call the search only moves down the list, so that it ends after   *)
(* one offer more than there are encoders.                                    *)
EpochNamesInstance ==
    /\ \A a \in answers : a.born = a.epoch
    /\ active # Nobody => active.born = epoch
    /\ told \cup {untold[i] : i \in 1..Len(untold)} = 1..epoch
    /\ attempt # NoCall => attempt.offers <= attempt.index + 1

(* Every frame offered is accounted for once: returned, still inside the       *)
(* active encoder, gone with an instance that failed or was replaced, or      *)
(* answered with an error.                                                    *)
FramesAccounted ==
    LET out == {a.frame : a \in answers}
    IN  /\ out \cap Held = {} /\ out \cap abandoned = {} /\ Held \cap abandoned = {}
        /\ Cardinality(out \cup Held \cup abandoned) = counts.encoded
        /\ attempt = NoCall =>
            counts.encoded + counts.dropped + counts.refused = counts.submitted

(* Both: however encoders fail and are replaced, each frame is in one place   *)
(* and each packet under the epoch of the encoder that made it.               *)
ReplacementsSound == EpochNamesInstance /\ FramesAccounted
=============================================================================
