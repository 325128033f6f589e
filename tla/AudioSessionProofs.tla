-------------------------- MODULE AudioSessionProofs --------------------------
(* Proofs about one audio worker and its timeline: however often silence is    *)
(* made up, the stamps jump or the device is lost, for all lengths and delays. *)
EXTENDS AudioSession, SequenceTheorems, TLAPS

-----------------------------------------------------------------------------
(* The inductive invariant. What is in it beyond the property says where the   *)
(* clock and the device are when the next frame comes.                        *)
Chunk == [time : Int, length : Nat, stamp : Int, nth : 1..2]
Stages == {"loop", "capture", "process", "restart", "done"}

Typed ==
    /\ endpoint \in [lost : BOOLEAN, losses : 0..MaxLosses, heard : Int] /\ audioTime \in Int
    /\ sync \in [accepted : 0..2, origin : Int, last : Int, offset : Int, out : Int, expected : Int]
    /\ listener \in [at : Stages, attempts : 0..RestartLimit]
    /\ frame \in [stamp : Int, length : Nat]
    /\ chunks \in Seq(Chunk) /\ Len(chunks) <= MaxChunks

LastChunk == chunks[Len(chunks)]
Ends == LastChunk.stamp + LastChunk.length
Excess == Later(0, SilenceWait - RestartPause)

(* The stamp that stands for the time last given out.                          *)
Due == sync.out - sync.offset + sync.origin

(* What the synchronizer remembers of the newest chunk.                        *)
Remembered ==
    /\ Len(chunks) = 0 =>
        sync.accepted = 0 /\ sync.offset = 0 /\ sync.out = Unset /\ sync.expected = Unset
    /\ Len(chunks) > 0 =>
        /\ sync.out = LastChunk.time /\ sync.out >= 0 /\ sync.expected = LastChunk.time + LastChunk.length
        /\ sync.accepted = 0 => sync.offset = sync.expected
        /\ sync.accepted > 0 =>
            /\ LastChunk.nth = sync.accepted /\ sync.last = LastChunk.stamp - sync.origin
            /\ sync.out >= sync.last + sync.offset
            /\ (\A j \in 1..Len(chunks) : ~ Anew(j)) =>
                sync.offset = 0 /\ sync.origin = chunks[1].stamp

(* Between frames the newest chunk was a packet that ends now, or silence       *)
(* stamped now; with no timeline the next stamp is at most the excess early.   *)
Clocked ==
    /\ listener.at \in {"loop", "capture"} /\ sync.accepted > 0 =>
        /\ Due <= audioTime
        /\ \/ endpoint.heard = audioTime /\ Ends = audioTime
           \/ LastChunk.stamp = audioTime /\ LastChunk.length = SilenceWait
    /\ listener.at \in {"loop", "capture"} /\ sync.accepted = 0 /\ Len(chunks) > 0 =>
        endpoint.heard >= Ends - Excess /\ audioTime >= Ends - Excess
    /\ listener.at = "restart" /\ Len(chunks) > 0 => audioTime + RestartPause >= Ends - Excess

(* A frame on its way to the synchronizer.                                     *)
Framed ==
    listener.at = "process" =>
        /\ Len(chunks) < MaxChunks
        /\ \/ endpoint.heard = audioTime /\ frame.stamp + frame.length = audioTime
           \/ frame.stamp = audioTime /\ frame.length = SilenceWait
        /\ sync.accepted = 0 /\ Len(chunks) > 0 => frame.stamp >= Ends - Excess
        /\ sync.accepted > 0 =>
            /\ Due <= audioTime /\ (frame.stamp >= LastChunk.stamp => frame.stamp >= Due)
            /\ \/ endpoint.heard >= Ends /\ audioTime >= Ends
               \/ /\ frame.stamp - LastChunk.stamp <= MaxDiscontinuity
                  /\ LastChunk.stamp - frame.stamp <= MaxDiscontinuity

Inv == Typed /\ Remembered /\ Clocked /\ Framed /\ AudioInStep

-----------------------------------------------------------------------------
LEMMA Constants ==
    /\ SilenceWait \in Nat \ {0} /\ RestartPause \in Nat /\ RestartLimit \in Nat \ {0}
    /\ MaxDiscontinuity \in Nat \ {0} /\ MaxLosses \in Nat /\ MaxChunks \in Nat
    /\ Lengths \subseteq Nat \ {0} /\ Delays \subseteq Int
    /\ SilenceWait <= MaxDiscontinuity /\ \A d \in Delays : d >= -MaxDiscontinuity
BY AudioAssumption, JumpAssumption

LEMMA ExcessBounds ==
    Excess \in Nat /\ Excess >= SilenceWait - RestartPause
BY Constants DEF Excess, Later

(* The newest chunk is a chunk.                                                *)
LEMMA NewestChunk ==
    ASSUME Typed, Len(chunks) > 0
    PROVE  LastChunk \in Chunk /\ Ends \in Int /\ Len(chunks) \in Nat
<1>1. Len(chunks) \in Nat /\ chunks[Len(chunks)] \in Chunk
  BY DEF Typed
<1>2. chunks[Len(chunks)].stamp \in Int /\ chunks[Len(chunks)].length \in Int
  BY <1>1 DEF Chunk
<1>. QED BY <1>1, <1>2 DEF LastChunk, Ends

LEMMA InvInit == AudioInit => Inv
<1>. SUFFICES ASSUME AudioInit PROVE Inv
  OBVIOUS
<1>1. Len(chunks) = 0 /\ chunks \in Seq(Chunk)
  BY DEF AudioInit
<1>2. Typed
  BY <1>1, Constants DEF AudioInit, Typed, NoFrame, Unset, Stages
<1>3. Remembered
  BY <1>1 DEF AudioInit, Remembered
<1>4. Clocked /\ Framed
  BY <1>1 DEF AudioInit, Clocked, Framed
<1>5. AudioInStep
  BY <1>1 DEF AudioInStep
<1>. QED BY <1>2, <1>3, <1>4, <1>5 DEF Inv

-----------------------------------------------------------------------------
(* The steps that leave timeline and chunks alone.                             *)
LEMMA Untouched ==
    ASSUME Inv, UNCHANGED <<sync, chunks>>
    PROVE  Remembered' /\ AudioInStep'
BY DEF Inv, Remembered, AudioInStep, LastChunk, Anew, Lead

LEMMA LoseStep == Inv /\ LoseDevice => Inv'
<1>. SUFFICES ASSUME Inv, LoseDevice PROVE Inv'
  OBVIOUS
<1>0. endpoint' \in [lost : BOOLEAN, losses : 0..MaxLosses, heard : Int]
  <2>1. endpoint \in [lost : BOOLEAN, losses : 0..MaxLosses, heard : Int] /\ endpoint.losses < MaxLosses
        /\ endpoint' = [endpoint EXCEPT !.lost = TRUE, !.losses = @ + 1]
    BY DEF Inv, Typed, LoseDevice
  <2>2. endpoint.losses + 1 \in 0..MaxLosses
    BY <2>1, Constants
  <2>. QED BY <2>1, <2>2
<1>1. Typed'
  BY <1>0 DEF Inv, Typed, LoseDevice
<1>2. endpoint'.heard = endpoint.heard /\ UNCHANGED <<audioTime, sync, listener, frame, chunks>>
  BY DEF LoseDevice, Inv, Typed
<1>3. Clocked' /\ Framed'
  BY <1>2 DEF Inv, Clocked, Framed, Due, Ends, LastChunk, Excess
<1>. QED BY <1>1, <1>2, <1>3, Untouched DEF Inv

LEMMA RoundStep == Inv /\ Round => Inv'
<1>. SUFFICES ASSUME Inv, Round PROVE Inv'
  OBVIOUS
<1>1. listener.at = "loop" /\ listener' \in [at : Stages, attempts : 0..RestartLimit]
      /\ listener'.at \in {"capture", "done"} /\ UNCHANGED <<endpoint, audioTime, sync, frame, chunks>>
  BY DEF Round, Listen, Inv, Typed, Stages
<1>2. Typed'
  BY <1>1 DEF Inv, Typed
<1>3. Clocked' /\ Framed'
  BY <1>1 DEF Inv, Clocked, Framed, Due, Ends, LastChunk, Excess
<1>. QED BY <1>1, <1>2, <1>3, Untouched DEF Inv

LEMMA FailStep == Inv /\ CaptureFails => Inv'
<1>. SUFFICES ASSUME Inv, CaptureFails PROVE Inv'
  OBVIOUS
<1>1. listener' \in [at : Stages, attempts : 0..RestartLimit]
      /\ listener'.at = "done" /\ UNCHANGED <<endpoint, audioTime, sync, frame, chunks>>
  BY DEF CaptureFails, Listen, Inv, Typed, Stages
<1>2. Typed'
  BY <1>1 DEF Inv, Typed
<1>3. Clocked' /\ Framed'
  BY <1>1 DEF Clocked, Framed
<1>. QED BY <1>1, <1>2, <1>3, Untouched DEF Inv

(* A lost device: whatever the newest chunk was, it ends no later than the      *)
(* first pause and the excess from now.                                        *)
LEMMA LostStep == Inv /\ DeviceLost => Inv'
<1>. SUFFICES ASSUME Inv, DeviceLost PROVE Inv'
  OBVIOUS
<1>1. listener.at = "capture" /\ listener' \in [at : Stages, attempts : 0..RestartLimit]
      /\ listener'.at \in {"restart", "done"} /\ UNCHANGED <<endpoint, audioTime, sync, frame, chunks>>
  BY DEF DeviceLost, Listen, Inv, Typed, Stages
<1>2. Typed'
  BY <1>1 DEF Inv, Typed
<1>3. ASSUME Len(chunks) > 0 PROVE audioTime + RestartPause >= Ends - Excess
  <2>1. /\ Ends \in Int /\ LastChunk.stamp \in Int /\ LastChunk.length \in Int /\ audioTime \in Int
        /\ Ends = LastChunk.stamp + LastChunk.length /\ sync.accepted \in 0..2
    BY <1>3, NewestChunk DEF Inv, Typed, Chunk, Ends
  <2>2. CASE sync.accepted = 0
    BY <1>1, <1>3, <2>1, <2>2, Constants, ExcessBounds DEF Inv, Clocked
  <2>3. CASE sync.accepted > 0
    <3>1. Ends = audioTime \/ (LastChunk.stamp = audioTime /\ LastChunk.length = SilenceWait)
      BY <1>1, <2>3 DEF Inv, Clocked
    <3>. QED BY <2>1, <3>1, Constants, ExcessBounds
  <2>. QED BY <2>1, <2>2, <2>3
<1>4. Clocked' /\ Framed'
  BY <1>1, <1>3 DEF Clocked, Framed, Ends, LastChunk, Excess
<1>. QED BY <1>1, <1>2, <1>4, Untouched DEF Inv

-----------------------------------------------------------------------------
(* What is known of the newest chunk when the next frame is waited for.         *)
LEMMA AtCapture ==
    ASSUME Inv, listener.at = "capture"
    PROVE  /\ endpoint.heard \in Int /\ audioTime \in Int /\ sync.accepted \in 0..2
           /\ Len(chunks) \in Nat
           /\ sync.accepted > 0 => Len(chunks) > 0
           /\ Len(chunks) > 0 =>
                /\ LastChunk.stamp \in Int /\ LastChunk.length \in Nat /\ Ends \in Int
                /\ Ends = LastChunk.stamp + LastChunk.length
           /\ sync.accepted > 0 =>
                /\ Due \in Int /\ Due <= audioTime
                /\ \/ endpoint.heard = audioTime /\ Ends = audioTime
                   \/ LastChunk.stamp = audioTime /\ LastChunk.length = SilenceWait
           /\ sync.accepted = 0 /\ Len(chunks) > 0 =>
                endpoint.heard >= Ends - Excess /\ audioTime >= Ends - Excess
<1>1. /\ endpoint.heard \in Int /\ audioTime \in Int /\ sync.accepted \in 0..2 /\ Len(chunks) \in Nat
      /\ sync.out \in Int /\ sync.offset \in Int /\ sync.origin \in Int
  BY LenProperties DEF Inv, Typed
<1>2. sync.accepted > 0 => Len(chunks) > 0
  BY <1>1 DEF Inv, Remembered
<1>3. Len(chunks) > 0 =>
        /\ LastChunk.stamp \in Int /\ LastChunk.length \in Nat /\ Ends \in Int
        /\ Ends = LastChunk.stamp + LastChunk.length
  BY NewestChunk DEF Inv, Chunk, Ends
<1>4. Due \in Int
  BY <1>1 DEF Due
<1>5. /\ sync.accepted > 0 =>
            /\ Due <= audioTime
            /\ \/ endpoint.heard = audioTime /\ Ends = audioTime
               \/ LastChunk.stamp = audioTime /\ LastChunk.length = SilenceWait
      /\ sync.accepted = 0 /\ Len(chunks) > 0 =>
            endpoint.heard >= Ends - Excess /\ audioTime >= Ends - Excess
  BY DEF Inv, Clocked
<1>. QED BY <1>1, <1>2, <1>3, <1>4, <1>5

LEMMA ReadStep ==
    ASSUME NEW delay \in Delays, NEW length \in Lengths, Inv, ReadPacket(delay, length)
    PROVE  Inv'
<1>. DEFINE stamp == audioTime + delay
<1>1. /\ listener.at = "capture" /\ stamp >= endpoint.heard /\ stamp + length > audioTime
      /\ frame' = [stamp |-> stamp, length |-> length] /\ audioTime' = stamp + length
      /\ endpoint' = [endpoint EXCEPT !.heard = stamp + length] /\ Len(chunks) < MaxChunks
      /\ listener' = [listener EXCEPT !.at = "process"] /\ UNCHANGED <<sync, chunks>>
  BY DEF ReadPacket, Listen
<1>2. delay \in Int /\ length \in Nat \ {0} /\ delay >= -MaxDiscontinuity /\ MaxDiscontinuity \in Nat
      /\ SilenceWait \in Nat /\ SilenceWait <= MaxDiscontinuity
  BY Constants
<1>3. audioTime \in Int /\ stamp \in Int /\ endpoint.heard \in Int
  BY <1>1, <1>2, AtCapture
<1>4. Typed'
  <2>1. stamp + length \in Int
    BY <1>2, <1>3
  <2>2. endpoint' \in [lost : BOOLEAN, losses : 0..MaxLosses, heard : Int]
    BY <1>1, <2>1 DEF Inv, Typed
  <2>3. listener' \in [at : Stages, attempts : 0..RestartLimit]
    BY <1>1 DEF Inv, Typed, Stages
  <2>4. frame' \in [stamp : Int, length : Nat]
    BY <1>1, <1>2, <1>3
  <2>. QED BY <1>1, <2>1, <2>2, <2>3, <2>4 DEF Inv, Typed
<1>5. frame'.stamp = stamp /\ frame'.length = length /\ endpoint'.heard = stamp + length
      /\ listener'.at = "process"
  BY <1>1 DEF Inv, Typed
<1>6. Clocked'
  BY <1>5 DEF Clocked
<1>7. ASSUME sync.accepted = 0, Len(chunks) > 0 PROVE stamp >= Ends - Excess
  <2>1. Ends \in Int /\ endpoint.heard >= Ends - Excess /\ audioTime >= Ends - Excess
    BY <1>1, <1>7, AtCapture
  <2>. QED BY <1>1, <1>2, <1>3, <2>1, ExcessBounds
<1>8. ASSUME sync.accepted > 0
      PROVE  /\ Due <= stamp + length /\ (stamp >= LastChunk.stamp => stamp >= Due)
             /\ \/ stamp + length >= Ends
                \/ /\ stamp - LastChunk.stamp <= MaxDiscontinuity
                   /\ LastChunk.stamp - stamp <= MaxDiscontinuity
  <2>1. /\ Due \in Int /\ Due <= audioTime /\ LastChunk.stamp \in Int /\ LastChunk.length \in Nat
        /\ Ends = LastChunk.stamp + LastChunk.length
        /\ \/ endpoint.heard = audioTime /\ Ends = audioTime
           \/ LastChunk.stamp = audioTime /\ LastChunk.length = SilenceWait
    BY <1>1, <1>8, AtCapture
  <2>2. stamp >= endpoint.heard /\ stamp + length > audioTime
    BY <1>1
  <2>3. CASE endpoint.heard = audioTime /\ Ends = audioTime
    BY <1>2, <1>3, <2>1, <2>2, <2>3
  <2>4. CASE LastChunk.stamp = audioTime /\ LastChunk.length = SilenceWait
    BY <1>2, <1>3, <2>1, <2>2, <2>4
  <2>. QED BY <2>1, <2>3, <2>4
<1>9. Framed'
  <2>1. UNCHANGED <<LastChunk, Ends, Due, sync, chunks>>
    BY <1>1 DEF LastChunk, Ends, Due
  <2>2. Excess' = Excess
    BY DEF Excess, Later
  <2>3. audioTime' = stamp + length
    BY <1>1
  <2>. QED BY <1>1, <1>5, <1>7, <1>8, <2>1, <2>2, <2>3 DEF Framed
<1>. QED BY <1>1, <1>4, <1>6, <1>9, Untouched DEF Inv

LEMMA SilenceStep == Inv /\ MakeSilence => Inv'
<1>. SUFFICES ASSUME Inv, MakeSilence PROVE Inv'
  OBVIOUS
<1>. DEFINE now == audioTime + SilenceWait
<1>1. /\ listener.at = "capture" /\ audioTime' = now
      /\ frame' = [stamp |-> now, length |-> SilenceWait] /\ Len(chunks) < MaxChunks
      /\ listener' = [listener EXCEPT !.at = "process"] /\ UNCHANGED <<endpoint, sync, chunks>>
  BY DEF MakeSilence, Listen
<1>2. MaxDiscontinuity \in Nat /\ SilenceWait \in Nat \ {0} /\ SilenceWait <= MaxDiscontinuity
  BY Constants
<1>3. audioTime \in Int /\ now \in Int /\ endpoint.heard \in Int
  BY <1>1, <1>2, AtCapture
<1>4. Typed'
  BY <1>1, <1>2, <1>3 DEF Inv, Typed, Stages
<1>5. frame'.stamp = now /\ frame'.length = SilenceWait /\ listener'.at = "process"
  BY <1>1 DEF Inv, Typed
<1>6. Clocked'
  BY <1>5 DEF Clocked
<1>7. ASSUME sync.accepted = 0, Len(chunks) > 0 PROVE now >= Ends - Excess
  <2>1. Ends \in Int /\ endpoint.heard >= Ends - Excess /\ audioTime >= Ends - Excess
    BY <1>1, <1>7, AtCapture
  <2>. QED BY <1>1, <1>2, <1>3, <2>1, ExcessBounds
<1>8. ASSUME sync.accepted > 0
      PROVE  /\ Due <= now /\ now >= Due
             /\ \/ endpoint.heard >= Ends /\ now >= Ends
                \/ /\ now - LastChunk.stamp <= MaxDiscontinuity
                   /\ LastChunk.stamp - now <= MaxDiscontinuity
  <2>1. /\ Due \in Int /\ Due <= audioTime /\ LastChunk.stamp \in Int /\ LastChunk.length \in Nat
        /\ Ends = LastChunk.stamp + LastChunk.length
        /\ \/ endpoint.heard = audioTime /\ Ends = audioTime
           \/ LastChunk.stamp = audioTime /\ LastChunk.length = SilenceWait
    BY <1>1, <1>8, AtCapture
  <2>. QED BY <1>1, <1>2, <1>3, <2>1
<1>9. Framed'
  <2>1. UNCHANGED <<LastChunk, Ends, Due, sync, chunks, endpoint>>
    BY <1>1 DEF LastChunk, Ends, Due
  <2>2. Excess' = Excess
    BY DEF Excess, Later
  <2>3. audioTime' = now
    BY <1>1
  <2>. QED BY <1>1, <1>5, <1>7, <1>8, <2>1, <2>2, <2>3 DEF Framed
<1>. QED BY <1>1, <1>4, <1>6, <1>9, Untouched DEF Inv

-----------------------------------------------------------------------------
(* A source that is reset keeps its chunks, and the next begins where they end. *)
LEMMA ResetRemembers ==
    ASSUME Inv, sync' = ResetSource(sync), UNCHANGED chunks
    PROVE  /\ sync' \in [accepted : 0..2, origin : Int, last : Int, offset : Int, out : Int, expected : Int]
           /\ sync'.accepted = 0 /\ Remembered' /\ AudioInStep'
<1>1. sync \in [accepted : 0..2, origin : Int, last : Int, offset : Int, out : Int, expected : Int]
  BY DEF Inv, Typed
<1>2. /\ sync' \in [accepted : 0..2, origin : Int, last : Int, offset : Int, out : Int, expected : Int]
      /\ sync'.accepted = 0 /\ sync'.out = sync.out /\ sync'.expected = sync.expected
      /\ sync'.offset = IF sync.expected = Unset THEN 0 ELSE sync.expected
  <2>. DEFINE o == IF sync.expected = Unset THEN 0 ELSE sync.expected
  <2>1. o \in Int
    BY <1>1
  <2>2. sync' = [sync EXCEPT !.accepted = 0, !.offset = o]
    BY DEF ResetSource
  <2>. HIDE DEF o
  <2>3. sync' = [accepted |-> 0, origin |-> sync.origin, last |-> sync.last, offset |-> o,
                 out |-> sync.out, expected |-> sync.expected]
    BY <1>1, <2>2
  <2>4. /\ sync.origin \in Int /\ sync.last \in Int /\ sync.out \in Int /\ sync.expected \in Int
        /\ 0 \in 0..2
    BY <1>1
  <2>. QED BY <2>1, <2>3, <2>4 DEF o
<1>3. Len(chunks) > 0 => sync.expected # Unset /\ sync.out = LastChunk.time /\ sync.out >= 0
                         /\ sync.expected = LastChunk.time + LastChunk.length
  <2>. SUFFICES ASSUME Len(chunks) > 0
                PROVE  /\ sync.expected # Unset /\ sync.out = LastChunk.time /\ sync.out >= 0
                       /\ sync.expected = LastChunk.time + LastChunk.length
    OBVIOUS
  <2>1. sync.out = LastChunk.time /\ sync.out >= 0 /\ sync.expected = LastChunk.time + LastChunk.length
    BY DEF Inv, Remembered
  <2>2. LastChunk.time \in Int /\ LastChunk.length \in Nat
    BY NewestChunk DEF Inv, Chunk
  <2>. QED BY <2>1, <2>2 DEF Unset
<1>4. Len(chunks) = 0 => sync.out = Unset /\ sync.expected = Unset
  BY DEF Inv, Remembered
<1>5. Remembered'
  BY <1>2, <1>3, <1>4 DEF Remembered, LastChunk, Unset
<1>6. AudioInStep'
  BY DEF Inv, AudioInStep, Anew, Lead
<1>. QED BY <1>2, <1>5, <1>6

(* A frame is refused after a jump only when the newest chunk is over.          *)
LEMMA JumpStep == Inv /\ Discontinuity => Inv'
<1>. SUFFICES ASSUME Inv, Discontinuity PROVE Inv'
  OBVIOUS
<1>1. /\ listener.at = "process" /\ Jumps /\ sync' = ResetSource(sync) /\ frame' = NoFrame
      /\ listener' = [listener EXCEPT !.at = "loop"] /\ UNCHANGED <<endpoint, audioTime, chunks>>
  BY DEF Discontinuity, Listen
<1>2. sync'.accepted = 0 /\ Remembered' /\ AudioInStep'
  BY <1>1, ResetRemembers
<1>3. Typed'
  <2>1. frame' \in [stamp : Int, length : Nat]
    BY <1>1 DEF NoFrame
  <2>2. listener' \in [at : Stages, attempts : 0..RestartLimit]
    BY <1>1 DEF Inv, Typed, Stages
  <2>. QED BY <1>1, <2>1, <2>2, ResetRemembers DEF Inv, Typed
<1>4. listener'.at = "loop"
  BY <1>1 DEF Inv, Typed
<1>5. endpoint.heard >= Ends /\ audioTime >= Ends
  <2>1. sync.accepted = 2 /\ frame.stamp \in Int /\ sync.origin \in Int /\ sync.last \in Int
    BY <1>1 DEF Jumps, Inv, Typed
  <2>2. Len(chunks) > 0
    <3>1. Len(chunks) \in Nat
      BY LenProperties DEF Inv, Typed
    <3>. QED BY <2>1, <3>1 DEF Inv, Remembered
  <2>3. sync.last = LastChunk.stamp - sync.origin
    BY <2>1, <2>2 DEF Inv, Remembered
  <2>4. LastChunk.stamp \in Int
    BY <2>2, NewestChunk DEF Inv, Chunk
  <2>5. MaxDiscontinuity \in Nat
    BY Constants
  <2>6. Since = frame.stamp - sync.origin
    BY <2>1 DEF Since
  <2>7. \/ frame.stamp - LastChunk.stamp > MaxDiscontinuity
        \/ LastChunk.stamp - frame.stamp > MaxDiscontinuity
    BY <1>1, <2>1, <2>3, <2>4, <2>5, <2>6 DEF Jumps
  <2>8. \/ endpoint.heard >= Ends /\ audioTime >= Ends
        \/ /\ frame.stamp - LastChunk.stamp <= MaxDiscontinuity
           /\ LastChunk.stamp - frame.stamp <= MaxDiscontinuity
    BY <1>1, <2>1 DEF Inv, Framed
  <2>. QED BY <2>1, <2>4, <2>5, <2>7, <2>8
<1>6. ASSUME Len(chunks) > 0
      PROVE  endpoint.heard >= Ends - Excess /\ audioTime >= Ends - Excess
  <2>1. Ends \in Int /\ endpoint.heard \in Int /\ audioTime \in Int
    BY <1>6, NewestChunk DEF Inv, Typed
  <2>. QED BY <1>5, <2>1, ExcessBounds
<1>7. Clocked' /\ Framed'
  <2>1. UNCHANGED <<LastChunk, Ends, endpoint, audioTime, chunks>> /\ Excess' = Excess
    BY <1>1 DEF LastChunk, Ends, Excess, Later
  <2>. QED BY <1>2, <1>4, <1>6, <2>1 DEF Clocked, Framed
<1>. QED BY <1>2, <1>3, <1>7 DEF Inv

(* Each attempt to restart waits the first pause at least.                      *)
LEMMA RestartStep == Inv /\ Restart => Inv'
<1>. SUFFICES ASSUME Inv, Restart PROVE Inv'
  OBVIOUS
<1>1. /\ listener.at = "restart" /\ UNCHANGED <<frame, chunks>>
      /\ listener \in [at : Stages, attempts : 0..RestartLimit]
      /\ endpoint \in [lost : BOOLEAN, losses : 0..MaxLosses, heard : Int]
      /\ audioTime \in Int
  BY DEF Restart, Inv, Typed
<1>2. CASE listener.attempts = RestartLimit
  <2>1. listener' = [listener EXCEPT !.at = "done"] /\ UNCHANGED <<endpoint, audioTime, sync>>
    BY <1>2 DEF Restart, Listen
  <2>2. listener' \in [at : Stages, attempts : 0..RestartLimit] /\ listener'.at = "done"
    BY <1>1, <2>1 DEF Stages
  <2>3. Typed'
    BY <1>1, <2>1, <2>2 DEF Inv, Typed
  <2>4. Clocked' /\ Framed'
    BY <2>2 DEF Clocked, Framed
  <2>. QED BY <1>1, <2>1, <2>3, <2>4, Untouched DEF Inv
<1>3. CASE listener.attempts # RestartLimit
  <2>. DEFINE attempt == listener.attempts + 1
              later == audioTime + RestartPause * attempt
  <2>1. attempt \in 1..RestartLimit /\ RestartPause * attempt \in Nat
        /\ RestartPause * attempt >= RestartPause
    BY <1>1, <1>3, Constants
  <2>2. audioTime' = later /\ later \in Int /\ later >= audioTime + RestartPause
    <3>1. audioTime' = later
      BY <1>3 DEF Restart
    <3>2. RestartPause \in Nat
      BY Constants
    <3>. QED BY <1>1, <2>1, <3>1, <3>2
  <2>3. ASSUME Len(chunks) > 0 PROVE later >= Ends - Excess /\ later + RestartPause >= Ends - Excess
    <3>1. Ends \in Int /\ audioTime + RestartPause >= Ends - Excess
      BY <1>1, <2>3, NewestChunk DEF Inv, Clocked
    <3>. HIDE DEF later
    <3>. QED BY <1>1, <2>2, <3>1, Constants, ExcessBounds
  <2>4. Excess' = Excess
    BY DEF Excess, Later
  <2>5. UNCHANGED <<LastChunk, Ends>>
    BY <1>1 DEF LastChunk, Ends
  <2>6. CASE /\ listener' = [at |-> "loop", attempts |-> attempt] /\ sync' = ResetSource(sync)
             /\ endpoint' = [endpoint EXCEPT !.lost = FALSE, !.heard = audioTime']
    <3>1. sync'.accepted = 0 /\ Remembered' /\ AudioInStep'
      BY <1>1, <2>6, ResetRemembers
    <3>2. endpoint' \in [lost : BOOLEAN, losses : 0..MaxLosses, heard : Int] /\ endpoint'.heard = later
      <4>. HIDE DEF later
      <4>. QED BY <1>1, <2>2, <2>6
    <3>3. listener' \in [at : Stages, attempts : 0..RestartLimit] /\ listener'.at = "loop"
      <4>1. attempt \in 0..RestartLimit
        BY <2>1, Constants
      <4>. HIDE DEF attempt
      <4>. QED BY <2>6, <4>1 DEF Stages
    <3>4. Typed'
      BY <1>1, <2>2, <2>6, <3>2, <3>3, ResetRemembers DEF Inv, Typed
    <3>5. Clocked' /\ Framed'
      <4>. HIDE DEF later
      <4>. QED BY <1>1, <2>2, <2>3, <2>4, <2>5, <3>1, <3>2, <3>3 DEF Clocked, Framed
    <3>. QED BY <3>1, <3>4, <3>5 DEF Inv
  <2>7. CASE listener' = [listener EXCEPT !.attempts = attempt] /\ UNCHANGED <<sync, endpoint>>
    <3>1. listener' \in [at : Stages, attempts : 0..RestartLimit] /\ listener'.at = "restart"
      <4>1. attempt \in 0..RestartLimit
        BY <2>1, Constants
      <4>. HIDE DEF attempt
      <4>. QED BY <1>1, <2>7, <4>1
    <3>2. Typed'
      BY <1>1, <2>2, <2>7, <3>1 DEF Inv, Typed
    <3>3. Clocked' /\ Framed'
      <4>. HIDE DEF later
      <4>. QED BY <1>1, <2>2, <2>3, <2>4, <2>5, <3>1 DEF Clocked, Framed
    <3>. QED BY <1>1, <2>7, <3>2, <3>3, Untouched DEF Inv
  <2>. QED BY <1>3, <2>6, <2>7 DEF Restart
<1>. QED BY <1>2, <1>3

-----------------------------------------------------------------------------
(* A frame becomes a chunk: what is known of it.                                *)
LEMMA AtProcess ==
    ASSUME Inv, listener.at = "process"
    PROVE  /\ Len(chunks) \in Nat /\ Len(chunks) < MaxChunks /\ audioTime \in Int
           /\ frame.stamp \in Int /\ frame.length \in Nat /\ frame.stamp <= audioTime
           /\ \/ endpoint.heard = audioTime /\ frame.stamp + frame.length = audioTime
              \/ frame.stamp = audioTime /\ frame.length = SilenceWait
           /\ sync.accepted \in 0..2 /\ sync.origin \in Int /\ sync.last \in Int
           /\ sync.offset \in Int /\ sync.out \in Int /\ sync.expected \in Int /\ Since \in Int
           /\ sync.accepted = 0 => Since = 0
           /\ sync.accepted > 0 => Since = frame.stamp - sync.origin
<1>1. /\ Len(chunks) \in Nat /\ audioTime \in Int /\ frame.stamp \in Int /\ frame.length \in Nat
      /\ sync.accepted \in 0..2 /\ sync.origin \in Int /\ sync.last \in Int
      /\ sync.offset \in Int /\ sync.out \in Int /\ sync.expected \in Int
  BY LenProperties DEF Inv, Typed
<1>2. /\ Len(chunks) < MaxChunks
      /\ \/ endpoint.heard = audioTime /\ frame.stamp + frame.length = audioTime
         \/ frame.stamp = audioTime /\ frame.length = SilenceWait
  BY DEF Inv, Framed
<1>3. frame.stamp <= audioTime
  BY <1>1, <1>2
<1>4. /\ Since \in Int /\ (sync.accepted = 0 => Since = 0)
      /\ (sync.accepted > 0 => Since = frame.stamp - sync.origin)
  BY <1>1 DEF Since
<1>. QED BY <1>1, <1>2, <1>3, <1>4

(* The time it is given.                                                       *)
LEMMA TimeGiven ==
    ASSUME Inv, listener.at = "process"
    PROVE  /\ Time \in Int /\ Time >= 0 /\ Time >= Since + sync.offset
           /\ Len(chunks) = 0 => Time = 0 /\ sync.accepted = 0 /\ sync.offset = 0
           /\ Len(chunks) > 0 =>
                /\ Time >= sync.out /\ (Time = sync.out \/ Time = Since + sync.offset)
                /\ sync.out = LastChunk.time
                /\ sync.accepted = 0 =>
                    Time = LastChunk.time + LastChunk.length /\ Time = sync.offset
<1>1. /\ Len(chunks) \in Nat /\ Since \in Int /\ sync.offset \in Int /\ sync.out \in Int
      /\ (sync.accepted = 0 => Since = 0)
  BY AtProcess
<1>2. CASE Len(chunks) = 0
  <2>1. sync.accepted = 0 /\ sync.offset = 0 /\ sync.out = Unset
    BY <1>2 DEF Inv, Remembered
  <2>. QED BY <1>1, <1>2, <2>1 DEF Time
<1>3. CASE Len(chunks) > 0
  <2>1. /\ sync.out = LastChunk.time /\ sync.out >= 0 /\ sync.expected = LastChunk.time + LastChunk.length
        /\ (sync.accepted = 0 => sync.offset = sync.expected)
    BY <1>3 DEF Inv, Remembered
  <2>2. LastChunk.length \in Nat /\ LastChunk.time \in Int
    BY <1>3, NewestChunk DEF Inv, Chunk
  <2>3. Time = IF Since + sync.offset > sync.out THEN Since + sync.offset ELSE sync.out
    BY <1>1, <2>1 DEF Time, Later, Unset
  <2>. QED BY <1>1, <1>3, <2>1, <2>2, <2>3
<1>. QED BY <1>1, <1>2, <1>3

LEMMA ProcessSteps ==
    ASSUME Inv, Process
    PROVE  /\ listener.at = "process" /\ ~ Jumps
           /\ sync'.accepted \in 1..2 /\ sync'.offset = sync.offset /\ sync'.last = Since
           /\ (sync'.accepted = 1 <=> sync.accepted = 0)
           /\ sync'.origin = (IF sync.accepted = 0 THEN frame.stamp ELSE sync.origin)
           /\ sync'.out = Time /\ sync'.expected = Time + frame.length
           /\ listener'.at \in {"loop", "done"} /\ UNCHANGED <<endpoint, audioTime>>
           /\ Typed' /\ Len(chunks') = Len(chunks) + 1
           /\ LastChunk' = [time |-> Time, length |-> frame.length, stamp |-> frame.stamp,
                         nth |-> sync'.accepted]
           /\ chunks'[Len(chunks) + 1] = LastChunk'
           /\ \A i \in 1..Len(chunks) : chunks'[i] = chunks[i]
<1>. DEFINE taken == IF sync.accepted = 2 THEN 2 ELSE sync.accepted + 1
            origin == IF sync.accepted = 0 THEN frame.stamp ELSE sync.origin
            c == [time |-> Time, length |-> frame.length, stamp |-> frame.stamp, nth |-> sync'.accepted]
<1>1. /\ listener.at = "process" /\ ~ Jumps
      /\ sync' = [sync EXCEPT !.accepted = taken, !.last = Since, !.origin = origin,
                              !.out = Time, !.expected = Time + frame.length]
      /\ chunks' = Append(chunks, c) /\ frame' = NoFrame /\ UNCHANGED <<endpoint, audioTime>>
      /\ \/ listener' = [at |-> "loop", attempts |-> 0]
         \/ listener' = [listener EXCEPT !.at = "done"]
  BY DEF Process, Listen
<1>2. /\ Len(chunks) \in Nat /\ Len(chunks) < MaxChunks
      /\ frame.stamp \in Int /\ frame.length \in Nat
      /\ sync.accepted \in 0..2 /\ sync.origin \in Int /\ Since \in Int
  BY <1>1, AtProcess
<1>3. Time \in Int /\ Time + frame.length \in Int /\ taken \in 1..2 /\ origin \in Int
      /\ (taken = 1 <=> sync.accepted = 0)
  BY <1>1, <1>2, TimeGiven
<1>4. sync \in [accepted : 0..2, origin : Int, last : Int, offset : Int, out : Int, expected : Int]
  BY DEF Inv, Typed
<1>5. sync' = [accepted |-> taken, origin |-> origin, last |-> Since, offset |-> sync.offset,
               out |-> Time, expected |-> Time + frame.length]
  <2>. HIDE DEF taken, origin
  <2>. QED BY <1>1, <1>4
<1>6. sync' \in [accepted : 0..2, origin : Int, last : Int, offset : Int, out : Int, expected : Int]
  <2>1. taken \in 0..2 /\ sync.offset \in Int
    BY <1>3, <1>4
  <2>. HIDE DEF taken, origin
  <2>. QED BY <1>2, <1>3, <1>5, <2>1
<1>7. sync'.accepted = taken
  BY <1>5
<1>8. c \in Chunk
  <2>1. sync'.accepted \in 1..2
    BY <1>3, <1>7
  <2>. QED BY <1>2, <1>3, <2>1 DEF Chunk
<1>9. /\ chunks' \in Seq(Chunk) /\ Len(chunks') = Len(chunks) + 1
      /\ chunks'[Len(chunks) + 1] = c /\ \A i \in 1..Len(chunks) : chunks'[i] = chunks[i]
  <2>. HIDE DEF c
  <2>1. chunks \in Seq(Chunk)
    BY DEF Inv, Typed
  <2>. QED BY <1>1, <1>8, <2>1, AppendProperties
<1>10. LastChunk' = c
  <2>. HIDE DEF c
  <2>. QED BY <1>9 DEF LastChunk
<1>11. listener' \in [at : Stages, attempts : 0..RestartLimit] /\ listener'.at \in {"loop", "done"}
  <2>1. listener \in [at : Stages, attempts : 0..RestartLimit] /\ 0 \in 0..RestartLimit
    BY Constants DEF Inv, Typed
  <2>2. CASE listener' = [at |-> "loop", attempts |-> 0]
    BY <2>1, <2>2 DEF Stages
  <2>3. CASE listener' = [listener EXCEPT !.at = "done"]
    BY <2>1, <2>3 DEF Stages
  <2>. QED BY <1>1, <2>2, <2>3
<1>12. Typed'
  <2>1. frame' \in [stamp : Int, length : Nat] /\ Len(chunks') <= MaxChunks
    BY <1>1, <1>2, <1>9, Constants DEF NoFrame
  <2>. QED BY <1>1, <1>6, <1>9, <1>11, <2>1 DEF Inv, Typed
<1>. QED BY <1>1, <1>3, <1>5, <1>7, <1>9, <1>10, <1>11, <1>12

LEMMA ProcessStep == Inv /\ Process => Inv'
<1>. SUFFICES ASSUME Inv, Process PROVE Inv'
  OBVIOUS
<1>. DEFINE n == Len(chunks)
<1>1. /\ n \in Nat /\ audioTime \in Int /\ frame.stamp \in Int /\ frame.length \in Nat
      /\ sync.accepted \in 0..2 /\ sync.origin \in Int /\ sync.last \in Int
      /\ sync.offset \in Int /\ sync.out \in Int /\ Since \in Int /\ Time \in Int
      /\ n' = n + 1
  BY ProcessSteps, AtProcess, TimeGiven
<1>2. /\ LastChunk'.time = Time /\ LastChunk'.length = frame.length /\ LastChunk'.stamp = frame.stamp
      /\ LastChunk'.nth = sync'.accepted /\ chunks'[n + 1] = LastChunk'
      /\ \A i \in 1..n : chunks'[i] = chunks[i]
  BY ProcessSteps
<1>3. \A j \in 1..n : Anew(j)' = Anew(j)
  BY <1>2 DEF Anew
<1>4. \A j \in 1..(n + 1) : j = n + 1 => (Anew(j)' <=> n > 0 /\ sync.accepted = 0)
  <2>1. sync'.accepted = 1 <=> sync.accepted = 0
    BY ProcessSteps
  <2>2. chunks'[n + 1].nth = sync'.accepted
    BY <1>2
  <2>. HIDE DEF n
  <2>3. n \in Nat
    BY <1>1
  <2>. QED BY <2>1, <2>2, <2>3 DEF Anew
<1>5. ASSUME n > 0
      PROVE  /\ LastChunk \in Chunk /\ LastChunk.time \in Int /\ LastChunk.length \in Nat /\ LastChunk.stamp \in Int
             /\ LastChunk.nth \in 1..2 /\ chunks[1].stamp \in Int /\ chunks'[1] = chunks[1] /\ LastChunk = chunks[n]
             /\ chunks'[n] = LastChunk
  <2>1. 1 \in 1..n /\ n \in 1..n
    BY <1>1, <1>5
  <2>2. chunks[1] \in Chunk
    BY <2>1 DEF Inv, Typed
  <2>3. LastChunk \in Chunk
    BY <1>5, NewestChunk DEF Inv
  <2>4. chunks'[1] = chunks[1] /\ chunks'[n] = chunks[n] /\ LastChunk = chunks[n]
    BY <1>2, <2>1 DEF LastChunk
  <2>. QED BY <2>2, <2>3, <2>4 DEF Chunk
<1>6. ASSUME \A j \in 1..(n + 1) : ~ Anew(j)'
      PROVE  /\ sync.offset = 0 /\ sync'.origin = chunks'[1].stamp
             /\ n > 0 => sync.accepted > 0 /\ sync.origin = chunks[1].stamp
  <2>1. CASE n = 0
    BY <1>1, <1>2, <2>1, ProcessSteps, TimeGiven
  <2>2. CASE n > 0
    <3>1. sync.accepted > 0
      <4>1. n + 1 \in 1..(n + 1)
        BY <1>1
      <4>2. ~ (n > 0 /\ sync.accepted = 0)
        <5>. HIDE DEF n
        <5>. QED BY <1>4, <1>6, <4>1
      <4>. QED BY <1>1, <2>2, <4>2
    <3>2. \A j \in 1..n : ~ Anew(j)
      <4>1. \A j \in 1..n : j \in 1..(n + 1)
        BY <1>1
      <4>. QED BY <1>3, <1>6, <4>1
    <3>3. sync.offset = 0 /\ sync.origin = chunks[1].stamp
      BY <2>2, <3>1, <3>2 DEF Inv, Remembered
    <3>. QED BY <1>1, <1>5, <2>2, <3>1, <3>3, ProcessSteps
  <2>. QED BY <1>1, <2>1, <2>2
<1>7. Remembered'
  <2>1. sync'.last = frame.stamp - sync'.origin
    <3>1. CASE sync.accepted = 0
      <4>1. Since = 0 /\ sync'.origin = frame.stamp /\ sync'.last = Since
        BY <3>1, ProcessSteps, AtProcess
      <4>. QED BY <1>1, <4>1
    <3>2. CASE sync.accepted > 0
      BY <1>1, <3>2, ProcessSteps, AtProcess
    <3>. QED BY <1>1, <3>1, <3>2
  <2>2. sync'.out >= sync'.last + sync'.offset /\ sync'.out >= 0
    BY ProcessSteps, TimeGiven
  <2>3. sync'.out = LastChunk'.time /\ sync'.expected = LastChunk'.time + LastChunk'.length /\ sync'.accepted > 0
    BY <1>2, ProcessSteps
  <2>4. (\A j \in 1..n' : ~ Anew(j)') => sync'.offset = 0 /\ sync'.origin = chunks'[1].stamp
    BY <1>1, <1>6, ProcessSteps
  <2>5. n' > 0 /\ n' # 0 /\ sync'.accepted # 0
    BY <1>1, <2>3, ProcessSteps
  <2>. QED BY <1>2, <2>1, <2>2, <2>3, <2>4, <2>5 DEF Remembered
<1>8. Clocked' /\ Framed'
  <2>1. Time - sync.offset + sync'.origin <= audioTime
    <3>1. CASE sync.accepted = 0
      <4>1. Time = sync.offset
        BY <1>1, <3>1, TimeGiven, ProcessSteps
      <4>2. sync'.origin = frame.stamp /\ frame.stamp <= audioTime
        BY <3>1, ProcessSteps, AtProcess
      <4>. QED BY <1>1, <4>1, <4>2
    <3>2. CASE sync.accepted > 0
      <4>1. sync'.origin = sync.origin /\ Since = frame.stamp - sync.origin /\ frame.stamp <= audioTime
        BY <3>2, ProcessSteps, AtProcess
      <4>2. Time = sync.out \/ Time = Since + sync.offset
        BY <1>1, <3>2, ProcessSteps, TimeGiven
      <4>3. sync.out - sync.offset + sync.origin <= audioTime
        BY <3>2, ProcessSteps DEF Inv, Framed, Due
      <4>4. CASE Time = sync.out
        BY <4>1, <4>3, <4>4
      <4>5. CASE Time = Since + sync.offset
        <5>1. Time - sync.offset + sync.origin = frame.stamp
          BY SMTT(30), <1>1, <4>1, <4>5
        <5>. QED BY <4>1, <5>1
      <4>. QED BY <4>2, <4>4, <4>5
    <3>. QED BY <1>1, <3>1, <3>2
  <2>2. Due' <= audioTime'
    BY <2>1, ProcessSteps DEF Due
  <2>3. \/ endpoint'.heard = audioTime' /\ Ends' = audioTime'
        \/ LastChunk'.stamp = audioTime' /\ LastChunk'.length = SilenceWait
    BY <1>2, ProcessSteps, AtProcess DEF Ends
  <2>4. sync'.accepted # 0 /\ listener'.at \in {"loop", "done"}
    BY ProcessSteps
  <2>. QED BY <2>2, <2>3, <2>4 DEF Clocked, Framed
<1>9. AudioInStep'
  <2>. SUFFICES ASSUME NEW i \in 2..(n + 1)
                PROVE  /\ chunks'[i].time >= chunks'[i - 1].time
                       /\ chunks'[i].nth = 1 => chunks'[i].time = chunks'[i - 1].time + chunks'[i - 1].length
                       /\ chunks'[i].nth = 2 /\ chunks'[i - 1].nth = 2 =>
                            chunks'[i].time - chunks'[i - 1].time <= MaxDiscontinuity
                       /\ (\A j \in 1..i : ~ Anew(j)') /\ chunks'[i].stamp >= chunks'[i - 1].stamp =>
                            Lead(i)' = 0
                       /\ Anew(i)' => Lead(i)' <= Lead(i - 1)' + Excess
    BY <1>1 DEF AudioInStep, Excess, Later
  <2>1. CASE i \in 2..n
    <3>1. /\ i \in 1..n /\ i - 1 \in 1..n /\ 1 \in 1..n /\ \A j \in 1..i : j \in 1..n
      BY <1>1, <2>1
    <3>2. chunks'[i] = chunks[i] /\ chunks'[i - 1] = chunks[i - 1] /\ chunks'[1] = chunks[1]
      BY <1>2, <3>1
    <3>3. Lead(i)' = Lead(i) /\ Lead(i - 1)' = Lead(i - 1) /\ Anew(i)' = Anew(i)
      BY <1>3, <3>1, <3>2 DEF Lead
    <3>4. (\A j \in 1..i : ~ Anew(j)') => \A j \in 1..i : ~ Anew(j)
      BY <1>3, <3>1
    <3>5. /\ chunks[i].time >= chunks[i - 1].time
          /\ chunks[i].nth = 1 => chunks[i].time = chunks[i - 1].time + chunks[i - 1].length
          /\ chunks[i].nth = 2 /\ chunks[i - 1].nth = 2 =>
                chunks[i].time - chunks[i - 1].time <= MaxDiscontinuity
          /\ (\A j \in 1..i : ~ Anew(j)) /\ chunks[i].stamp >= chunks[i - 1].stamp => Lead(i) = 0
          /\ Anew(i) => Lead(i) <= Lead(i - 1) + Excess
      BY <2>1 DEF Inv, AudioInStep, Excess
    <3>. QED BY <3>2, <3>3, <3>4, <3>5
  <2>2. CASE i = n + 1
    <3>1. n > 0 /\ i - 1 = n
      BY <1>1, <2>2
    <3>2. /\ LastChunk.time \in Int /\ LastChunk.length \in Nat /\ LastChunk.stamp \in Int
          /\ chunks[1].stamp \in Int /\ chunks'[1] = chunks[1] /\ chunks'[i - 1] = LastChunk
          /\ chunks'[i].time = Time /\ chunks'[i].stamp = frame.stamp /\ chunks'[i].nth = sync'.accepted
      BY <1>2, <1>5, <2>2, <3>1
    <3>3. /\ Time >= LastChunk.time /\ (Time = LastChunk.time \/ Time = Since + sync.offset)
          /\ Time >= Since + sync.offset /\ sync.out = LastChunk.time
          /\ sync.accepted = 0 => Time = LastChunk.time + LastChunk.length
      BY <3>1, ProcessSteps, TimeGiven
    <3>4. /\ Lead(i)' = Time - (frame.stamp - chunks[1].stamp)
          /\ Lead(i - 1)' = LastChunk.time - (LastChunk.stamp - chunks[1].stamp)
      BY <3>2 DEF Lead
    <3>5. sync'.accepted = 1 => sync.accepted = 0
      BY ProcessSteps
    <3>6. ASSUME sync'.accepted = 2, LastChunk.nth = 2 PROVE Time - LastChunk.time <= MaxDiscontinuity
      <4>1. sync.accepted > 0
        BY SMTT(30), <1>1, <3>6, ProcessSteps
      <4>2. sync.accepted = 2 /\ sync.out >= sync.last + sync.offset
        BY <3>1, <3>6, <4>1 DEF Inv, Remembered
      <4>3. Since - sync.last <= MaxDiscontinuity
        BY SMTT(30), <1>1, <4>2, Constants, ProcessSteps DEF Jumps
      <4>. QED BY SMTT(30), <1>1, <3>2, <3>3, <4>2, <4>3, Constants
    <3>7. ASSUME \A j \in 1..i : ~ Anew(j)', frame.stamp >= LastChunk.stamp
          PROVE  Time - (frame.stamp - chunks[1].stamp) = 0
      <4>1. sync.offset = 0 /\ sync.accepted > 0 /\ sync.origin = chunks[1].stamp
        BY <1>6, <2>2, <3>1, <3>7
      <4>2. frame.stamp >= sync.out - sync.offset + sync.origin
        BY <3>7, <4>1, ProcessSteps DEF Inv, Framed, Due
      <4>3. Since = frame.stamp - sync.origin
        BY <4>1, ProcessSteps, AtProcess
      <4>. QED BY SMTT(30), <1>1, <3>2, <3>3, <4>1, <4>2, <4>3
    <3>8. ASSUME Anew(i)'
          PROVE  Time - (frame.stamp - chunks[1].stamp)
                    <= LastChunk.time - (LastChunk.stamp - chunks[1].stamp) + Excess
      <4>1. sync.accepted = 0
        <5>1. i \in 1..(n + 1)
          BY <1>1
        <5>. QED BY <1>4, <2>2, <3>8, <5>1
      <4>2. frame.stamp >= LastChunk.stamp + LastChunk.length - Excess
        <5>1. listener.at = "process" /\ Len(chunks) > 0
          BY <3>1, ProcessSteps
        <5>2. Framed
          BY DEF Inv
        <5>3. frame.stamp >= Ends - Excess
          <6>. HIDE DEF n
          <6>. QED BY <4>1, <5>1, <5>2 DEF Framed
        <5>4. Ends = LastChunk.stamp + LastChunk.length
          BY DEF Ends
        <5>5. LastChunk.stamp \in Int /\ LastChunk.length \in Int /\ Excess \in Int /\ frame.stamp \in Int
          BY <1>1, <3>2, ExcessBounds
        <5>. QED BY <5>3, <5>4, <5>5
      <4>3. Time = LastChunk.time + LastChunk.length
        BY <3>3, <4>1
      <4>4. Excess \in Int /\ frame.stamp \in Int
        BY <1>1, ExcessBounds
      <4>. HIDE DEF n
      <4>5. LastChunk.time \in Int /\ LastChunk.length \in Int /\ LastChunk.stamp \in Int /\ chunks[1].stamp \in Int
        BY <3>2
      <4>6. Time - (frame.stamp - chunks[1].stamp)
              = LastChunk.time + LastChunk.length - frame.stamp + chunks[1].stamp
        BY <4>3, <4>4, <4>5
      <4>. QED BY <4>2, <4>4, <4>5, <4>6
    <3>. QED BY <3>2, <3>3, <3>4, <3>5, <3>6, <3>7, <3>8
  <2>. QED BY <1>1, <2>1, <2>2
<1>. QED BY <1>7, <1>8, <1>9, ProcessSteps DEF Inv

-----------------------------------------------------------------------------
LEMMA InvStep == Inv /\ [AudioNext]_audioVars => Inv'
<1>. SUFFICES ASSUME Inv, [AudioNext]_audioVars PROVE Inv'
  OBVIOUS
<1>1. CASE LoseDevice BY <1>1, LoseStep
<1>2. CASE Round BY <1>2, RoundStep
<1>3. CASE DeviceLost BY <1>3, LostStep
<1>4. CASE CaptureFails BY <1>4, FailStep
<1>5. CASE MakeSilence BY <1>5, SilenceStep
<1>6. CASE Process BY <1>6, ProcessStep
<1>7. CASE Discontinuity BY <1>7, JumpStep
<1>8. CASE Restart BY <1>8, RestartStep
<1>9. CASE \E delay \in Delays, length \in Lengths : ReadPacket(delay, length)
  BY <1>9, ReadStep
<1>10. CASE UNCHANGED audioVars
  <2>1. UNCHANGED <<endpoint, audioTime, sync, listener, frame, chunks>>
    BY <1>10 DEF audioVars
  <2>2. Typed'
    BY <2>1 DEF Inv, Typed
  <2>3. Clocked' /\ Framed'
    BY <2>1 DEF Inv, Clocked, Framed, Due, Ends, LastChunk, Excess
  <2>. QED BY <2>1, <2>2, <2>3, Untouched DEF Inv
<1>. QED BY <1>1, <1>2, <1>3, <1>4, <1>5, <1>6, <1>7, <1>8, <1>9, <1>10 DEF AudioNext

LEMMA InvAlways == AudioSpec => []Inv
BY InvInit, InvStep, PTL DEF AudioSpec

(* The type invariant of the worker and its timeline.                          *)
THEOREM AudioTypeCorrect == AudioSpec => []AudioTypeOK
<1>1. Inv => AudioTypeOK
  <2>. SUFFICES ASSUME Inv PROVE AudioTypeOK
    OBVIOUS
  <2>1. /\ endpoint.lost \in BOOLEAN /\ endpoint.losses \in 0..MaxLosses /\ audioTime \in Int
        /\ sync.accepted \in 0..2 /\ Len(chunks) <= MaxChunks /\ listener.attempts \in 0..RestartLimit
        /\ listener.at \in Stages /\ Len(chunks) \in Nat
    BY LenProperties DEF Inv, Typed
  <2>2. CASE Len(chunks) = 0
    <3>1. sync.out = Unset /\ sync.expected = Unset
      BY <2>2 DEF Inv, Remembered
    <3>. QED BY <2>1, <3>1 DEF AudioTypeOK, Stages, Unset
  <2>3. CASE Len(chunks) > 0
    <3>1. sync.out >= 0 /\ sync.out = LastChunk.time /\ sync.expected = LastChunk.time + LastChunk.length
      BY <2>3 DEF Inv, Remembered
    <3>2. LastChunk.time \in Int /\ LastChunk.length \in Nat
      BY <2>3, NewestChunk DEF Inv, Chunk
    <3>3. sync.out >= Unset /\ sync.expected >= Unset
      BY <3>1, <3>2 DEF Unset
    <3>. QED BY <2>1, <3>3 DEF AudioTypeOK, Stages
  <2>. QED BY <2>1, <2>2, <2>3
<1>. QED BY <1>1, InvAlways, PTL

(* However the silences, jumps and losses follow each other, the audio of a     *)
(* stream stays in order and in step with the clock: reset_source and process  *)
(* of the AudioSynchronizer, for every length, delay and number of losses.     *)
THEOREM AudioAlwaysInStep == AudioSpec => []AudioInStep
<1>1. Inv => AudioInStep
  BY DEF Inv
<1>. QED BY <1>1, InvAlways, PTL
=============================================================================
