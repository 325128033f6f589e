--------------------------- MODULE MCDesktopProofs ---------------------------
(* The types of the parts of the desktop process, and that the composition     *)
(* keeps them all: a step of one part leaves the variables of the others, so   *)
(* what is proved of a part alone holds of it beside the others.               *)
EXTENDS MCDesktop, DesktopProofs, AudioSessionProofs, ClipFileProofs

-----------------------------------------------------------------------------
(* The shell: what remains to be typed is the number of faults.               *)

(* A step has either no fault, or one for which there was room.               *)
LEMMA FaultOrNone ==
    ASSUME [ShellNext]_shellVars
    PROVE  Fault \/ Sound
<1>1. CASE ApplyAppSettings
  <2>1. ASSUME NEW next \in Documents, ApplyBindings(next)  PROVE  Sound
    BY <2>1 DEF ApplyBindings
  <2>2. CASE UpdateRecorder
    BY <2>2 DEF UpdateRecorder
  <2>3. ASSUME NEW d, ChangeDirectory(d)  PROVE  Sound
    BY <2>3 DEF ChangeDirectory, SetOutputDirectory, libraryVars, Sound
  <2>4. ASSUME NEW q, ChangePolicy(q)  PROVE  Sound
    BY <2>4 DEF ChangePolicy, SetStoragePolicy, libraryVars, Sound
  <2>5. CASE Persist \/ Adopt
    BY <2>5 DEF Persist, Adopt
  <2>6. CASE UndoRecorder \/ UndoBindings
    BY <2>6 DEF UndoRecorder, UndoBindings
  <2>7. CASE UpdateDirectory \/ UpdatePolicy \/ UndoDirectory \/ UndoPolicy
    BY <2>3, <2>4, <2>7 DEF UpdateDirectory, UpdatePolicy, UndoDirectory, UndoPolicy
  <2>. QED BY <1>1, <2>1, <2>2, <2>5, <2>6, <2>7 DEF ApplyAppSettings
<1>2. CASE ProcessDies \/ ShellStart
  BY <1>2 DEF ProcessDies, Crash, ShellStart
<1>3. CASE LibraryStart
  BY <1>3 DEF LibraryStart, LibraryOpen
<1>4. CASE LibraryRequest
  <2>1. CASE ScanBegin \/ ScanFails \/ ScanSave \/ ScanEnd
    BY <2>1 DEF ScanBegin, ScanFails, ScanSave, ScanEnd
  <2>2. ASSUME NEW p \in Places, Delete(p) \/ Evict(p)  PROVE  Sound
    BY <2>2 DEF Delete, Evict
  <2>3. CASE StagingFails \/ DeleteSaved \/ DeleteSaveFails \/ DeleteUnlink
    BY <2>3 DEF StagingFails, DeleteSaved, DeleteSaveFails, DeleteUnlink
  <2>4. ASSUME NEW p, NEW q, RenameBegin(p, q)  PROVE  Sound
    BY <2>4 DEF RenameBegin
  <2>5. CASE RenameSaved \/ RenameSaveFails
    BY <2>5 DEF RenameSaved, RenameSaveFails
  <2>6. ASSUME NEW p, NEW on, ProtectBegin(p, on)  PROVE  Sound
    BY <2>6 DEF ProtectBegin
  <2>7. CASE ProtectSaved \/ ProtectSaveFails
    BY <2>7 DEF ProtectSaved, ProtectSaveFails
  <2>. QED BY <1>4, <2>1, <2>2, <2>3, <2>4, <2>5, <2>6, <2>7 DEF LibraryRequest
<1>5. CASE Around
  BY <1>5 DEF Around, PublishClip, RemovedOutside
<1>6. CASE UNCHANGED shellVars
  BY <1>6 DEF shellVars, libraryVars, Sound
<1>. QED BY <1>1, <1>2, <1>3, <1>4, <1>5, <1>6 DEF ShellNext, LibraryCommand

(* Faults stay within their bound.                                            *)
LEMMA FaultsBounded == ShellSpec => [](faults \in 0..MaxFaults)
<1>1. ShellInit => faults \in 0..MaxFaults
  <2>1. MaxFaults \in Nat
    BY LibraryAssumption
  <2>. QED BY <2>1 DEF ShellInit, LibraryInit
<1>2. faults \in 0..MaxFaults /\ [ShellNext]_shellVars => (faults \in 0..MaxFaults)'
  <2>1. MaxFaults \in Nat
    BY LibraryAssumption
  <2>. QED BY <2>1, FaultOrNone DEF Fault, Sound
<1>. QED BY <1>1, <1>2, PTL DEF ShellSpec

(* Every request, change of settings, failed write, removal behind the        *)
(* library's back, death and start of the shell keeps the tables, the request *)
(* under way and the parts of the settings in their types.                    *)
THEOREM ShellTypeCorrect == ShellSpec => []ShellTypeOK
<1>1. ShellInv /\ faults \in 0..MaxFaults => ShellTypeOK
  BY DEF ShellInv, LibraryInv, Disk, Tables, Table, JobTyped, ShellTyped, ShellTypeOK, LibraryTypeOK
<1>. QED BY <1>1, ShellInvariant, FaultsBounded, PTL

-----------------------------------------------------------------------------
(* The capture session: the sizes, the textures, the queue and the places of  *)
(* its threads.                                                               *)
Pictured ==
    /\ source.size \in Sizes /\ pool.size \in Sizes
    /\ picture \in [Textures -> -1 .. copies - 1] /\ copies \in 0..MaxCopies
QueueFits == Len(events) <= EventBound
Somewhere ==
    /\ callback.at \in {"idle", "copied", "staged"}
    /\ thread \in {"setup", "parked", "closed"} /\ alive \in BOOLEAN /\ shutdown \in BOOLEAN
    /\ worker.at \in {"loop", "wait", "encode", "convert", "stop", "joining", "done"}
    /\ clock.accepted \in 0..2
CaptureShape == Pictured /\ QueueFits /\ Somewhere

LEMMA CaptureShapeInit == CaptureInit => CaptureShape
<1> SUFFICES ASSUME CaptureInit  PROVE CaptureShape
  OBVIOUS
<1>1. PICK s \in Sizes :
          /\ source = [size |-> s, now |-> 0, resizes |-> 0, gone |-> FALSE]
          /\ pool = [generation |-> 0, size |-> s]
  BY DEF CaptureInit
<1>2. PICK interval \in MinIntervals : clock = FreshClock(interval)
  BY DEF CaptureInit
<1>3. Pictured
  <2>1. MaxCopies \in Nat
    BY CaptureAssumption
  <2>. QED BY <1>1, <2>1 DEF CaptureInit, Pictured, None
<1>4. QueueFits
  <2>1. EventBound \in Nat
    BY CaptureAssumption
  <2>. QED BY <2>1 DEF CaptureInit, QueueFits
<1>5. Somewhere
  <2>1. clock.accepted = 0
    BY <1>2 DEF FreshClock
  <2>2. /\ callback = [at |-> "idle"] /\ worker = [at |-> "loop"]
        /\ thread = "setup" /\ alive = TRUE /\ shutdown = FALSE
    BY DEF CaptureInit
  <2>3. callback.at = "idle" /\ worker.at = "loop"
    BY <2>2
  <2>4. clock.accepted \in 0..2
    BY <2>1
  <2>5. alive \in BOOLEAN /\ shutdown \in BOOLEAN
    BY <2>2
  <2>. QED BY <2>2, <2>3, <2>4, <2>5, Zenon DEF Somewhere
<1>. QED BY <1>3, <1>4, <1>5 DEF CaptureShape

(* The queue takes an event only where there is room, and gives one back.     *)
LEMMA QueueBounded ==
    ASSUME QueueFits, events \in Seq(Happenings), NEW event, event \in Happenings,
           TrySend(event) \/ events' = events \/ (events # <<>> /\ events' = Tail(events))
    PROVE  QueueFits'
<1>1. EventBound \in Nat
  BY CaptureAssumption
<1>2. CASE TrySend(event)
  <2>1. Len(Append(events, event)) = Len(events) + 1
    OBVIOUS
  <2>. QED BY <1>1, <1>2, <2>1 DEF TrySend, QueueFits
<1>3. CASE events # <<>> /\ events' = Tail(events)
  <2>1. Len(events') = Len(events) - 1
    BY <1>3
  <2>. QED BY <1>1, <2>1 DEF QueueFits
<1>. QED BY <1>2, <1>3 DEF QueueFits

LEMMA CaptureShapeKept ==
    ASSUME CaptureInv, CaptureShape, [CaptureNext]_captureVars
    PROVE  CaptureShape'
<1>1. /\ {"size", "now", "resizes", "gone"} \subseteq DOMAIN source
      /\ {"interval", "origin", "accepted", "last", "source", "delivered", "shown"} \subseteq DOMAIN clock
      /\ events \in Seq(Happenings)
  BY DEF CaptureInv, Rung, Ticking, Heard
<1>2. Pictured'
  <2>1. CASE UNCHANGED <<source, pool, picture, copies>>
    BY <2>1 DEF CaptureShape, Pictured
  <2>2. ASSUME NEW s \in Sizes, Resized(s)  PROVE Pictured'
    <3>1. source'.size = s
      BY <1>1, <2>2 DEF Resized
    <3>2. pool'.size \in Sizes
      BY <2>2 DEF Resized, CaptureShape, Pictured
    <3>. QED BY <2>2, <3>1, <3>2 DEF Resized, CaptureShape, Pictured
  <2>3. ASSUME NEW gap \in Gaps, CopyFrame(gap)  PROVE Pictured'
    <3>1. source'.size = source.size /\ pool' = pool /\ copies' = copies + 1 /\ copies < MaxCopies
      BY <1>1, <2>3 DEF CopyFrame
    <3>2. MaxCopies \in Nat /\ copies \in 0..MaxCopies
      BY CaptureAssumption DEF CaptureShape, Pictured
    <3>3. picture' = picture \/ \E t : picture' = [picture EXCEPT ![t] = copies]
      BY <2>3 DEF CopyFrame
    <3>4. picture' \in [Textures -> -1 .. copies]
      <4>1. picture \in [Textures -> -1 .. copies] /\ copies \in -1 .. copies
        BY <3>2 DEF CaptureShape, Pictured
      <4>. QED BY <3>3, <4>1
    <3>. QED BY <3>1, <3>2, <3>4 DEF CaptureShape, Pictured
  <2>4. CASE SourceCloses
    BY <1>1, <2>4 DEF SourceCloses, CaptureShape, Pictured
  <2>5. CASE SessionThread \/ CallbackSteps \/ RequestStop \/ UNCHANGED captureVars
    BY <2>1, <2>5 DEF SessionThread, SetUp, SessionCloses, CallbackSteps, InsertStaged, PublishFrame,
       RequestStop, captureVars, producerVars
  <2>6. CASE Worker
    BY <2>1, <2>6 DEF Worker, NextEvent, ReceiveFrame, ReceiveOther, Resolve, Convert, StopCapture,
       ReleaseStaged, producerVars
  <2>. QED BY <2>2, <2>3, <2>4, <2>5, <2>6 DEF CaptureNext, Screen
<1>3. QueueFits'
  <2>0. QueueFits
    BY DEF CaptureShape
  <2>1. ASSUME NEW event \in Happenings, TrySend(event)  PROVE QueueFits'
    BY <1>1, <2>0, <2>1, QueueBounded
  <2>2. CASE events' = events
    BY <2>0, <2>2 DEF QueueFits
  <2>3. CASE events # <<>> /\ events' = Tail(events)
    <3>1. Head(events) \in Happenings
      BY <1>1, <2>3
    <3>. QED BY <1>1, <2>0, <2>3, <3>1, QueueBounded
  <2>4. CASE SetUp \/ SourceCloses \/ \E s \in Sizes : Resized(s)
    <3>1. {[kind |-> "failed"], [kind |-> "format"], [kind |-> "closed"]} \subseteq Happenings
      BY DEF Happenings
    <3>. QED BY <2>1, <2>2, <2>4, <3>1 DEF SetUp, SourceCloses, Resized
  <2>5. CASE PublishFrame
    <3>1. callback.at = "staged" /\ callback.frame \in Nat /\ callback.tick \in Nat
      BY <2>5 DEF PublishFrame, CaptureInv, InCallback
    <3>2. [kind |-> "frame", frame |-> callback.frame, tick |-> callback.tick] \in Happenings
      BY <3>1 DEF Happenings
    <3>. QED BY <2>1, <2>2, <2>5, <3>2 DEF PublishFrame
  <2>6. CASE ReceiveFrame \/ ReceiveOther
    BY <2>3, <2>6 DEF ReceiveFrame, ReceiveOther
  <2>7. CASE ReleaseStaged
    <3>1. events' = <<>> /\ EventBound \in Nat
      BY <2>7, CaptureAssumption DEF ReleaseStaged
    <3>. QED BY <3>1 DEF QueueFits
  <2>8. CASE SessionCloses \/ InsertStaged \/ RequestStop \/ UNCHANGED captureVars
             \/ \E gap \in Gaps : CopyFrame(gap)
    BY <2>2, <2>8 DEF SessionCloses, InsertStaged, RequestStop, captureVars, CopyFrame
  <2>9. CASE NextEvent \/ Resolve \/ Convert \/ StopCapture
    BY <2>2, <2>9 DEF NextEvent, Resolve, Convert, StopCapture
  <2>. QED BY <2>4, <2>5, <2>6, <2>7, <2>8, <2>9
       DEF CaptureNext, Screen, SessionThread, CallbackSteps, Worker
<1>4. Somewhere'
  <2>0. Somewhere
    BY DEF CaptureShape
  <2>1. CASE SessionThread
    BY <2>0, <2>1 DEF SessionThread, SetUp, SessionCloses, producerVars, Somewhere
  <2>2. ASSUME NEW s \in Sizes, Resized(s)  PROVE Somewhere'
    BY <2>0, <2>2 DEF Resized, Somewhere
  <2>3. ASSUME NEW gap \in Gaps, CopyFrame(gap)  PROVE Somewhere'
    BY <2>0, <2>3 DEF CopyFrame, Somewhere
  <2>4. CASE SourceCloses
    BY <2>0, <2>4 DEF SourceCloses, Somewhere
  <2>5. CASE InsertStaged
    <3>1. callback'.at = "staged"
      BY <2>5 DEF InsertStaged, CaptureInv, InCallback
    <3>. QED BY <2>0, <2>5, <3>1 DEF InsertStaged, Somewhere
  <2>6. CASE PublishFrame
    BY <2>0, <2>6 DEF PublishFrame, Somewhere
  <2>7. CASE NextEvent \/ Convert \/ StopCapture \/ ReleaseStaged
    <3>1. worker'.at \in {"loop", "wait", "stop", "joining", "done"} /\ alive' \in BOOLEAN
      <4>1. CASE NextEvent
        BY <2>0, <4>1 DEF NextEvent, Waiting, Somewhere
      <4>2. CASE Convert
        BY <2>0, <4>2 DEF Convert, Somewhere
      <4>3. CASE StopCapture
        BY <2>0, <4>3 DEF StopCapture
      <4>4. CASE ReleaseStaged
        BY <2>0, <4>4 DEF ReleaseStaged, Somewhere
      <4>. QED BY <2>7, <4>1, <4>2, <4>3, <4>4
    <3>2. UNCHANGED <<callback, thread, shutdown, clock>>
      BY <2>7 DEF NextEvent, Convert, StopCapture, ReleaseStaged, producerVars
    <3>. QED BY <2>0, <3>1, <3>2 DEF Somewhere
  <2>8. CASE ReceiveFrame
    <3>1. clock'.accepted \in 0..2
      <4>. DEFINE r == Rebased(Head(events).tick)
                  pts == SourcePts(r)
      <4>1. r.accepted \in 0..2 /\ {"accepted", "source", "shown", "delivered"} \subseteq DOMAIN r
        BY <1>1, <2>0 DEF Rebased, Calibrated, Accepted, Somewhere
      <4>2. \/ clock' = [r EXCEPT !.source = pts]
            \/ clock' = [r EXCEPT !.source = pts, !.shown = Head(events).tick, !.delivered = pts]
        BY <2>8 DEF ReceiveFrame
      <4>. HIDE DEF r, pts
      <4>. QED BY <4>1, <4>2
    <3>2. worker'.at \in {"wait", "encode"}
      BY <2>8 DEF ReceiveFrame
    <3>. QED BY <2>0, <2>8, <3>1, <3>2 DEF ReceiveFrame, producerVars, Somewhere
  <2>9. CASE ReceiveOther
    BY <2>0, <2>9 DEF ReceiveOther, producerVars, Somewhere
  <2>10. CASE Resolve
    <3>1. worker'.at \in {"loop", "convert", "stop"}
      BY <2>10 DEF Resolve
    <3>. QED BY <2>0, <2>10, <3>1 DEF Resolve, producerVars, Somewhere
  <2>11. CASE RequestStop \/ UNCHANGED captureVars
    BY <2>0, <2>11 DEF RequestStop, producerVars, captureVars, Somewhere
  <2>. QED BY <2>1, <2>2, <2>3, <2>4, <2>5, <2>6, <2>7, <2>8, <2>9, <2>10, <2>11
       DEF CaptureNext, Screen, CallbackSteps, Worker
<1>. QED BY <1>2, <1>3, <1>4 DEF CaptureShape

LEMMA CaptureTypeShape ==
    ASSUME CaptureInv, CaptureShape
    PROVE  CaptureTypeOK
<1>1. ASSUME NEW h \in ToSet(registry)  PROVE h.frame \in 0 .. copies - 1 /\ h.texture \in Textures
  <2>1. registry \in Seq(Handles) /\ copies \in Nat
    BY DEF CaptureInv, Rung
  <2>2. PICK i \in 1..Len(registry) : h = registry[i]
    BY <2>1 DEF ToSet
  <2>3. h \in Handles /\ h.frame = (Arrived - Len(registry)) + (i - 1)
    BY <2>1, <2>2 DEF CaptureInv, Rung
  <2>4. h.frame \in Nat /\ h.texture \in Textures
    BY <2>3 DEF Handles
  <2>5. Arrived \in Int /\ Arrived <= copies /\ Len(registry) \in Nat
    BY <2>1 DEF Arrived
  <2>. QED BY <2>1, <2>2, <2>3, <2>4, <2>5
<1>2. ASSUME NEW e \in ToSet(events)  PROVE e.kind \in {"frame", "format", "closed", "failed"}
  <2>1. events \in Seq(Happenings)
    BY DEF CaptureInv, Heard
  <2>2. e \in Happenings
    BY <2>1 DEF ToSet
  <2>. QED BY <2>2 DEF Happenings
<1>3. clock.source >= clock.delivered
  BY DEF CaptureInv, Ticking
<1>4. source.now \in Nat
  BY DEF CaptureInv, Ticking
<1>. QED BY <1>1, <1>2, <1>3, <1>4
     DEF CaptureInv, CaptureShape, Rung, Pictured, QueueFits, Somewhere, CaptureTypeOK

(* Every frame, resize, event and step of the session, the callback and the   *)
(* worker keeps the ring, its handles, the queue and the clock in their types *)
(* and the queue within its bound.                                            *)
THEOREM CaptureTypeCorrect == CaptureSpec => []CaptureTypeOK
<1>1. CaptureInv /\ CaptureShape /\ [CaptureNext]_captureVars => CaptureShape'
  BY CaptureShapeKept
<1>2. CaptureInv /\ CaptureShape => CaptureTypeOK
  BY CaptureTypeShape
<1>. QED BY <1>1, <1>2, CaptureShapeInit, CaptureInitInv, CaptureNextInv, PTL DEF CaptureSpec

-----------------------------------------------------------------------------
(* The replacement of a failed encoder: everything that names an encoder      *)
(* names one of the ranking in use.                                           *)
InRanking ==
    /\ ranked \in Rankings /\ activeIndex \in 0..Len(ranked)
    /\ active # Nobody => active.index \in 1..Len(ranked) /\ epoch >= 1
    /\ attempt # NoCall => attempt.index \in 1..Len(ranked)
CountsClosed ==
    /\ DOMAIN counts = {"submitted", "encoded", "dropped", "refused"}
    /\ counts.submitted <= MaxFrames
FallbackShape == InRanking /\ CountsClosed

LEMMA RankingLength == ASSUME NEW order \in Rankings  PROVE Len(order) \in Nat
<1>1. PICK n \in 0..Cardinality(Candidates) : order \in [1..n -> Candidates]
  BY DEF Rankings
<1>2. n \in Nat
  BY FallbackAssumption, FS_CardinalityType, <1>1
<1>. QED BY <1>1, <1>2

LEMMA FallbackShapeInit == FallbackInit => FallbackShape
<1> SUFFICES ASSUME FallbackInit  PROVE FallbackShape
  OBVIOUS
<1>1. <<>> \in Rankings
  <2>1. 0 \in 0..Cardinality(Candidates)
    BY FallbackAssumption, FS_CardinalityType
  <2>2. <<>> \in [1..0 -> Candidates] /\ Len(<<>>) = 0
    OBVIOUS
  <2>. QED BY <2>1, <2>2 DEF Rankings, HardwareFirst
<1>2. InRanking
  BY <1>1 DEF FallbackInit, InRanking
<1>3. CountsClosed
  <2>1. MaxFrames \in Nat
    BY FallbackAssumption
  <2>. QED BY <2>1 DEF FallbackInit, NoCounts, CountsClosed
<1>. QED BY <1>2, <1>3 DEF FallbackShape

(* Where the ranking stays, an instance of it is in it.                       *)
LEMMA ActivatedInRanking ==
    ASSUME NEW order \in Rankings, NEW index \in 1..Len(order), Activate(index), epoch \in Nat,
           ranked' = order
    PROVE  /\ ranked' \in Rankings /\ activeIndex' \in 0..Len(ranked')
           /\ active' # Nobody => active'.index \in 1..Len(ranked') /\ epoch' >= 1
<1>1. active'.index = index /\ activeIndex' = index /\ epoch' = epoch + 1
  BY DEF Activate, Instance
<1>2. Len(order) \in Nat
  BY RankingLength
<1>. QED BY <1>1, <1>2

LEMMA FallbackShapeKept ==
    ASSUME FallbackInv, FallbackShape, [FallbackNext]_fallbackVars
    PROVE  FallbackShape'
<1>1. /\ epoch \in Nat /\ ranked \in Rankings /\ Len(ranked) \in Nat
      /\ counts.submitted \in Nat /\ DOMAIN counts = {"submitted", "encoded", "dropped", "refused"}
      /\ attempt # NoCall => {"at", "frame", "index", "again", "offers"} \subseteq DOMAIN attempt
      /\ active # Nobody => {"born", "index", "inside"} \subseteq DOMAIN active
  BY RankingLength DEF FallbackInv, Standing, Calling, Summed, FallbackShape, InRanking, CountsClosed
<1>2. InRanking
  BY DEF FallbackShape
<1>3. InRanking'
  <2>1. ASSUME NEW order \in Rankings, Configure(order)  PROVE InRanking'
    <3>1. ranked' = order /\ attempt' = NoCall /\ Len(order) \in Nat
      BY <2>1, RankingLength DEF Configure
    <3>2. CASE \E index \in 1..Len(order) : Activate(index)
      BY <1>1, <3>1, <3>2, ActivatedInRanking DEF InRanking
    <3>3. CASE active' = Nobody /\ activeIndex' = 0
      BY <3>1, <3>3 DEF InRanking
    <3>. QED BY <2>1, <3>2, <3>3 DEF Configure
  <2>2. CASE EncodeBegin
    <3>1. UNCHANGED <<ranked, active, activeIndex, epoch>> /\ activeIndex \in 1..Len(ranked)
      BY <1>1, <1>2, <2>2 DEF EncodeBegin, InRanking
    <3>2. attempt' = NoCall \/ attempt'.index = activeIndex
      BY <2>2 DEF EncodeBegin
    <3>. QED BY <1>2, <3>1, <3>2 DEF InRanking
  <2>3. CASE Encoded
    <3>1. active # Nobody /\ attempt # NoCall
      <4>1. attempt # NoCall
        BY <2>3 DEF Encoded, NoCall
      <4>. QED BY <2>3, <4>1 DEF Encoded, FallbackInv, Calling
    <3>2. active'.index = active.index /\ attempt' = NoCall
          /\ UNCHANGED <<ranked, activeIndex, epoch>>
      BY <1>1, <2>3, <3>1 DEF Encoded
    <3>. QED BY <1>2, <3>1, <3>2 DEF InRanking
  <2>4. CASE EncodeFailed
    <3>1. attempt # NoCall
      BY <2>4 DEF EncodeFailed, NoCall
    <3>2. attempt'.index = attempt.index
      BY <1>1, <2>4, <3>1 DEF EncodeFailed
    <3>. QED BY <1>2, <2>4, <3>1, <3>2 DEF EncodeFailed, InRanking
  <2>5. CASE Reinitialize
    <3>1. attempt # NoCall /\ ranked' = ranked
      BY <2>5 DEF Reinitialize, NoCall
    <3>2. attempt'.index = attempt.index /\ attempt.index \in 1..Len(ranked)
      BY <1>1, <1>2, <2>5, <3>1 DEF Reinitialize, InRanking
    <3>3. CASE Activate(attempt.index)
      BY <1>1, <3>1, <3>2, <3>3, ActivatedInRanking DEF InRanking
    <3>4. CASE UNCHANGED <<active, activeIndex, epoch>>
      BY <1>2, <3>1, <3>2, <3>4 DEF InRanking
    <3>. QED BY <2>5, <3>3, <3>4 DEF Reinitialize
  <2>6. CASE FallBack
    <3>1. attempt # NoCall /\ ranked' = ranked
      BY <2>6 DEF FallBack, NoCall
    <3>2. attempt.index \in 1..Len(ranked)
      BY <1>2, <3>1 DEF InRanking
    <3>3. PICK index \in attempt.index + 1 .. Len(ranked) :
              Activate(index) /\ attempt' = [attempt EXCEPT !.at = "offer", !.index = index]
      BY <2>6 DEF FallBack
    <3>4. index \in 1..Len(ranked) /\ attempt'.index = index
      BY <1>1, <3>1, <3>2, <3>3
    <3>. QED BY <1>1, <3>1, <3>3, <3>4, ActivatedInRanking DEF InRanking
  <2>7. CASE GiveUp
    BY <1>2, <2>7 DEF GiveUp, InRanking
  <2>8. CASE Drain
    <3>1. active'.index = active.index /\ active # Nobody
      BY <1>1, <2>8 DEF Drain
    <3>. QED BY <1>2, <2>8, <3>1 DEF Drain, InRanking
  <2>9. CASE TakeEvents \/ UNCHANGED fallbackVars
    BY <1>2, <2>9 DEF TakeEvents, fallbackVars, InRanking
  <2>. QED BY <2>1, <2>2, <2>3, <2>4, <2>5, <2>6, <2>7, <2>8, <2>9 DEF FallbackNext
<1>4. CountsClosed'
  <2>1. MaxFrames \in Nat /\ counts.submitted <= MaxFrames
    BY FallbackAssumption DEF FallbackShape, CountsClosed
  <2>2. CASE UNCHANGED counts
    BY <1>1, <2>1, <2>2 DEF CountsClosed
  <2>3. CASE EncodeBegin
    <3>1. counts.submitted < MaxFrames /\ DOMAIN counts' = DOMAIN counts
          /\ counts'.submitted = counts.submitted + 1
      BY <1>1, <2>3 DEF EncodeBegin
    <3>. QED BY <1>1, <2>1, <3>1 DEF CountsClosed
  <2>4. CASE Encoded \/ GiveUp
    <3>1. DOMAIN counts' = DOMAIN counts /\ counts'.submitted = counts.submitted
      BY <1>1, <2>4 DEF Encoded, GiveUp
    <3>. QED BY <1>1, <2>1, <3>1 DEF CountsClosed
  <2>5. ASSUME NEW order \in Rankings, Configure(order)  PROVE UNCHANGED counts
    BY <2>5 DEF Configure
  <2>6. CASE EncodeFailed \/ Reinitialize \/ FallBack \/ Drain \/ TakeEvents \/ UNCHANGED fallbackVars
    BY <2>2, <2>6 DEF EncodeFailed, Reinitialize, FallBack, Drain, TakeEvents, fallbackVars
  <2>. QED BY <2>2, <2>3, <2>4, <2>5, <2>6 DEF FallbackNext
<1>. QED BY <1>3, <1>4 DEF FallbackShape

LEMMA FallbackTypeShape ==
    ASSUME FallbackInv, FallbackShape
    PROVE  FallbackTypeOK
<1>1. ASSUME NEW f \in DOMAIN counts  PROVE counts[f] \in 0..MaxFrames
  <2>1. /\ counts.submitted \in Nat /\ counts.encoded \in Nat
        /\ counts.dropped \in Nat /\ counts.refused \in Nat
        /\ ((counts.encoded + counts.dropped) + counts.refused) + Unended = counts.submitted
        /\ Unended \in {0, 1} /\ counts.submitted <= MaxFrames /\ MaxFrames \in Nat
    BY FallbackAssumption DEF FallbackInv, Summed, Unended, FallbackShape, CountsClosed
  <2>2. f \in {"submitted", "encoded", "dropped", "refused"}
    BY DEF FallbackShape, CountsClosed
  <2>3. /\ counts.encoded <= counts.submitted /\ counts.dropped <= counts.submitted
        /\ counts.refused <= counts.submitted
    BY <2>1
  <2>. QED BY <2>1, <2>2, <2>3
<1>2. attempt.at \in {"none", "offer", "reinitialize", "next"}
  BY DEF FallbackInv, Calling, NoCall
<1>3. active # Nobody => active.born \in 1..epoch
  BY DEF FallbackInv, Standing, FallbackShape, InRanking
<1>. QED BY <1>1, <1>2, <1>3 DEF FallbackShape, InRanking, FallbackTypeOK

(* However encoders are ranked, fail, are made anew and replaced, the active  *)
(* one and the call under way name an encoder of the ranking in use, and no   *)
(* counter exceeds the frames there are.                                      *)
THEOREM FallbackTypeCorrect == FallbackSpec => []FallbackTypeOK
<1>1. FallbackInv /\ FallbackShape /\ [FallbackNext]_fallbackVars => FallbackShape'
  BY FallbackShapeKept
<1>2. FallbackInv /\ FallbackShape => FallbackTypeOK
  BY FallbackTypeShape
<1>. QED BY <1>1, <1>2, FallbackShapeInit, FallbackInitInv, FallbackNextInv, PTL DEF FallbackSpec

-----------------------------------------------------------------------------
(* The asynchronous transform: what it takes in and keeps back is bounded.    *)
TransformShape ==
    /\ mft.asked + Len(mft.inside) <= Wanted /\ Len(mft.ready) <= Shelf
    /\ lastDts \in Int /\ lastDts >= -1

(* An output leaves the shelf, and its time is one of the queue or the last.  *)
LEMMA OutputTimed ==
    ASSUME TransformInv, TransformShape, ProcessOutput
    PROVE  lastDts' \in Int /\ lastDts' >= -1
<1>1. ptsQueue \in Seq(Nat) /\ lastDts \in Int /\ lastDts >= -1
  BY DEF TransformInv, Dated, TransformShape
<1>2. CASE mft.ready = <<>>
  BY <1>1, <1>2 DEF ProcessOutput
<1>3. CASE mft.ready # <<>>
  <2>. DEFINE raw == IF ptsQueue = <<>> THEN 0 ELSE Head(ptsQueue)
  <2>1. raw \in Nat
    BY <1>1
  <2>2. lastDts' = IF raw < lastDts THEN lastDts ELSE raw
    BY <1>3 DEF ProcessOutput
  <2>. HIDE DEF raw
  <2>. QED BY <1>1, <2>1, <2>2
<1>. QED BY <1>2, <1>3

LEMMA ShelfEmptied ==
    ASSUME TransformInv, TransformShape, NEW m, {"ready", "asked", "inside"} \subseteq DOMAIN m,
           m.ready = mft.ready, m.asked = mft.asked, m.inside = mft.inside, mft' = Shelved(m)
    PROVE  mft'.asked + Len(mft'.inside) <= Wanted /\ Len(mft'.ready) <= Shelf
<1>1. mft.ready \in Seq(Nat) /\ Shelf \in Nat
  BY TransformAssumption DEF TransformInv, Machine
<1>2. mft'.asked = m.asked /\ mft'.inside = m.inside
  BY DEF Shelved
<1>3. mft'.ready = IF m.ready = <<>> THEN m.ready ELSE Tail(m.ready)
  BY DEF Shelved
<1>4. Len(mft'.ready) <= Len(mft.ready)
  BY <1>1, <1>3
<1>5. Len(mft.ready) \in Nat /\ Len(mft'.ready) \in Nat
  BY <1>1, <1>3
<1>6. mft'.asked + Len(mft'.inside) <= Wanted
  BY <1>2 DEF TransformShape
<1>7. Len(mft'.ready) <= Shelf
  BY <1>1, <1>4, <1>5 DEF TransformShape
<1>. QED BY <1>6, <1>7

LEMMA TransformShapeKept ==
    ASSUME TransformInv, TransformShape, [TransformNext]_transformVars
    PROVE  TransformShape'
<1>1. /\ {"open", "asked", "inside", "ready", "events"} \subseteq DOMAIN mft
      /\ mft.asked \in Nat /\ mft.inside \in Seq(Nat) /\ mft.ready \in Seq(Nat)
      /\ mft.events \in Seq(Signals) /\ Len(mft.inside) \in Nat /\ Len(mft.ready) \in Nat
      /\ {Wanted, Shelf} \subseteq Nat
  BY TransformAssumption DEF TransformInv, Machine
<1>2. TransformShape
  OBVIOUS
<1>3. CASE AskForInput
  <2>1. mft'.asked = mft.asked + 1 /\ mft'.inside = mft.inside /\ mft'.ready = mft.ready
    BY <1>1, <1>3 DEF AskForInput
  <2>2. mft.asked + Len(mft.inside) < Wanted /\ lastDts' = lastDts
    BY <1>3 DEF AskForInput
  <2>. QED BY <1>1, <1>2, <2>1, <2>2 DEF TransformShape
<1>4. CASE FinishFrame
  <2>1. /\ mft'.asked = mft.asked /\ mft'.inside = Tail(mft.inside)
        /\ mft'.ready = Append(mft.ready, Head(mft.inside))
    BY <1>1, <1>4 DEF FinishFrame
  <2>2. mft.inside # <<>> /\ Len(mft.ready) < Shelf /\ lastDts' = lastDts
    BY <1>4 DEF FinishFrame
  <2>3. Len(mft'.inside) = Len(mft.inside) - 1 /\ Len(mft'.ready) = Len(mft.ready) + 1
    BY <1>1, <2>1, <2>2
  <2>. QED BY <1>1, <1>2, <2>1, <2>2, <2>3 DEF TransformShape
<1>5. CASE UNCHANGED <<mft.asked, mft.inside, mft.ready, lastDts>>
  BY <1>2, <1>5 DEF TransformShape
<1>6. ASSUME NEW m, {"ready", "asked", "inside"} \subseteq DOMAIN m,
             m.ready = mft.ready, m.asked = mft.asked, m.inside = mft.inside,
             ProcessOutput, mft' = Shelved(m)
      PROVE  TransformShape'
  BY <1>6, OutputTimed, ShelfEmptied DEF TransformShape
<1>7. ASSUME NEW taken, taken = [mft EXCEPT !.events = Tail(@)]
      PROVE  /\ {"ready", "asked", "inside"} \subseteq DOMAIN taken
             /\ taken.ready = mft.ready /\ taken.asked = mft.asked /\ taken.inside = mft.inside
  BY <1>1, <1>7
<1>8. CASE CompleteDrain \/ CollectEvents
  <2>1. UNCHANGED <<mft.asked, mft.inside, mft.ready>>
    BY <1>1, <1>8 DEF CompleteDrain, CollectEvents
  <2>. QED BY <1>5, <1>8, <2>1 DEF CompleteDrain, CollectEvents
<1>9. CASE FetchPending
  <2>1. CASE ProcessOutput /\ mft' = Shelved(mft)
    BY <1>1, <1>6, <2>1
  <2>2. CASE UNCHANGED <<mft, lastDts>>
    BY <1>5, <2>2
  <2>. QED BY <1>9, <2>1, <2>2 DEF FetchPending
<1>10. CASE MakeSample \/ TransformFails \/ UNCHANGED transformVars
             \/ \E gap \in Intervals : Encode(Previous + gap)
  BY <1>5, <1>10 DEF MakeSample, TransformFails, transformVars, Encode
<1>11. CASE ProcessInput
  <2>1. CASE UNCHANGED mft
    BY <1>5, <1>11, <2>1 DEF ProcessInput
  <2>2. CASE mft.asked # 0
    <3>1. /\ mft'.asked = mft.asked - 1 /\ mft'.inside = Append(mft.inside, Len(offered))
          /\ mft'.ready = mft.ready /\ lastDts' = lastDts
      BY <1>1, <1>11, <2>2 DEF ProcessInput
    <3>2. Len(mft'.inside) = Len(mft.inside) + 1
      BY <1>1, <3>1
    <3>. QED BY <1>1, <1>2, <3>1, <3>2 DEF TransformShape
  <2>. QED BY <1>11, <2>1, <2>2 DEF ProcessInput
<1>12. CASE WaitForInput
  <2>. DEFINE taken == [mft EXCEPT !.events = Tail(@)]
  <2>1. \/ mft' = taken /\ lastDts' = lastDts
        \/ ProcessOutput /\ mft' = Shelved(taken)
    BY <1>12 DEF WaitForInput
  <2>2. /\ {"ready", "asked", "inside"} \subseteq DOMAIN taken
        /\ taken.ready = mft.ready /\ taken.asked = mft.asked /\ taken.inside = mft.inside
    BY <1>7
  <2>. HIDE DEF taken
  <2>. QED BY <1>5, <1>6, <2>1, <2>2
<1>13. CASE DrainBegin
  <2>1. mft'.asked = 0 /\ mft'.inside = mft.inside /\ mft'.ready = mft.ready /\ lastDts' = lastDts
    BY <1>1, <1>13 DEF DrainBegin
  <2>. QED BY <1>1, <1>2, <2>1 DEF TransformShape
<1>14. CASE DrainStep
  <2>. DEFINE taken == [mft EXCEPT !.events = Tail(@)]
  <2>1. \/ mft' = taken /\ lastDts' = lastDts
        \/ ProcessOutput /\ mft' = Shelved(taken)
    <3>1. CASE Head(mft.events) = "HaveOutput"
      BY <1>14, <3>1 DEF DrainStep
    <3>2. CASE Head(mft.events) = "NeedInput"
      BY <1>14, <3>2 DEF DrainStep
    <3>3. CASE Head(mft.events) \notin {"NeedInput", "HaveOutput"}
      BY <1>14, <3>3 DEF DrainStep
    <3>. QED BY <3>1, <3>2, <3>3
  <2>2. /\ {"ready", "asked", "inside"} \subseteq DOMAIN taken
        /\ taken.ready = mft.ready /\ taken.asked = mft.asked /\ taken.inside = mft.inside
    BY <1>7
  <2>. HIDE DEF taken
  <2>. QED BY <1>5, <1>6, <2>1, <2>2
<1>. QED BY <1>3, <1>4, <1>8, <1>9, <1>10, <1>11, <1>12, <1>13, <1>14 DEF TransformNext

(* Every event of the transform and step of a call keeps what the transform   *)
(* asked for and holds within what it wants and keeps back.                   *)
THEOREM TransformTypeCorrect == TransformSpec => []TransformTypeOK
<1>1. TransformInit => TransformShape
  <2>1. {Wanted, Shelf} \subseteq Nat
    BY TransformAssumption
  <2>2. ASSUME TransformInit  PROVE mft.asked = 0 /\ Len(mft.inside) = 0 /\ Len(mft.ready) = 0
    BY <2>2 DEF TransformInit
  <2>. QED BY <2>1, <2>2 DEF TransformInit, TransformShape
<1>2. TransformInv /\ TransformShape /\ [TransformNext]_transformVars => TransformShape'
  BY TransformShapeKept
<1>3. TransformInv /\ TransformShape => TransformTypeOK
  <2>. SUFFICES ASSUME TransformInv, TransformShape  PROVE TransformTypeOK
    OBVIOUS
  <2>1. Machine /\ TransformShape /\ Wanted \in Nat
    BY TransformAssumption DEF TransformInv
  <2>2. mft.asked \in Nat /\ Len(mft.inside) \in Nat
    BY <2>1 DEF Machine
  <2>3. mft.asked \in 0..Wanted
    BY <2>1, <2>2 DEF TransformShape
  <2>. QED BY <2>1, <2>3 DEF Machine, InEncode, TransformShape, TransformTypeOK
<1>. QED BY <1>1, <1>2, <1>3, TransformInitInv, TransformNextInv, PTL DEF TransformSpec

-----------------------------------------------------------------------------
(* The hotkeys: the owner and what it asked for, what other applications      *)
(* have, and the answers kept for the shell.                                  *)
Owned ==
    /\ owner.thread \in {"none", "running", "gone"}
    /\ owner.asked = NoBindings \/ owner.asked \in Bindings
Fired == fired \in Seq(HotkeyIds) /\ Len(fired) <= EventQueueBound /\ recent \subseteq HotkeyIds
HotkeysShape == Owned /\ Fired /\ foreign \subseteq Chords

LEMMA IdsInForce == ASSUME HotkeysInv  PROVE DOMAIN inForce \subseteq HotkeyIds
<1>1. CASE inForce = NoBindings
  BY <1>1 DEF NoBindings
<1>2. CASE inForce \in Bindings
  BY <1>2 DEF HotkeyIds
<1>. QED BY <1>1, <1>2 DEF HotkeysInv, Registration

LEMMA FiredQueued ==
    ASSUME Fired, NEW ids \in SUBSET HotkeyIds, fired' = Queued(ids), recent' = recent \cup ids
    PROVE  Fired'
<1>1. EventQueueBound \in Nat
  BY HotkeysAssumption
<1>2. CASE ids # {} /\ Len(fired) < EventQueueBound
  <2>. DEFINE id == CHOOSE i \in ids : TRUE
  <2>1. id \in HotkeyIds
    BY <1>2
  <2>2. fired' = Append(fired, id)
    BY <1>2 DEF Queued
  <2>. HIDE DEF id
  <2>3. fired' \in Seq(HotkeyIds) /\ Len(fired') = Len(fired) + 1
    BY <2>1, <2>2 DEF Fired
  <2>. QED BY <1>1, <1>2, <2>3 DEF Fired
<1>3. CASE ~ (ids # {} /\ Len(fired) < EventQueueBound)
  BY <1>3 DEF Queued, Fired
<1>. QED BY <1>2, <1>3

LEMMA HotkeysShapeKept ==
    ASSUME HotkeysInv, HotkeysShape, [HotkeysNext]_hotkeysVars
    PROVE  HotkeysShape'
<1>1. {"thread", "step", "asked"} \subseteq DOMAIN owner /\ DOMAIN inForce \subseteq HotkeyIds
  BY IdsInForce DEF HotkeysInv, Waits
<1>2. Owned /\ Fired /\ foreign \subseteq Chords
  BY DEF HotkeysShape
<1>3. Owned'
  <2>1. CASE Start
    <3>1. owner'.thread \in {"running", "gone"} /\ owner'.asked = owner.asked
      BY <1>1, <2>1 DEF Start
    <3>. QED BY <1>2, <3>1 DEF Owned
  <2>2. ASSUME NEW set \in Bindings, Ask(set)  PROVE Owned'
    <3>1. owner'.thread = owner.thread /\ owner'.asked = set
      BY <1>1, <2>2 DEF Ask
    <3>. QED BY <1>2, <3>1 DEF Owned
  <2>3. CASE Drop \/ Post \/ Replace
    <3>1. owner'.thread = owner.thread /\ owner'.asked = owner.asked
      BY <1>1, <2>3 DEF Drop, Post, Replace
    <3>. QED BY <1>2, <3>1 DEF Owned
  <2>4. CASE Stop
    <3>1. owner'.thread = "gone" /\ owner'.asked = owner.asked
      BY <1>1, <2>4 DEF Stop
    <3>. QED BY <1>2, <3>1 DEF Owned
  <2>5. ASSUME NEW key \in Keys, KeyDown(key)  PROVE owner' = owner
    BY <2>5 DEF KeyDown
  <2>7. CASE owner' = owner
    BY <1>2, <2>7 DEF Owned
  <2>6. CASE HotkeyMessage \/ DrainHotkeys \/ CtrlMoves \/ KeyUp \/ Settle \/ OthersMove
             \/ UNCHANGED hotkeysVars
    <3>1. owner' = owner
      BY <2>6 DEF HotkeyMessage, DrainHotkeys, CtrlMoves, KeyUp, Settle, OthersMove, hotkeysVars
    <3>. QED BY <2>7, <3>1
  <2>. QED BY <2>1, <2>2, <2>3, <2>4, <2>5, <2>6, <2>7 DEF HotkeysNext
<1>4. Fired'
  <2>1. CASE UNCHANGED <<fired, recent>>
    BY <1>2, <2>1, SMTT(30) DEF Fired
  <2>2. CASE Start \/ Drop \/ Post \/ Replace \/ CtrlMoves \/ KeyUp \/ OthersMove \/ UNCHANGED hotkeysVars
             \/ \E set \in Bindings : Ask(set)
    BY <2>1, <2>2 DEF Start, Drop, Post, Replace, CtrlMoves, KeyUp, OthersMove, hotkeysVars, Ask
  <2>3. CASE Stop \/ Settle
    BY <1>2, <2>3 DEF Stop, Settle, Fired
  <2>4. CASE HotkeyMessage
    <3>1. ToAnswer(Head(messages).id) \in SUBSET HotkeyIds
      BY <1>1 DEF ToAnswer
    <3>2. /\ fired' = Queued(ToAnswer(Head(messages).id))
          /\ recent' = recent \cup ToAnswer(Head(messages).id)
      BY <2>4 DEF HotkeyMessage
    <3>. QED BY <1>2, <3>1, <3>2, FiredQueued
  <2>5. CASE DrainHotkeys
    <3>1. fired' = <<>> /\ recent' = recent /\ EventQueueBound \in Nat
      BY <2>5, HotkeysAssumption DEF DrainHotkeys
    <3>. QED BY <1>2, <3>1 DEF Fired
  <2>6. ASSUME NEW key \in Keys, KeyDown(key)  PROVE Fired'
    <3>. DEFINE seen == [ctrl |-> keyboard.tracked, key |-> key]
                now == {id \in DOMAIN inForce : inForce[id] = seen} \ recent
    <3>1. now \in SUBSET HotkeyIds
      BY <1>1
    <3>2. fired' = Queued(now) /\ recent' = recent \cup now
      BY <2>6 DEF KeyDown
    <3>. HIDE DEF now
    <3>. QED BY <1>2, <3>1, <3>2, FiredQueued
  <2>. QED BY <2>2, <2>3, <2>4, <2>5, <2>6 DEF HotkeysNext
<1>5. foreign' \subseteq Chords
  <2>1. CASE OthersMove
    BY <1>2, <2>1 DEF OthersMove
  <2>2. CASE foreign' = foreign
    BY <1>2, <2>2, SMTT(30)
  <2>3. CASE Start \/ Drop \/ Post \/ Replace \/ Stop \/ HotkeyMessage \/ DrainHotkeys
             \/ \E set \in Bindings : Ask(set)
    BY <2>2, <2>3 DEF Start, Drop, Post, Replace, Stop, HotkeyMessage, DrainHotkeys, Ask
  <2>4. CASE CtrlMoves \/ KeyUp \/ Settle \/ UNCHANGED hotkeysVars \/ \E key \in Keys : KeyDown(key)
    BY <2>2, <2>4 DEF CtrlMoves, KeyUp, Settle, hotkeysVars, KeyDown
  <2>. QED BY <2>1, <2>3, <2>4 DEF HotkeysNext
<1>. QED BY <1>3, <1>4, <1>5 DEF HotkeysShape

(* Every command, key, message and chord taken elsewhere keeps what is asked  *)
(* for, registered and answered among the bindings there are, and the answers *)
(* within their queue.                                                        *)
THEOREM HotkeysTypeCorrect == HotkeysSpec => []HotkeysTypeOK
<1>1. HotkeysInit => HotkeysShape
  <2>. SUFFICES ASSUME HotkeysInit  PROVE HotkeysShape
    OBVIOUS
  <2>1. owner.thread = "none" /\ owner.asked = NoBindings
    BY DEF HotkeysInit
  <2>2. EventQueueBound \in Nat
    BY HotkeysAssumption
  <2>3. Fired
    BY <2>2 DEF HotkeysInit, Fired
  <2>4. foreign \subseteq Chords
    BY DEF HotkeysInit
  <2>. QED BY <2>1, <2>3, <2>4 DEF Owned, HotkeysShape
<1>2. HotkeysInv /\ HotkeysShape /\ [HotkeysNext]_hotkeysVars => HotkeysShape'
  BY HotkeysShapeKept
<1>3. HotkeysInv /\ HotkeysShape => HotkeysTypeOK
  <2>. SUFFICES ASSUME HotkeysInv, HotkeysShape  PROVE HotkeysTypeOK
    OBVIOUS
  <2>1. /\ registered = {<<id, inForce[id]>> : id \in DOMAIN inForce \ tally.refused}
        /\ succeeded = {p[1] : p \in registered}
        /\ inForce = NoBindings \/ inForce \in Bindings
    BY DEF HotkeysInv, Registration
  <2>2. registered \subseteq HotkeyIds \X Chords
    <3>1. ASSUME NEW id \in DOMAIN inForce  PROVE id \in HotkeyIds /\ inForce[id] \in Chords
      <4>1. inForce \in Bindings
        BY <2>1, <3>1 DEF NoBindings
      <4>. QED BY <4>1, HotkeysAssumption DEF HotkeyIds
    <3>. QED BY <2>1, <3>1
  <2>3. succeeded \subseteq HotkeyIds
    <3>1. ASSUME NEW p \in registered  PROVE p[1] \in HotkeyIds
      BY <2>2, <3>1
    <3>. QED BY <2>1, <3>1
  <2>4. owner.step \in {"idle", "post", "waiting"}
    BY DEF HotkeysInv, Waits
  <2>. QED BY <2>1, <2>2, <2>3, <2>4 DEF HotkeysShape, Owned, Fired, HotkeysTypeOK
<1>. QED BY <1>1, <1>2, <1>3, HotkeysInitially, HotkeysStepKeeps, PTL DEF HotkeysSpec

-----------------------------------------------------------------------------
(* The overlay: the settings, the cues on their way and what is shown.        *)
Pills == {"none", "up", "fading"}
Fitted(h) ==
    /\ h.leaving \in {"no", "stop", "join"} /\ h.pill \in Pills
    /\ Len(h.queue) <= CueBound /\ h.posting <= cues
Asking == swap.at # "idle" => swap.asked \in Settings
HudShape ==
    /\ runtime.settings \in Settings /\ Asking
    /\ cues <= MaxCues
    /\ \A i \in 1..Len(huds) : Fitted(huds[i])

(* What the thread makes of a NativeHud: a cue less at most, and any pill.    *)
Fewer(g, h) ==
    /\ g.leaving = h.leaving /\ g.posting = h.posting /\ g.pill \in Pills
    /\ Len(g.queue) <= Len(h.queue)

LEMMA QueueLengths ==
    ASSUME HudInv, NEW i \in 1..Len(huds)
    PROVE  Len(huds[i].queue) \in Nat /\ huds[i].posting \in Nat /\ Shaped(huds[i])
  BY DEF HudInv, HudOk, Shaped

LEMMA OneFits ==
    ASSUME HudInv, HudShape, NEW i \in 1..Len(huds), NEW g, huds' = [huds EXCEPT ![i] = g],
           g.leaving \in {"no", "stop", "join"}, g.pill \in Pills, Len(g.queue) <= CueBound,
           g.posting <= cues', cues' >= cues, cues' \in Nat, cues' <= MaxCues,
           runtime' = runtime, Asking'
    PROVE  HudShape'
<1>1. PICK S : huds \in Seq(S)
  BY DEF HudInv, Lineage
<1>2. /\ Len(huds') = Len(huds) /\ huds'[i] = g
      /\ \A j \in 1..Len(huds) : j # i => huds'[j] = huds[j]
  BY <1>1, OneChanges
<1>3. ASSUME NEW j \in 1..Len(huds')  PROVE Fitted(huds[j])'
  <2>1. CASE j = i
    BY <1>2, <2>1 DEF Fitted
  <2>2. CASE j # i
    <3>1. huds'[j] = huds[j] /\ Fitted(huds[j]) /\ huds[j].posting \in Nat /\ cues \in Nat
      BY <1>2, <2>2, QueueLengths DEF HudShape, HudInv, Swapping
    <3>2. huds[j].posting <= cues'
      BY <3>1 DEF Fitted
    <3>. QED BY <3>1, <3>2, SMTT(30) DEF Fitted
  <2>. QED BY <2>1, <2>2
<1>. QED BY <1>3 DEF HudShape

LEMMA FewerFits ==
    ASSUME HudInv, HudShape, NEW i \in 1..Len(huds), NEW g, Becomes(i, g), Fewer(g, huds[i]),
           Len(g.queue) \in Nat
    PROVE  HudShape'
<1>1. /\ huds' = [huds EXCEPT ![i] = g] /\ runtime' = runtime /\ swap' = swap /\ cues' = cues
  BY DEF Becomes
<1>2. Fitted(huds[i]) /\ cues \in Nat /\ cues <= MaxCues /\ Len(huds[i].queue) \in Nat
      /\ CueBound \in Nat
  BY QueueLengths, HudAssumption DEF HudShape, HudInv, Swapping
<1>3. g.leaving \in {"no", "stop", "join"} /\ g.pill \in Pills /\ g.posting <= cues
  BY <1>2 DEF Fewer, Fitted
<1>4. Len(g.queue) <= CueBound
  BY <1>2 DEF Fewer, Fitted
<1>5. cues' >= cues /\ cues' \in Nat /\ cues' <= MaxCues /\ g.posting <= cues'
  BY <1>1, <1>2, <1>3
<1>6. Asking'
  BY <1>1 DEF HudShape, Asking
<1>. QED BY <1>1, <1>3, <1>4, <1>5, <1>6, OneFits

LEMMA RecoveredFewer ==
    ASSUME NEW h, Shaped(h), h.pill \in Pills, NEW committed, NEW o, Fewer(h, o)
    PROVE  /\ Shaped(Recovered(h, committed)) /\ Fewer(Recovered(h, committed), o)
<1>. DEFINE g == Recovered(h, committed)
<1>1. Shaped(g) /\ \A f \in Aside : g[f] = h[f]
  BY RecoveredFields
<1>2. g.leaving = h.leaving /\ g.posting = h.posting /\ g.queue = h.queue
  BY <1>1 DEF Aside
<1>3. g.pill \in {"none", h.pill}
  BY DEF Recovered, Shaped
<1>. HIDE DEF g
<1>4. g.pill \in Pills
  BY <1>3 DEF Pills
<1>5. Fewer(g, o)
  BY <1>2, <1>4 DEF Fewer
<1>. QED BY <1>1, <1>5 DEF g

LEMMA CommitFailsFits ==
    ASSUME HudInv, HudShape, NEW i \in 1..Len(huds), NEW h, Shaped(h), Fewer(h, huds[i]),
           CommitFails(i, h)
    PROVE  HudShape'
<1>1. PICK committed \in BOOLEAN : Becomes(i, [Recovered(h, committed) EXCEPT !.at = "ending"])
  BY DEF CommitFails
<1>. DEFINE r == Recovered(h, committed)
            g == [r EXCEPT !.at = "ending"]
<1>2. Shaped(r) /\ Fewer(r, huds[i])
  BY RecoveredFewer DEF Fewer
<1>3. Becomes(i, g)
  BY <1>1
<1>. HIDE DEF r
<1>4. g.leaving = r.leaving /\ g.posting = r.posting /\ g.pill = r.pill /\ g.queue = r.queue
  BY <1>2 DEF Shaped
<1>5. Len(r.queue) \in Nat
  BY <1>2 DEF Shaped
<1>. HIDE DEF g
<1>6. Fewer(g, huds[i]) /\ Len(g.queue) \in Nat
  BY <1>2, <1>4, <1>5 DEF Fewer
<1>. QED BY <1>3, <1>6, FewerFits

LEMMA TimedFits ==
    ASSUME HudInv, HudShape, NEW i \in 1..Len(huds), NEW h, Shaped(h), Fewer(h, huds[i]), Timed(i, h)
    PROVE  HudShape'
<1>1. CASE Becomes(i, h)
  <2>1. Len(h.queue) \in Nat
    BY DEF Shaped
  <2>. QED BY <1>1, <2>1, FewerFits
<1>2. CASE Becomes(i, Recovered(h, TRUE))
  <2>. DEFINE r == Recovered(h, TRUE)
  <2>1. Shaped(r) /\ Fewer(r, huds[i])
    BY RecoveredFewer DEF Fewer
  <2>2. Becomes(i, r)
    BY <1>2
  <2>. HIDE DEF r
  <2>3. Len(r.queue) \in Nat
    BY <2>1 DEF Shaped
  <2>. QED BY <2>1, <2>2, <2>3, FewerFits
<1>3. CASE CommitFails(i, h)
  BY <1>3, CommitFailsFits
<1>. QED BY <1>1, <1>2, <1>3 DEF Timed

(* The thread that only changes its own fields.                               *)
LEMMA AlikeFits ==
    ASSUME HudInv, HudShape, NEW i \in 1..Len(huds), NEW g, Becomes(i, g),
           g.leaving = huds[i].leaving, g.posting = huds[i].posting,
           g.pill = huds[i].pill, g.queue = huds[i].queue
    PROVE  HudShape'
<1>1. Len(huds[i].queue) \in Nat /\ huds[i].pill \in Pills
  BY QueueLengths DEF HudShape, Fitted
<1>2. Fewer(g, huds[i]) /\ Len(g.queue) \in Nat
  BY <1>1 DEF Fewer
<1>. QED BY <1>2, FewerFits

LEMMA NoWindowFewer ==
    ASSUME NEW h, Shaped(h)
    PROVE  /\ Shaped(NoWindow(h)) /\ Fewer(NoWindow(h), h) /\ Len(NoWindow(h).queue) \in Nat
           /\ \A a : /\ [NoWindow(h) EXCEPT !.answer = a].leaving = h.leaving
                     /\ [NoWindow(h) EXCEPT !.answer = a].posting = h.posting
                     /\ [NoWindow(h) EXCEPT !.answer = a].pill = "none"
                     /\ [NoWindow(h) EXCEPT !.answer = a].queue = <<>>
<1>. DEFINE g == NoWindow(h)
<1>1. /\ DOMAIN g = DOMAIN h /\ g.pill = "none" /\ g.queue = <<>> /\ g.leaving = h.leaving
      /\ g.posting = h.posting
  BY DEF NoWindow, Shaped
<1>2. Shaped(g)
  BY GoneOk DEF HudOk
<1>3. Len(h.queue) \in Nat /\ Len(<<>>) = 0
  BY DEF Shaped
<1>. HIDE DEF g
<1>4. Fewer(g, h) /\ Len(g.queue) \in Nat
  BY <1>1, <1>3 DEF Fewer, Pills
<1>5. ASSUME NEW a
      PROVE  /\ [g EXCEPT !.answer = a].leaving = h.leaving
             /\ [g EXCEPT !.answer = a].posting = h.posting
             /\ [g EXCEPT !.answer = a].pill = "none"
             /\ [g EXCEPT !.answer = a].queue = <<>>
  BY <1>1, <1>2 DEF Shaped
<1>. QED BY <1>2, <1>4, <1>5 DEF g

LEMMA ThreadFits ==
    ASSUME HudInv, HudShape, NEW i \in 1..Len(huds), HudThread(i)
    PROVE  HudShape'
<1>. DEFINE h == huds[i]
<1>1. Shaped(h) /\ h.pill \in Pills /\ h.queue \in Seq(Nat) /\ Len(h.queue) \in Nat
  BY QueueLengths DEF HudShape, Fitted, Shaped
<1>2. CASE CreateWindow(i)
  <2>1. CASE Becomes(i, [h EXCEPT !.at = "created", !.shown = ShownIdle, !.attached = AttachedIdle])
    <3>. DEFINE g == [h EXCEPT !.at = "created", !.shown = ShownIdle, !.attached = AttachedIdle]
    <3>1. g.leaving = h.leaving /\ g.posting = h.posting /\ g.pill = h.pill /\ g.queue = h.queue
      BY <1>1 DEF Shaped
    <3>2. Becomes(i, g)
      BY <2>1
    <3>. HIDE DEF g
    <3>. QED BY <3>1, <3>2, AlikeFits
  <2>2. CASE Becomes(i, [NoWindow(h) EXCEPT !.answer = "error"])
    <3>. DEFINE g == [NoWindow(h) EXCEPT !.answer = "error"]
    <3>1. g.leaving = h.leaving /\ g.posting = h.posting /\ g.pill = "none" /\ g.queue = <<>>
      BY <1>1, NoWindowFewer
    <3>2. Becomes(i, g)
      BY <2>2
    <3>. HIDE DEF g
    <3>3. Fewer(g, huds[i]) /\ Len(g.queue) \in Nat
      BY <1>1, <3>1 DEF Fewer, Pills
    <3>. QED BY <3>2, <3>3, FewerFits
  <2>. QED BY <1>2, <2>1, <2>2 DEF CreateWindow
<1>3. ASSUME Becomes(i, NoWindow(h))  PROVE HudShape'
  BY <1>1, <1>3, NoWindowFewer, FewerFits
<1>4. ASSUME NEW a, Becomes(i, [h EXCEPT !.at = a])  PROVE HudShape'
  <2>. DEFINE g == [h EXCEPT !.at = a]
  <2>1. g.leaving = h.leaving /\ g.posting = h.posting /\ g.pill = h.pill /\ g.queue = h.queue
    BY <1>1 DEF Shaped
  <2>2. Becomes(i, g)
    BY <1>4
  <2>. HIDE DEF g
  <2>. QED BY <2>1, <2>2, AlikeFits
<1>5. CASE LookCancelled(i)
  BY <1>3, <1>4, <1>5 DEF LookCancelled
<1>6. CASE Answer(i)
  <2>. DEFINE g == [h EXCEPT !.at = "loop", !.answer = "ok"]
  <2>1. g.leaving = h.leaving /\ g.posting = h.posting /\ g.pill = h.pill /\ g.queue = h.queue
    BY <1>1 DEF Shaped
  <2>2. Becomes(i, g)
    BY <1>6 DEF Answer
  <2>. HIDE DEF g
  <2>. QED BY <2>1, <2>2, AlikeFits
<1>7. CASE Receive(i)
  <2>. DEFINE next == IF Head(h.messages) = "close" THEN "ending" ELSE "drain"
              g == [h EXCEPT !.messages = Tail(@), !.at = next]
  <2>1. g.leaving = h.leaving /\ g.posting = h.posting /\ g.pill = h.pill /\ g.queue = h.queue
    BY <1>1 DEF Shaped
  <2>2. Becomes(i, g)
    BY <1>7 DEF Receive
  <2>. HIDE DEF g
  <2>. QED BY <2>1, <2>2, AlikeFits
<1>8. CASE DrainCommands(i)
  <2>1. CASE h.queue # <<>> /\ Show(i, Head(h.queue))
    <3>. DEFINE cue == Head(h.queue)
                w == [Woken(h) EXCEPT !.queue = Tail(@)]
                up == [w EXCEPT !.drawn = cue, !.attached = TRUE, !.visible = TRUE, !.pill = "up"]
                g == [up EXCEPT !.hold = TRUE]
    <3>1. \/ Timed(i, g)
          \/ \E stage \in {w, [w EXCEPT !.attached = TRUE]} : CommitFails(i, stage)
      BY <2>1 DEF Show
    <3>2. /\ DOMAIN w = DOMAIN h /\ w.at = h.at /\ w.queue = Tail(h.queue) /\ w.messages = h.messages
          /\ w.posting = h.posting /\ w.given = h.given /\ w.drawn = h.drawn
          /\ w.leaving = h.leaving /\ w.pill = h.pill
      BY <1>1 DEF Shaped, Woken
    <3>3. Tail(h.queue) \in Seq(Nat) /\ Len(Tail(h.queue)) <= Len(h.queue) /\ cue \in Nat
      BY <1>1, <2>1, SMTT(30)
    <3>. HIDE DEF w, cue
    <3>4. Shaped(w) /\ Fewer(w, h)
      BY <1>1, <3>2, <3>3 DEF Shaped, Fewer
    <3>5. Shaped(g) /\ Fewer(g, h)
      <4>1. /\ DOMAIN g = DOMAIN w /\ g.at = w.at /\ g.queue = w.queue /\ g.messages = w.messages
            /\ g.posting = w.posting /\ g.given = w.given /\ g.drawn = cue
            /\ g.leaving = w.leaving /\ g.pill = "up"
        BY <3>4 DEF Shaped
      <4>. HIDE DEF g
      <4>. QED BY <3>3, <3>4, <4>1 DEF Shaped, Fewer, Pills
    <3>6. ASSUME NEW stage \in {w, [w EXCEPT !.attached = TRUE]}  PROVE Shaped(stage) /\ Fewer(stage, h)
      <4>1. /\ DOMAIN stage = DOMAIN w /\ stage.at = w.at /\ stage.queue = w.queue
            /\ stage.messages = w.messages /\ stage.posting = w.posting /\ stage.given = w.given
            /\ stage.drawn = w.drawn /\ stage.leaving = w.leaving /\ stage.pill = w.pill
        BY <3>4 DEF Shaped
      <4>. QED BY <3>4, <4>1 DEF Shaped, Fewer
    <3>. HIDE DEF g
    <3>. QED BY <3>1, <3>5, <3>6, TimedFits, CommitFailsFits
  <2>. QED BY <1>4, <1>8, <2>1 DEF DrainCommands
<1>9. CASE HoldExpires(i)
  <2>. DEFINE w == [h EXCEPT !.hold = FALSE]
              g == [w EXCEPT !.pill = "fading", !.exit = TRUE]
  <2>1. Timed(i, g) \/ CommitFails(i, w)
    BY <1>9 DEF HoldExpires
  <2>2. /\ DOMAIN w = DOMAIN h /\ w.at = h.at /\ w.queue = h.queue /\ w.messages = h.messages
        /\ w.posting = h.posting /\ w.given = h.given /\ w.drawn = h.drawn
        /\ w.leaving = h.leaving /\ w.pill = h.pill
    BY <1>1 DEF Shaped
  <2>. HIDE DEF w
  <2>3. Shaped(w) /\ Fewer(w, h)
    BY <1>1, <2>2 DEF Shaped, Fewer
  <2>4. /\ DOMAIN g = DOMAIN w /\ g.at = w.at /\ g.queue = w.queue /\ g.messages = w.messages
        /\ g.posting = w.posting /\ g.given = w.given /\ g.drawn = w.drawn
        /\ g.leaving = w.leaving /\ g.pill = "fading"
    BY <2>3 DEF Shaped
  <2>. HIDE DEF g
  <2>5. Shaped(g) /\ Fewer(g, h)
    BY <2>3, <2>4 DEF Shaped, Fewer, Pills
  <2>. QED BY <2>1, <2>3, <2>5, TimedFits, CommitFailsFits
<1>10. CASE ExitExpires(i)
  <2>. DEFINE w == [h EXCEPT !.exit = FALSE, !.visible = FALSE]
              d == [w EXCEPT !.attached = @ /\ policy # "DetachedShown"]
              g == [d EXCEPT !.pill = "none", !.shown = @ /\ policy # "AttachedHidden"]
  <2>1. Becomes(i, g) \/ \E stage \in {w, d} : CommitFails(i, stage)
    BY <1>10 DEF ExitExpires
  <2>2. /\ DOMAIN w = DOMAIN h /\ w.at = h.at /\ w.queue = h.queue /\ w.messages = h.messages
        /\ w.posting = h.posting /\ w.given = h.given /\ w.drawn = h.drawn
        /\ w.leaving = h.leaving /\ w.pill = h.pill
    BY <1>1 DEF Shaped
  <2>. HIDE DEF w
  <2>3. Shaped(w) /\ Fewer(w, h)
    BY <1>1, <2>2 DEF Shaped, Fewer
  <2>4. /\ DOMAIN d = DOMAIN w /\ d.at = w.at /\ d.queue = w.queue /\ d.messages = w.messages
        /\ d.posting = w.posting /\ d.given = w.given /\ d.drawn = w.drawn
        /\ d.leaving = w.leaving /\ d.pill = w.pill
    BY <2>3 DEF Shaped
  <2>. HIDE DEF d
  <2>5. Shaped(d) /\ Fewer(d, h)
    BY <2>3, <2>4 DEF Shaped, Fewer
  <2>6. g.leaving = d.leaving /\ g.posting = d.posting /\ g.pill = "none" /\ g.queue = d.queue
    BY <2>5 DEF Shaped
  <2>. HIDE DEF g
  <2>7. Fewer(g, h) /\ Len(g.queue) \in Nat
    BY <2>5, <2>6 DEF Shaped, Fewer, Pills
  <2>. QED BY <2>1, <2>3, <2>5, <2>7, FewerFits, CommitFailsFits
<1>11. CASE PumpFails(i)
  <2>. DEFINE g == [h EXCEPT !.at = "ending", !.healthy = FALSE]
  <2>1. g.leaving = h.leaving /\ g.posting = h.posting /\ g.pill = h.pill /\ g.queue = h.queue
    BY <1>1 DEF Shaped
  <2>2. Becomes(i, g)
    BY <1>11 DEF PumpFails
  <2>. HIDE DEF g
  <2>. QED BY <2>1, <2>2, AlikeFits
<1>12. CASE TearDown(i)
  BY <1>3, <1>12 DEF TearDown
<1>. QED BY <1>2, <1>5, <1>6, <1>7, <1>8, <1>9, <1>10, <1>11, <1>12 DEF HudThread

LEMMA OwnerFits ==
    ASSUME HudInv, HudShape, NEW i \in 1..Len(huds), StopOld(i) \/ JoinOld(i) \/ PostWake(i)
    PROVE  HudShape'
<1>. DEFINE h == huds[i]
<1>1. Shaped(h) /\ h.pill \in Pills /\ h.queue \in Seq(Nat) /\ Len(h.queue) \in Nat /\ h.posting \in Nat
      /\ Len(h.queue) <= CueBound /\ h.posting <= cues /\ h.leaving \in {"no", "stop", "join"}
  BY QueueLengths DEF HudShape, Fitted, Shaped
<1>2. CueBound \in Nat /\ cues \in Nat /\ cues <= MaxCues
  BY HudAssumption DEF HudShape, HudInv, Swapping
<1>3. runtime' = runtime /\ swap' = swap /\ cues' = cues
  BY DEF StopOld, JoinOld, PostWake
<1>4. ASSUME NEW g, huds' = [huds EXCEPT ![i] = g], g.leaving \in {"no", "stop", "join"},
             g.pill = h.pill, Len(g.queue) <= CueBound, g.posting <= cues
      PROVE  HudShape'
  <2>1. cues' >= cues /\ cues' \in Nat /\ cues' <= MaxCues /\ g.posting <= cues'
    BY <1>2, <1>3, <1>4
  <2>2. g.pill \in Pills
    BY <1>1, <1>4
  <2>3. Asking'
    BY <1>3 DEF HudShape, Asking
  <2>. QED BY <1>3, <1>4, <2>1, <2>2, <2>3, OneFits
<1>5. CASE StopOld(i)
  <2>. DEFINE q == IF h.at # "gone" /\ Len(h.queue) < CueBound THEN Append(h.queue, Shutdown) ELSE h.queue
              m == IF WindowOpen(h) THEN Append(h.messages, "close") ELSE h.messages
              g == [h EXCEPT !.leaving = "join", !.healthy = FALSE, !.cancelled = TRUE,
                             !.queue = q, !.messages = m]
  <2>1. huds' = [huds EXCEPT ![i] = g]
    BY <1>5 DEF StopOld
  <2>2. Len(q) <= CueBound
    <3>1. Len(Append(h.queue, Shutdown)) = Len(h.queue) + 1
      BY <1>1 DEF Shutdown
    <3>. QED BY <1>1, <1>2, <3>1
  <2>. HIDE DEF q, m
  <2>3. g.leaving = "join" /\ g.pill = h.pill /\ g.queue = q /\ g.posting = h.posting
    BY <1>1 DEF Shaped
  <2>. HIDE DEF g
  <2>. QED BY <1>1, <1>4, <2>1, <2>2, <2>3
<1>6. CASE JoinOld(i)
  <2>. DEFINE g == [h EXCEPT !.leaving = "no"]
  <2>1. huds' = [huds EXCEPT ![i] = g]
    BY <1>6 DEF JoinOld
  <2>2. g.leaving = "no" /\ g.pill = h.pill /\ g.queue = h.queue /\ g.posting = h.posting
    BY <1>1 DEF Shaped
  <2>. HIDE DEF g
  <2>. QED BY <1>1, <1>4, <2>1, <2>2
<1>7. CASE PostWake(i)
  <2>. DEFINE m == IF WindowOpen(h) THEN Append(h.messages, "command") ELSE h.messages
              g == [h EXCEPT !.posting = @ - 1, !.messages = m]
  <2>1. huds' = [huds EXCEPT ![i] = g]
    BY <1>7 DEF PostWake
  <2>. HIDE DEF m
  <2>2. g.leaving = h.leaving /\ g.pill = h.pill /\ g.queue = h.queue /\ g.posting = h.posting - 1
    BY <1>1 DEF Shaped
  <2>. HIDE DEF g
  <2>3. g.posting <= cues
    BY <1>1, <1>2, <2>2
  <2>. QED BY <1>1, <1>4, <2>1, <2>2, <2>3
<1>. QED BY <1>5, <1>6, <1>7

(* A step that changes no NativeHud, or takes one up that is new.             *)
LEMMA NoneFits ==
    ASSUME HudInv, HudShape, huds' = huds, cues' = cues, runtime' = runtime, Asking'
    PROVE  HudShape'
<1>1. ASSUME NEW j \in 1..Len(huds')  PROVE Fitted(huds[j])'
  <2>1. Fitted(huds[j])
    BY DEF HudShape
  <2>. QED BY <2>1 DEF Fitted
<1>. QED BY <1>1 DEF HudShape

LEMMA RebuildFits ==
    ASSUME HudInv, HudShape, Rebuild
    PROVE  HudShape'
<1>1. /\ swap.at = "look" /\ UNCHANGED <<runtime, cues>>
      /\ \/ huds' = Append(huds, NewHud) /\ swap' = [swap EXCEPT !.at = "build"]
         \/ swap' = [at |-> "swap", asked |-> swap.asked, new |-> 0] /\ UNCHANGED huds
         \/ swap' = Quiet /\ UNCHANGED huds
  BY DEF Rebuild
<1>2. swap.asked \in Settings /\ "asked" \in DOMAIN swap
  BY <1>1 DEF HudShape, Asking, HudInv, Swapping
<1>3. CASE swap' = [at |-> "swap", asked |-> swap.asked, new |-> 0] /\ UNCHANGED huds
  BY <1>1, <1>2, <1>3, NoneFits DEF Asking
<1>4. CASE swap' = Quiet /\ UNCHANGED huds
  BY <1>1, <1>4, NoneFits DEF Asking, Quiet
<1>5. CASE huds' = Append(huds, NewHud) /\ swap' = [swap EXCEPT !.at = "build"]
  <2>1. PICK S : huds \in Seq(S)
    BY DEF HudInv, Lineage
  <2>2. /\ Len(huds') = Len(huds) + 1 /\ Len(huds) \in Nat /\ huds'[Len(huds) + 1] = NewHud
        /\ \A j \in 1..Len(huds) : huds'[j] = huds[j]
    <3>1. huds \in Seq(S \cup {NewHud})
      BY <2>1
    <3>. QED BY <1>5, <3>1, AppendProperties, LenProperties
  <2>3. ASSUME NEW j \in 1..Len(huds')  PROVE Fitted(huds[j])'
    <3>1. CASE j = Len(huds) + 1
      <4>1. /\ NewHud.leaving = "no" /\ NewHud.pill = "none" /\ NewHud.queue = <<>>
            /\ NewHud.posting = 0
        BY DEF NewHud
      <4>2. CueBound \in Nat /\ cues' \in Nat
        BY <1>1, HudAssumption DEF HudInv, Swapping
      <4>3. huds'[j] = NewHud
        BY <2>2, <3>1
      <4>. QED BY <4>1, <4>2, <4>3 DEF Fitted, Pills
    <3>2. CASE j # Len(huds) + 1
      <4>1. j \in 1..Len(huds)
        BY <2>2, <3>2
      <4>2. huds'[j] = huds[j] /\ Fitted(huds[j])
        BY <2>2, <4>1 DEF HudShape
      <4>. QED BY <1>1, <4>2 DEF Fitted
    <3>. QED BY <3>1, <3>2
  <2>4. Asking'
    BY <1>2, <1>5 DEF Asking
  <2>. QED BY <1>1, <2>3, <2>4 DEF HudShape
<1>. QED BY <1>1, <1>3, <1>4, <1>5

LEMMA AnswersFit ==
    ASSUME HudInv, HudShape, TakeAnswer \/ NoAnswer
    PROVE  HudShape'
<1>1. swap.at = "build" /\ UNCHANGED <<runtime, cues>>
  BY DEF TakeAnswer, NoAnswer
<1>2. swap.asked \in Settings
  BY <1>1 DEF HudShape, Asking
<1>3. Asking'
  BY <1>2 DEF TakeAnswer, NoAnswer, Built, Asking
<1>4. CASE TakeAnswer
  BY <1>1, <1>3, <1>4, NoneFits DEF TakeAnswer
<1>5. CASE NoAnswer
  <2>. DEFINE n == Len(huds)
              h == huds[n]
              g == [h EXCEPT !.cancelled = TRUE, !.healthy = FALSE, !.stray = (h.at = "answer")]
  <2>1. PICK S : huds \in Seq(S)
    BY DEF HudInv, Lineage
  <2>2. n \in 1..Len(huds)
    BY <1>1, <2>1, LenProperties DEF HudInv, Swapping
  <2>3. huds' = [huds EXCEPT ![n] = g]
    BY <1>5, <2>1, <2>2 DEF NoAnswer, Latest
  <2>4. Fitted(h) /\ Shaped(h) /\ cues \in Nat /\ cues <= MaxCues
    BY <2>2, QueueLengths DEF HudShape, HudInv, Swapping
  <2>. HIDE DEF h
  <2>5. g.leaving = h.leaving /\ g.posting = h.posting /\ g.pill = h.pill /\ g.queue = h.queue
    BY <2>4 DEF Shaped
  <2>. HIDE DEF g, n
  <2>6. /\ g.leaving \in {"no", "stop", "join"} /\ g.pill \in Pills /\ Len(g.queue) <= CueBound
        /\ g.posting <= cues' /\ cues' >= cues /\ cues' \in Nat /\ cues' <= MaxCues
    BY <1>1, <2>4, <2>5 DEF Fitted
  <2>. QED BY <1>1, <1>3, <2>2, <2>3, <2>6, OneFits
<1>. QED BY <1>4, <1>5

LEMMA SwapFits ==
    ASSUME HudInv, HudShape, Swap
    PROVE  HudShape'
<1>1. /\ swap.at = "swap" /\ cues' = cues /\ swap' = Quiet
      /\ runtime' = [settings |-> swap.asked, hud |-> swap.new]
      /\ huds' = [i \in 1..Len(huds) |->
                     IF i = runtime.hud THEN [huds[i] EXCEPT !.leaving = "stop"] ELSE huds[i]]
  BY DEF Swap, Latest
<1>2. Len(huds) \in Nat
  BY LenProperties DEF HudInv, Lineage
<1>3. Len(huds') = Len(huds)
  BY <1>1, <1>2
<1>4. ASSUME NEW j \in 1..Len(huds')  PROVE Fitted(huds[j])'
  <2>1. Fitted(huds[j]) /\ Shaped(huds[j]) /\ j \in 1..Len(huds)
    BY <1>3, QueueLengths DEF HudShape
  <2>2. CASE j = runtime.hud
    <3>. DEFINE h == huds[j]
                g == [h EXCEPT !.leaving = "stop"]
    <3>1. huds'[j] = g
      BY <1>1, <2>1, <2>2
    <3>2. g.leaving = "stop" /\ g.posting = h.posting /\ g.pill = h.pill /\ g.queue = h.queue
      BY <2>1 DEF Shaped
    <3>. HIDE DEF g
    <3>. QED BY <1>1, <2>1, <3>1, <3>2 DEF Fitted
  <2>3. CASE j # runtime.hud
    <3>1. huds'[j] = huds[j]
      BY <1>1, <2>1, <2>3
    <3>. QED BY <1>1, <2>1, <3>1 DEF Fitted
  <2>. QED BY <2>2, <2>3
<1>5. runtime'.settings \in Settings /\ Asking' /\ cues' <= MaxCues
  BY <1>1 DEF HudShape, Asking, Quiet
<1>. QED BY <1>4, <1>5 DEF HudShape

LEMMA TryShowFits ==
    ASSUME HudInv, HudShape, TryShow
    PROVE  HudShape'
<1>. DEFINE i == runtime.hud
            h == huds[i]
            c == cues + 1
            g == [h EXCEPT !.queue = Append(@, c), !.posting = @ + 1, !.given = c]
<1>1. PICK S : huds \in Seq(S)
  BY DEF HudInv, Lineage
<1>2. i \in 1..Len(huds) /\ cues \in Nat /\ c \in Nat
  BY <1>1, LenProperties DEF TryShow, HudInv, Swapping
<1>3. /\ Len(h.queue) < CueBound /\ cues < MaxCues /\ cues' = c
      /\ UNCHANGED <<runtime, swap>>
  BY DEF TryShow
<1>4. huds' = [huds EXCEPT ![i] = g]
  BY <1>1, <1>2 DEF TryShow
<1>5. Fitted(h) /\ Shaped(h)
  BY <1>2, QueueLengths DEF HudShape
<1>6. h.queue \in Seq(Nat) /\ h.posting \in Nat
  BY <1>5 DEF Shaped
<1>. HIDE DEF h
<1>7. /\ g.leaving = h.leaving /\ g.posting = h.posting + 1 /\ g.pill = h.pill
      /\ g.queue = Append(h.queue, c)
  BY <1>5 DEF Shaped
<1>8. Len(g.queue) = Len(h.queue) + 1 /\ Len(h.queue) \in Nat
  BY <1>2, <1>6, <1>7
<1>9. Asking' /\ CueBound \in Nat /\ MaxCues \in Nat
  BY <1>3, HudAssumption DEF HudShape, Asking
<1>. HIDE DEF g
<1>10. /\ g.leaving \in {"no", "stop", "join"} /\ g.pill \in Pills /\ Len(g.queue) <= CueBound
       /\ g.posting <= cues' /\ cues' >= cues /\ cues' \in Nat /\ cues' <= MaxCues
  BY <1>2, <1>3, <1>5, <1>6, <1>7, <1>8, <1>9 DEF Fitted
<1>. HIDE DEF i, c
<1>. QED BY <1>2, <1>3, <1>4, <1>9, <1>10, OneFits

LEMMA HudShapeKept ==
    ASSUME HudInv, HudShape, [HudNext]_hudVars
    PROVE  HudShape'
<1>1. CASE UNCHANGED hudVars
  BY <1>1, NoneFits DEF hudVars, HudShape, Asking
<1>2. ASSUME NEW asked \in Settings, Reconfigure(asked)  PROVE HudShape'
  BY <1>2, NoneFits DEF Reconfigure, Asking
<1>3. ASSUME NEW i \in 1..Len(huds), StopOld(i) \/ JoinOld(i) \/ PostWake(i) \/ HudThread(i)
      PROVE  HudShape'
  BY <1>3, OwnerFits, ThreadFits
<1>. QED BY <1>1, <1>2, <1>3, RebuildFits, AnswersFit, SwapFits, TryShowFits DEF HudNext

(* Every cue, timer, failure, answer and change of settings keeps each        *)
(* NativeHud, its queue and the change under way in their types.              *)
THEOREM HudTypeCorrect == HudSpec => []HudTypeOK
<1>1. HudInit => HudShape
  <2>. SUFFICES ASSUME HudInit  PROVE HudShape
    OBVIOUS
  <2>1. PICK asked \in Settings :
            runtime = [settings |-> asked, hud |-> 0] /\ swap = [at |-> "look", asked |-> asked]
    BY DEF HudInit
  <2>2. huds = <<>> /\ cues = 0 /\ MaxCues \in Nat
    BY HudAssumption DEF HudInit
  <2>. QED BY <2>1, <2>2 DEF HudShape, Asking
<1>2. HudInv /\ HudShape /\ [HudNext]_hudVars => HudShape'
  BY HudShapeKept
<1>3. HudInv /\ HudShape => HudTypeOK
  <2>. SUFFICES ASSUME HudInv, HudShape  PROVE HudTypeOK
    OBVIOUS
  <2>1. /\ runtime.hud \in 0..Len(huds) /\ swap.at \in {"idle", "look", "build", "swap"}
        /\ runtime.settings \in Settings
    BY DEF HudInv, Swapping, HudShape
  <2>2. ASSUME NEW i \in 1..Len(huds)
        PROVE  /\ huds[i].at \in {"init", "created", "answer", "loop", "drain", "ending", "gone"}
               /\ huds[i].leaving \in {"no", "stop", "join"} /\ huds[i].pill \in {"none", "up", "fading"}
               /\ Len(huds[i].queue) <= CueBound /\ huds[i].posting \in 0..MaxCues
    <3>1. Fitted(huds[i]) /\ Shaped(huds[i]) /\ huds[i].posting \in Nat
      BY QueueLengths DEF HudShape
    <3>2. cues \in Nat /\ cues <= MaxCues /\ MaxCues \in Nat
      BY HudAssumption DEF HudShape, HudInv, Swapping
    <3>3. huds[i].posting \in 0..MaxCues
      BY <3>1, <3>2 DEF Fitted
    <3>. QED BY <3>1, <3>3 DEF Fitted, Pills, Shaped
  <2>. QED BY <2>1, <2>2 DEF HudTypeOK
<1>. QED BY <1>1, <1>2, <1>3, HudInitially, HudStepKeeps, PTL DEF HudSpec

-----------------------------------------------------------------------------
(* The composition.                                                           *)

(* A step of the process is a step of each part or leaves it as it is.          *)
LEMMA EachMoves ==
    ASSUME [DesktopNext]_desktopVars
    PROVE  /\ [ShellNext]_shellVars
           /\ [CaptureNext]_captureVars
           /\ [FallbackNext]_fallbackVars
           /\ [TransformNext]_transformVars
           /\ [ClipFileNext]_clipFileVars
           /\ [HotkeysNext]_hotkeysVars
           /\ [AudioNext]_audioVars
           /\ [HudNext]_hudVars
           /\ [MakePlan]_planVars
<1>1. CASE UNCHANGED desktopVars
  BY <1>1 DEF desktopVars
<1>2. CASE Still("settings") /\ ShellNext
  BY <1>2 DEF Still
<1>3. CASE Still("library") /\ ShellNext
  BY <1>3 DEF Still
<1>4. CASE Still("capture") /\ CaptureNext
  BY <1>4 DEF Still
<1>5. CASE Still("encoder") /\ FallbackNext
  BY <1>5 DEF Still
<1>6. CASE Still("transform") /\ TransformNext
  BY <1>6 DEF Still
<1>7. CASE Still("clip") /\ ClipFileNext
  BY <1>7 DEF Still
<1>8. CASE Still("hotkeys") /\ HotkeysNext
  BY <1>8 DEF Still
<1>9. CASE Still("audio") /\ AudioNext
  BY <1>9 DEF Still
<1>10. CASE Still("hud") /\ HudNext
  BY <1>10 DEF Still
<1>11. CASE Still("plan") /\ MakePlan
  BY <1>11 DEF Still
<1>. QED BY <1>1, <1>2, <1>3, <1>4, <1>5, <1>6, <1>7, <1>8, <1>9, <1>10, <1>11 DEF DesktopNext

(* What the process starts with is what each part starts with, and so every     *)
(* part of it behaves as the part does alone.                                   *)
THEOREM EachPartRuns ==
    DesktopSpec => /\ ShellSpec
                   /\ CaptureSpec
                   /\ FallbackSpec
                   /\ TransformSpec
                   /\ ClipFileSpec
                   /\ HotkeysSpec
                   /\ AudioSpec
                   /\ HudSpec
                   /\ PlanSpec
<1>1. DesktopInit => /\ ShellInit
                     /\ CaptureInit
                     /\ FallbackInit
                     /\ TransformInit
                     /\ ClipFileInit
                     /\ HotkeysInit
                     /\ AudioInit
                     /\ HudInit
                     /\ PlanInit
  BY DEF DesktopInit
<1>2. [DesktopNext]_desktopVars => /\ [ShellNext]_shellVars
                                   /\ [CaptureNext]_captureVars
                                   /\ [FallbackNext]_fallbackVars
                                   /\ [TransformNext]_transformVars
                                   /\ [ClipFileNext]_clipFileVars
                                   /\ [HotkeysNext]_hotkeysVars
                                   /\ [AudioNext]_audioVars
                                   /\ [HudNext]_hudVars
                                   /\ [MakePlan]_planVars
  BY EachMoves
<1>. QED BY <1>1, <1>2, PTL DEF DesktopSpec, ShellSpec, CaptureSpec, FallbackSpec, TransformSpec,
            ClipFileSpec, HotkeysSpec, AudioSpec, HudSpec, PlanSpec

(* Whatever the parts do and in whatever order, every variable of the process   *)
(* keeps the shape and the bounds its part declares.                            *)
THEOREM DesktopTypes == DesktopSpec => []DesktopTypeOK
<1>1. ShellTypeOK /\ CaptureTypeOK /\ FallbackTypeOK /\ TransformTypeOK
      /\ ClipFileTypeOK /\ HotkeysTypeOK /\ AudioTypeOK /\ HudTypeOK /\ PlanTypeOK
      => DesktopTypeOK
  BY DEF DesktopTypeOK
<1>. QED BY <1>1, EachPartRuns, ShellTypeCorrect, CaptureTypeCorrect, FallbackTypeCorrect, TransformTypeCorrect,
            ClipFileTypeCorrect, HotkeysTypeCorrect, AudioTypeCorrect, HudTypeCorrect, PlanTypeCorrect, PTL

(* And beside the others each part keeps its promise: no clip is lost, settings *)
(* follow one document, pictures are true, frames are counted once, samples are *)
(* read back, bindings are registered, sound is in step, pills go, plans fit.   *)
THEOREM DesktopAlwaysSound ==
    DesktopSpec => /\ [](NothingLost /\ QuotaSound /\ SettingsAllOrNothing)
                   /\ []PicturesTrue /\ PtsNeverBack /\ []ReplacementsSound /\ []TransformSound
                   /\ []ClipFileSound /\ []HotkeysSound /\ []AudioInStep /\ []HudSound /\ []PlanFits
<1>. QED BY EachPartRuns, NothingIsEverLost, QuotaAlwaysSound, SettingsAlwaysAllOrNothing, PicturesAlwaysTrue,
            PtsNeverGoesBack, ReplacementsAlwaysSound, TransformAlwaysSound, ClipFileAlwaysSound,
            HotkeysAlwaysSound, AudioAlwaysInStep, HudAlwaysSound, PlanAlwaysFits, PTL
=============================================================================
