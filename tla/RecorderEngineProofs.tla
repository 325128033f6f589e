------------------------ MODULE RecorderEngineProofs ------------------------
(* Proofs about RecorderEngine: its type invariant, that the audio stream     *)
(* stays registered, that a clip can be decoded, and that a failure is not    *)
(* masked.                                                                    *)
(*                                                                            *)
(* None of the four is inductive.  What they rest on:                         *)
(*  - Untouched: components that nobody has taken belong to an engine that    *)
(*    has done nothing.  start runs at most once, so the worker starts with   *)
(*    an empty buffer, and no start can leave Error;                          *)
(*  - Counted: two encoder generations per fault and one for the start;       *)
(*  - Causes: the worker has a cause exactly while it recovers, and keeps it  *)
(*    on its way out of a recovery that failed;                               *)
(*  - Handed: packets are in hand only between encode and insert, are of the  *)
(*    active generation, and the descriptor has been refreshed for them       *)
(*    before they are inserted;                                               *)
(*  - Trial: while a 2x mode is on trial nothing is buffered, so the failed   *)
(*    trial that ends the worker leaves no packet of another generation;      *)
(*  - Epoch: at each place of the worker, which generation the retained       *)
(*    packets are of and whether the descriptor is theirs.                    *)
EXTENDS RecorderEngine, SequenceTheorems, FiniteSetTheorems, TLAPS

-----------------------------------------------------------------------------
(* The inductive invariant.                                                   *)

\* Where the worker is while it has no trouble.
Calm == {"startMeta", "loop", "retry", "sync", "meta", "insert", "events", "prime", "probe",
         "failing"}
\* Where the worker is while it recovers.
Recovery == {"drain", "restart", "reconfigure", "reset", "remeta", "complete"}
\* Where the worker is on its way out.
Leaving == {"exit", "exitMeta", "exitInsert", "exitPrime", "exitEvents", "done"}

Places == {"none", "configure"} \cup Calm \cup Recovery \cup Leaving

\* TypeOK in three parts, the event queue, the buffer and the rest, without the
\* bound on the encoder's generation, which Counted gives.
QueueTyped == queue \in Seq(Events) /\ Len(queue) <= QueueBound /\ drops \in BOOLEAN

Buffers == [streams : SUBSET {"video", "audio"}, held : SUBSET Generations,
            desc : Generations, primed : BOOLEAN, sound : BOOLEAN]

Plain ==
    /\ state \in States
    /\ parts \in BOOLEAN
    /\ ctl \in {"idle", "drain", "drainAgain", "joining"}
    /\ shutdown \in BOOLEAN
    /\ pc \in Places
    /\ cause \in {"none", "format", "loss"}
    /\ attempts \in 0 .. RestartLimit - 1
    /\ probing \in BOOLEAN
    /\ encGen \in Nat /\ seenGen \in Generations /\ descGen \in Generations
    /\ inHand \subseteq Generations
    /\ primedSent \in BOOLEAN /\ fellBack \in BOOLEAN /\ failed \in BOOLEAN
    /\ audio \in {"none", "running", "done"}
    /\ faults \in 0 .. MaxFaults

Typed == Plain /\ QueueTyped /\ buffer \in Buffers

\* A fault makes at most two generations: the reinitialization inside encode and
\* the fallback to the native size after it.
Counted ==
    /\ pc \in {"none", "configure"} => encGen = 0
    /\ pc \in {"probe", "drain", "restart", "reconfigure"} => encGen <= 2 * faults
    /\ encGen <= 2 * faults + 1

\* Components that nobody has taken belong to an engine that has done nothing.
Untouched ==
    parts => /\ state = "Stopped"
             /\ ctl # "joining"
             /\ queue = <<>>
             /\ pc = "none" /\ cause = "none" /\ encGen = 0 /\ inHand = {}
             /\ buffer.held = {}
             /\ audio = "none"

Causes ==
    /\ pc \in {"none", "configure"} \cup Calm => cause = "none"
    /\ pc \in Recovery => cause # "none"

\* What the worker holds between encode and insert.
Handed ==
    /\ inHand = {} \/ (inHand = {encGen}
                       /\ pc \in {"sync", "meta", "insert", "exitMeta", "exitInsert"})
    /\ pc \in {"insert", "exitInsert"} /\ inHand # {} => buffer.desc = encGen

\* A mode on trial has buffered nothing.
Trial ==
    /\ pc \in {"sync", "meta", "insert", "events", "prime", "failing"} => ~ probing
    /\ pc = "loop" /\ probing => buffer.held = {}

\* The retained packets are of generation g, and so is the descriptor.
Decodable(g) == buffer.held = {} \/ (buffer.held = {g} /\ buffer.desc = g)

\* Which generation the buffer is of.
Epoch ==
    /\ pc \in {"loop", "retry", "meta", "insert", "events", "prime", "drain", "restart",
               "reconfigure", "remeta", "complete"} => seenGen = encGen
    /\ pc \in {"none", "configure", "startMeta", "retry", "probe", "reset", "remeta", "complete"}
        => buffer.held = {}
    /\ pc \in {"loop", "sync", "meta", "insert", "events", "prime", "failing"}
        => Decodable(seenGen)
    /\ pc \in {"drain", "restart", "reconfigure"} \cup Leaving
        => buffer.held = {} \/ buffer.held = {encGen}
    /\ pc \in Leaving /\ cause = "none" => Decodable(encGen)

IInv ==
    /\ Typed /\ Counted /\ Untouched
    /\ AudioStreamRegistered
    /\ Causes /\ Handed /\ Trial /\ Epoch

-----------------------------------------------------------------------------
(* The event queue.                                                           *)

\* Queueing events never exceeds the bound of the queue (try_send drops what does
\* not fit).
LEMMA EnqueueBounded ==
    ASSUME NEW q \in Seq(Events), Len(q) <= QueueBound, NEW events \in Seq(Events)
    PROVE  Enqueue(q, events) \in Seq(Events) /\ Len(Enqueue(q, events)) <= QueueBound
<1> DEFINE all == q \o events
           n == IF Fits(q, events) THEN Len(q) + Len(events) ELSE QueueBound
<1>1. all \in Seq(Events) /\ Len(all) = Len(q) + Len(events)
  BY ConcatProperties
<1>2. n \in 0 .. Len(all) /\ n <= QueueBound
  BY <1>1, QueueBoundAssumption, LenProperties DEF Fits
<1> HIDE DEF all, n
<1>3. SubSeq(all, 1, n) \in Seq(Events) /\ Len(SubSeq(all, 1, n)) = n
  BY <1>1, <1>2, SubSeqProperties
<1> QED
  BY <1>2, <1>3 DEF Enqueue, all, n

LEMMA PublishTyped ==
    ASSUME QueueTyped, NEW events \in Seq(Events), Publish(events)
    PROVE  QueueTyped'
BY EnqueueBounded DEF QueueTyped, Publish

LEMMA SilentTyped == QueueTyped /\ Silent => QueueTyped'
BY DEF QueueTyped, Silent

\* What the controller appends to the queue while it drains it.
LEMMA HandleTyped ==
    ASSUME QueueTyped, queue # <<>>
    PROVE  /\ Head(queue) \in Events
           /\ \A target : Handle(target, Tail(queue)) => QueueTyped'
           /\ Ignore(Tail(queue)) => QueueTyped'
<1>1. Tail(queue) \in Seq(Events) /\ Len(Tail(queue)) <= QueueBound /\ Head(queue) \in Events
  BY HeadTailProperties, QueueBoundAssumption, LenProperties DEF QueueTyped
<1>2. <<"Other">> \in Seq(Events)
  BY DEF Events
<1>3. Enqueue(Tail(queue), <<"Other">>) \in Seq(Events)
      /\ Len(Enqueue(Tail(queue), <<"Other">>)) <= QueueBound
  BY <1>1, <1>2, EnqueueBounded
<1> QED
  BY <1>1, <1>3 DEF Handle, Ignore, QueueTyped

\* What the workers publish.
LEMMA EventsTyped ==
    /\ <<>> \in Seq(Events) /\ <<"Other">> \in Seq(Events)
    /\ <<"Other", "Other">> \in Seq(Events) /\ <<"Primed">> \in Seq(Events)
    /\ <<"RecoveryStarted", "Other">> \in Seq(Events)
    /\ <<"Other", "RecoveryStarted">> \in Seq(Events)
    /\ EncoderEvents \in Seq(Events)
    /\ EncoderEvents \o <<"RecoveryCompleted">> \in Seq(Events)
    /\ <<>> \o <<"Failed">> \in Seq(Events)
    /\ <<"Other">> \o <<"Failed">> \in Seq(Events)
    /\ <<"RecoveryStarted", "Other">> \o <<"Failed">> \in Seq(Events)
    /\ EncoderEvents \o <<"Failed">> \in Seq(Events)
<1>1. <<>> \in Seq(Events) /\ <<"Other">> \in Seq(Events) /\ <<"Failed">> \in Seq(Events)
      /\ <<"RecoveryCompleted">> \in Seq(Events)
      /\ <<"Other", "Other">> \in Seq(Events) /\ <<"Primed">> \in Seq(Events)
      /\ <<"RecoveryStarted", "Other">> \in Seq(Events)
      /\ <<"Other", "RecoveryStarted">> \in Seq(Events)
  BY DEF Events
<1>2. EncoderEvents \in Seq(Events)
  BY <1>1 DEF EncoderEvents
<1> QED
  BY <1>1, <1>2, ConcatProperties

-----------------------------------------------------------------------------
(* The buffer.                                                                *)

\* The generations a worker can come across are within the type's bound.
LEMMA GenerationBounds ==
    /\ 0 \in Generations
    /\ Plain /\ Counted => encGen \in Generations
BY MaxFaultsAssumption DEF Generations, Plain, Counted

LEMMA CountedIn ==
    ASSUME NEW g \in Nat, NEW f \in 0 .. MaxFaults, g <= 2 * f + 1
    PROVE  g \in Generations
BY MaxFaultsAssumption DEF Generations

\* Registering the video stream again empties the track and takes the worker's
\* descriptor (register_stream).
LEMMA RegisteredFields ==
    ASSUME buffer \in Buffers, descGen \in Generations
    PROVE  /\ RegisteredVideo(buffer) \in Buffers
           /\ RegisteredVideo(buffer).held = {}
           /\ RegisteredVideo(buffer).streams = buffer.streams \cup {"video"}
BY DEF Buffers, RegisteredVideo

\* A new epoch keeps the registered streams (reset_video_buffer_epoch).
LEMMA ResetFields ==
    ASSUME buffer \in Buffers, descGen \in Generations
    PROVE  /\ ResetEpoch(buffer) \in Buffers
           /\ ResetEpoch(buffer).held = {}
           /\ ResetEpoch(buffer).streams = buffer.streams \cup {"video"}
<1> DEFINE r == RegisteredVideo(buffer)
<1>1. r \in Buffers /\ r.held = {} /\ r.streams = buffer.streams \cup {"video"}
  BY RegisteredFields
<1> HIDE DEF r
<1>2. [r EXCEPT !.sound = FALSE] \in Buffers
      /\ [r EXCEPT !.sound = FALSE].held = r.held
      /\ [r EXCEPT !.sound = FALSE].streams = r.streams
  BY <1>1 DEF Buffers
<1> QED
  BY <1>1, <1>2 DEF ResetEpoch, r

\* Refreshing the descriptor changes nothing else.
LEMMA DescFields ==
    ASSUME buffer \in Buffers, NEW g \in Generations
    PROVE  /\ [buffer EXCEPT !.desc = g] \in Buffers
           /\ [buffer EXCEPT !.desc = g].desc = g
           /\ [buffer EXCEPT !.desc = g].held = buffer.held
           /\ [buffer EXCEPT !.desc = g].streams = buffer.streams
BY DEF Buffers

\* Inserting packets adds their generation and changes no descriptor.
LEMMA InsertedFields ==
    ASSUME buffer \in Buffers, NEW gens \in SUBSET Generations, NEW b \in Inserted(buffer, gens)
    PROVE  /\ b \in Buffers
           /\ b.held = buffer.held \cup gens
           /\ b.desc = buffer.desc
           /\ b.streams = buffer.streams
<1>1. CASE gens = {}
  BY <1>1 DEF Inserted
<1>2. CASE gens # {}
  <2>1. PICK p \in {buffer.primed, TRUE} :
            b = [buffer EXCEPT !.held = @ \cup gens, !.primed = p]
    BY <1>2 DEF Inserted
  <2>2. p \in BOOLEAN
    BY DEF Buffers
  <2> QED
    BY <2>1, <2>2 DEF Buffers
<1> QED
  BY <1>1, <1>2

-----------------------------------------------------------------------------
(* The video worker: one lemma per action of it.  Each part of the invariant  *)
(* is shown from the parts it rests on.                                       *)

\* Configuring at the start.
LEMMA ConfigureStep == ASSUME IInv, Configure("configure", "startMeta", "done") PROVE IInv'
<1>1. /\ Plain /\ QueueTyped /\ buffer \in Buffers
      /\ encGen \in Generations /\ seenGen \in Generations /\ descGen \in Generations
      /\ inHand \subseteq Generations /\ faults \in Nat /\ encGen \in Nat
  BY GenerationBounds DEF IInv, Typed, Plain
<1>2. QueueTyped'
  BY <1>1, EventsTyped, PublishTyped, SilentTyped DEF Configure, Fail, Fault
<1>3. encGen' \in Nat /\ faults' \in 0 .. MaxFaults /\ Counted'
  BY <1>1, MaxFaultsAssumption DEF Configure, Fail, Fault, IInv, Counted, Plain, WorkerOnly
<1>4. encGen' \in Generations
  BY <1>3, CountedIn DEF Counted
<1>5. /\ buffer' \in Buffers
      /\ buffer'.streams \in {buffer.streams, buffer.streams \cup {"video"}}
      /\ encGen' = encGen + 1 => buffer'.held = {}
      /\ encGen' # encGen + 1 => buffer' = buffer
  BY <1>1, RegisteredFields DEF Configure, Fail, Fault
<1>6. Plain'
  <2>1. pc' \in Places
    BY <1>1 DEF Configure, Fail, Fault, Plain, WorkerOnly, Places, Calm, Recovery, Leaving
  <2>2. seenGen' \in Generations /\ descGen' \in Generations /\ inHand' \subseteq Generations
    BY <1>1, <1>4, <1>5 DEF Configure, Fail, Fault
  <2>3. attempts' \in 0 .. RestartLimit - 1 /\ cause' \in {"none", "format", "loss"}
    BY <1>1, RestartLimitAssumption DEF Configure, Fail, Fault, Plain
  <2>4. /\ probing' \in BOOLEAN /\ primedSent' \in BOOLEAN
        /\ fellBack' \in BOOLEAN /\ failed' \in BOOLEAN
    BY <1>1 DEF Configure, Fail, Fault, Plain
  <2> QED
    BY <1>1, <1>3, <2>1, <2>2, <2>3, <2>4 DEF Configure, Fail, Fault, Plain, WorkerOnly
<1>7. Untouched' /\ AudioStreamRegistered'
  BY <1>1, <1>5 DEF Configure, Fail, Fault, IInv, Untouched, AudioStreamRegistered, WorkerOnly
<1>8. Causes'
  BY <1>1 DEF Configure, Fail, Fault, IInv, Causes, Plain, Calm, Recovery
<1>9. Handed'
  BY <1>1, <1>5 DEF Configure, Fail, Fault, IInv, Handed
<1>10. Trial'
  BY <1>1, <1>5 DEF Configure, Fail, Fault, IInv, Trial, Epoch, Plain
<1>11. Epoch'
  BY <1>1, <1>5 DEF Configure, Fail, Fault, IInv, Epoch, Handed, Trial, Causes,
      Decodable, Calm, Recovery, Leaving, Plain
<1> QED
  BY <1>2, <1>3, <1>5, <1>6, <1>7, <1>8, <1>9, <1>10, <1>11 DEF IInv, Typed

\* Configuring again in a recovery: the registration empties the buffer.
LEMMA ReconfigureStep == ASSUME IInv, Configure("reconfigure", "reset", "exit") PROVE IInv'
<1>1. /\ Plain /\ QueueTyped /\ buffer \in Buffers
      /\ encGen \in Generations /\ seenGen \in Generations /\ descGen \in Generations
      /\ inHand \subseteq Generations /\ faults \in Nat /\ encGen \in Nat
  BY GenerationBounds DEF IInv, Typed, Plain
<1>2. QueueTyped'
  BY <1>1, EventsTyped, PublishTyped, SilentTyped DEF Configure, Fail, Fault
<1>3. encGen' \in Nat /\ faults' \in 0 .. MaxFaults /\ Counted'
  BY <1>1, MaxFaultsAssumption DEF Configure, Fail, Fault, IInv, Counted, Plain, WorkerOnly
<1>4. encGen' \in Generations
  BY <1>3, CountedIn DEF Counted
<1>5. /\ buffer' \in Buffers
      /\ buffer'.streams \in {buffer.streams, buffer.streams \cup {"video"}}
      /\ encGen' = encGen + 1 => buffer'.held = {}
      /\ encGen' # encGen + 1 => buffer' = buffer
  BY <1>1, RegisteredFields DEF Configure, Fail, Fault
<1>6. Plain'
  <2>1. pc' \in Places
    BY <1>1 DEF Configure, Fail, Fault, Plain, WorkerOnly, Places, Calm, Recovery, Leaving
  <2>2. seenGen' \in Generations /\ descGen' \in Generations /\ inHand' \subseteq Generations
    BY <1>1, <1>4, <1>5 DEF Configure, Fail, Fault
  <2>3. attempts' \in 0 .. RestartLimit - 1 /\ cause' \in {"none", "format", "loss"}
    BY <1>1, RestartLimitAssumption DEF Configure, Fail, Fault, Plain
  <2>4. /\ probing' \in BOOLEAN /\ primedSent' \in BOOLEAN
        /\ fellBack' \in BOOLEAN /\ failed' \in BOOLEAN
    BY <1>1 DEF Configure, Fail, Fault, Plain
  <2> QED
    BY <1>1, <1>3, <2>1, <2>2, <2>3, <2>4 DEF Configure, Fail, Fault, Plain, WorkerOnly
<1>7. Untouched' /\ AudioStreamRegistered'
  BY <1>1, <1>5 DEF Configure, Fail, Fault, IInv, Untouched, AudioStreamRegistered, WorkerOnly
<1>8. Causes'
  BY <1>1 DEF Configure, Fail, Fault, IInv, Causes, Plain, Calm, Recovery
<1>9. Handed'
  BY <1>1, <1>5 DEF Configure, Fail, Fault, IInv, Handed
<1>10. Trial'
  BY <1>1, <1>5 DEF Configure, Fail, Fault, IInv, Trial, Epoch, Plain
<1>11. Epoch'
  BY <1>1, <1>5 DEF Configure, Fail, Fault, IInv, Epoch, Handed, Trial, Causes,
      Decodable, Calm, Recovery, Leaving, Plain
<1> QED
  BY <1>2, <1>3, <1>5, <1>6, <1>7, <1>8, <1>9, <1>10, <1>11 DEF IInv, Typed

\* The first look at the encoder's initialization bytes.
LEMMA StartMetaStep == ASSUME IInv, PublishExtradata("startMeta", "loop") PROVE IInv'
<1>1. /\ Plain /\ QueueTyped /\ buffer \in Buffers
      /\ encGen \in Generations /\ seenGen \in Generations /\ descGen \in Generations
      /\ inHand \subseteq Generations /\ faults \in Nat /\ encGen \in Nat
  BY GenerationBounds DEF IInv, Typed, Plain
<1>2. QueueTyped'
  BY <1>1, EventsTyped, PublishTyped, SilentTyped DEF PublishExtradata, Learned
<1>3. encGen' \in Nat /\ faults' \in 0 .. MaxFaults /\ Counted'
  BY <1>1, MaxFaultsAssumption DEF PublishExtradata, Learned, IInv, Counted, Plain, WorkerOnly
<1>4. encGen' \in Generations
  BY <1>3, CountedIn DEF Counted
<1>5. /\ buffer' \in Buffers /\ descGen' \in Generations
      /\ buffer'.streams = buffer.streams /\ buffer'.held = buffer.held
      /\ buffer'.desc = IF descGen' = encGen /\ buffer'.desc = encGen THEN encGen ELSE buffer.desc
      /\ inHand # {} => buffer'.desc = encGen
      /\ buffer'.desc \in {buffer.desc, encGen}
  BY <1>1, DescFields DEF PublishExtradata, Learned, Buffers
<1>6. Plain'
  <2>1. pc' \in Places
    BY <1>1 DEF PublishExtradata, Learned, Plain, WorkerOnly, Places, Calm, Recovery, Leaving
  <2>2. seenGen' \in Generations /\ descGen' \in Generations /\ inHand' \subseteq Generations
    BY <1>1, <1>4, <1>5 DEF PublishExtradata, Learned
  <2>3. attempts' \in 0 .. RestartLimit - 1 /\ cause' \in {"none", "format", "loss"}
    BY <1>1, RestartLimitAssumption DEF PublishExtradata, Learned, Plain
  <2>4. /\ probing' \in BOOLEAN /\ primedSent' \in BOOLEAN
        /\ fellBack' \in BOOLEAN /\ failed' \in BOOLEAN
    BY <1>1 DEF PublishExtradata, Learned, Plain
  <2> QED
    BY <1>1, <1>3, <2>1, <2>2, <2>3, <2>4 DEF PublishExtradata, Learned, Plain, WorkerOnly
<1>7. Untouched' /\ AudioStreamRegistered'
  BY <1>1, <1>5 DEF PublishExtradata, Learned, IInv, Untouched, AudioStreamRegistered, WorkerOnly
<1>8. Causes'
  BY <1>1 DEF PublishExtradata, Learned, IInv, Causes, Plain, Calm, Recovery
<1>9. Handed'
  BY <1>1, <1>5 DEF PublishExtradata, Learned, IInv, Handed
<1>10. Trial'
  BY <1>1, <1>5 DEF PublishExtradata, Learned, IInv, Trial, Epoch, Plain
<1>11. Epoch'
  BY <1>1, <1>5 DEF PublishExtradata, Learned, IInv, Epoch, Handed, Trial, Causes,
      Decodable, Calm, Recovery, Leaving, Plain
<1> QED
  BY <1>2, <1>3, <1>5, <1>6, <1>7, <1>8, <1>9, <1>10, <1>11 DEF IInv, Typed

\* Refreshing the descriptor before the packets go in: a generation that has put out packets is
\* known.
LEMMA MetaStep == ASSUME IInv, PublishExtradata("meta", "insert") PROVE IInv'
<1>1. /\ Plain /\ QueueTyped /\ buffer \in Buffers
      /\ encGen \in Generations /\ seenGen \in Generations /\ descGen \in Generations
      /\ inHand \subseteq Generations /\ faults \in Nat /\ encGen \in Nat
  BY GenerationBounds DEF IInv, Typed, Plain
<1>2. QueueTyped'
  BY <1>1, EventsTyped, PublishTyped, SilentTyped DEF PublishExtradata, Learned
<1>3. encGen' \in Nat /\ faults' \in 0 .. MaxFaults /\ Counted'
  BY <1>1, MaxFaultsAssumption DEF PublishExtradata, Learned, IInv, Counted, Plain, WorkerOnly
<1>4. encGen' \in Generations
  BY <1>3, CountedIn DEF Counted
<1>5. /\ buffer' \in Buffers /\ descGen' \in Generations
      /\ buffer'.streams = buffer.streams /\ buffer'.held = buffer.held
      /\ buffer'.desc = IF descGen' = encGen /\ buffer'.desc = encGen THEN encGen ELSE buffer.desc
      /\ inHand # {} => buffer'.desc = encGen
      /\ buffer'.desc \in {buffer.desc, encGen}
  BY <1>1, DescFields DEF PublishExtradata, Learned, Buffers
<1>6. Plain'
  <2>1. pc' \in Places
    BY <1>1 DEF PublishExtradata, Learned, Plain, WorkerOnly, Places, Calm, Recovery, Leaving
  <2>2. seenGen' \in Generations /\ descGen' \in Generations /\ inHand' \subseteq Generations
    BY <1>1, <1>4, <1>5 DEF PublishExtradata, Learned
  <2>3. attempts' \in 0 .. RestartLimit - 1 /\ cause' \in {"none", "format", "loss"}
    BY <1>1, RestartLimitAssumption DEF PublishExtradata, Learned, Plain
  <2>4. /\ probing' \in BOOLEAN /\ primedSent' \in BOOLEAN
        /\ fellBack' \in BOOLEAN /\ failed' \in BOOLEAN
    BY <1>1 DEF PublishExtradata, Learned, Plain
  <2> QED
    BY <1>1, <1>3, <2>1, <2>2, <2>3, <2>4 DEF PublishExtradata, Learned, Plain, WorkerOnly
<1>7. Untouched' /\ AudioStreamRegistered'
  BY <1>1, <1>5 DEF PublishExtradata, Learned, IInv, Untouched, AudioStreamRegistered, WorkerOnly
<1>8. Causes'
  BY <1>1 DEF PublishExtradata, Learned, IInv, Causes, Plain, Calm, Recovery
<1>9. Handed'
  BY <1>1, <1>5 DEF PublishExtradata, Learned, IInv, Handed
<1>10. Trial'
  BY <1>1, <1>5 DEF PublishExtradata, Learned, IInv, Trial, Epoch, Plain
<1>11. Epoch'
  BY <1>1, <1>5 DEF PublishExtradata, Learned, IInv, Epoch, Handed, Trial, Causes,
      Decodable, Calm, Recovery, Leaving, Plain
<1> QED
  BY <1>2, <1>3, <1>5, <1>6, <1>7, <1>8, <1>9, <1>10, <1>11 DEF IInv, Typed

\* Refreshing the descriptor after a recovery.
LEMMA RemetaStep == ASSUME IInv, PublishExtradata("remeta", "complete") PROVE IInv'
<1>1. /\ Plain /\ QueueTyped /\ buffer \in Buffers
      /\ encGen \in Generations /\ seenGen \in Generations /\ descGen \in Generations
      /\ inHand \subseteq Generations /\ faults \in Nat /\ encGen \in Nat
  BY GenerationBounds DEF IInv, Typed, Plain
<1>2. QueueTyped'
  BY <1>1, EventsTyped, PublishTyped, SilentTyped DEF PublishExtradata, Learned
<1>3. encGen' \in Nat /\ faults' \in 0 .. MaxFaults /\ Counted'
  BY <1>1, MaxFaultsAssumption DEF PublishExtradata, Learned, IInv, Counted, Plain, WorkerOnly
<1>4. encGen' \in Generations
  BY <1>3, CountedIn DEF Counted
<1>5. /\ buffer' \in Buffers /\ descGen' \in Generations
      /\ buffer'.streams = buffer.streams /\ buffer'.held = buffer.held
      /\ buffer'.desc = IF descGen' = encGen /\ buffer'.desc = encGen THEN encGen ELSE buffer.desc
      /\ inHand # {} => buffer'.desc = encGen
      /\ buffer'.desc \in {buffer.desc, encGen}
  BY <1>1, DescFields DEF PublishExtradata, Learned, Buffers
<1>6. Plain'
  <2>1. pc' \in Places
    BY <1>1 DEF PublishExtradata, Learned, Plain, WorkerOnly, Places, Calm, Recovery, Leaving
  <2>2. seenGen' \in Generations /\ descGen' \in Generations /\ inHand' \subseteq Generations
    BY <1>1, <1>4, <1>5 DEF PublishExtradata, Learned
  <2>3. attempts' \in 0 .. RestartLimit - 1 /\ cause' \in {"none", "format", "loss"}
    BY <1>1, RestartLimitAssumption DEF PublishExtradata, Learned, Plain
  <2>4. /\ probing' \in BOOLEAN /\ primedSent' \in BOOLEAN
        /\ fellBack' \in BOOLEAN /\ failed' \in BOOLEAN
    BY <1>1 DEF PublishExtradata, Learned, Plain
  <2> QED
    BY <1>1, <1>3, <2>1, <2>2, <2>3, <2>4 DEF PublishExtradata, Learned, Plain, WorkerOnly
<1>7. Untouched' /\ AudioStreamRegistered'
  BY <1>1, <1>5 DEF PublishExtradata, Learned, IInv, Untouched, AudioStreamRegistered, WorkerOnly
<1>8. Causes'
  BY <1>1 DEF PublishExtradata, Learned, IInv, Causes, Plain, Calm, Recovery
<1>9. Handed'
  BY <1>1, <1>5 DEF PublishExtradata, Learned, IInv, Handed
<1>10. Trial'
  BY <1>1, <1>5 DEF PublishExtradata, Learned, IInv, Trial, Epoch, Plain
<1>11. Epoch'
  BY <1>1, <1>5 DEF PublishExtradata, Learned, IInv, Epoch, Handed, Trial, Causes,
      Decodable, Calm, Recovery, Leaving, Plain
<1> QED
  BY <1>2, <1>3, <1>5, <1>6, <1>7, <1>8, <1>9, <1>10, <1>11 DEF IInv, Typed

\* Refreshing the descriptor before the final packets.
LEMMA ExitMetaStep == ASSUME IInv, PublishExtradata("exitMeta", "exitInsert") PROVE IInv'
<1>1. /\ Plain /\ QueueTyped /\ buffer \in Buffers
      /\ encGen \in Generations /\ seenGen \in Generations /\ descGen \in Generations
      /\ inHand \subseteq Generations /\ faults \in Nat /\ encGen \in Nat
  BY GenerationBounds DEF IInv, Typed, Plain
<1>2. QueueTyped'
  BY <1>1, EventsTyped, PublishTyped, SilentTyped DEF PublishExtradata, Learned
<1>3. encGen' \in Nat /\ faults' \in 0 .. MaxFaults /\ Counted'
  BY <1>1, MaxFaultsAssumption DEF PublishExtradata, Learned, IInv, Counted, Plain, WorkerOnly
<1>4. encGen' \in Generations
  BY <1>3, CountedIn DEF Counted
<1>5. /\ buffer' \in Buffers /\ descGen' \in Generations
      /\ buffer'.streams = buffer.streams /\ buffer'.held = buffer.held
      /\ buffer'.desc = IF descGen' = encGen /\ buffer'.desc = encGen THEN encGen ELSE buffer.desc
      /\ inHand # {} => buffer'.desc = encGen
      /\ buffer'.desc \in {buffer.desc, encGen}
  BY <1>1, DescFields DEF PublishExtradata, Learned, Buffers
<1>6. Plain'
  <2>1. pc' \in Places
    BY <1>1 DEF PublishExtradata, Learned, Plain, WorkerOnly, Places, Calm, Recovery, Leaving
  <2>2. seenGen' \in Generations /\ descGen' \in Generations /\ inHand' \subseteq Generations
    BY <1>1, <1>4, <1>5 DEF PublishExtradata, Learned
  <2>3. attempts' \in 0 .. RestartLimit - 1 /\ cause' \in {"none", "format", "loss"}
    BY <1>1, RestartLimitAssumption DEF PublishExtradata, Learned, Plain
  <2>4. /\ probing' \in BOOLEAN /\ primedSent' \in BOOLEAN
        /\ fellBack' \in BOOLEAN /\ failed' \in BOOLEAN
    BY <1>1 DEF PublishExtradata, Learned, Plain
  <2> QED
    BY <1>1, <1>3, <2>1, <2>2, <2>3, <2>4 DEF PublishExtradata, Learned, Plain, WorkerOnly
<1>7. Untouched' /\ AudioStreamRegistered'
  BY <1>1, <1>5 DEF PublishExtradata, Learned, IInv, Untouched, AudioStreamRegistered, WorkerOnly
<1>8. Causes'
  BY <1>1 DEF PublishExtradata, Learned, IInv, Causes, Plain, Calm, Recovery
<1>9. Handed'
  BY <1>1, <1>5 DEF PublishExtradata, Learned, IInv, Handed
<1>10. Trial'
  BY <1>1, <1>5 DEF PublishExtradata, Learned, IInv, Trial, Epoch, Plain
<1>11. Epoch'
  BY <1>1, <1>5 DEF PublishExtradata, Learned, IInv, Epoch, Handed, Trial, Causes,
      Decodable, Calm, Recovery, Leaving, Plain
<1> QED
  BY <1>2, <1>3, <1>5, <1>6, <1>7, <1>8, <1>9, <1>10, <1>11 DEF IInv, Typed

\* Seeing the flag.
LEMMA ObserveShutdownStep == ASSUME IInv, ObserveShutdown PROVE IInv'
<1>1. /\ Plain /\ QueueTyped /\ buffer \in Buffers
      /\ encGen \in Generations /\ seenGen \in Generations /\ descGen \in Generations
      /\ inHand \subseteq Generations /\ faults \in Nat /\ encGen \in Nat
  BY GenerationBounds DEF IInv, Typed, Plain
<1>2. QueueTyped'
  BY <1>1, EventsTyped, PublishTyped, SilentTyped DEF ObserveShutdown
<1>3. encGen' \in Nat /\ faults' \in 0 .. MaxFaults /\ Counted'
  BY <1>1, MaxFaultsAssumption DEF ObserveShutdown, IInv, Counted, Plain, WorkerOnly
<1>4. encGen' \in Generations
  BY <1>3, CountedIn DEF Counted
<1>5. buffer' = buffer /\ buffer' \in Buffers
  BY <1>1 DEF ObserveShutdown
<1>6. Plain'
  <2>1. pc' \in Places
    BY <1>1 DEF ObserveShutdown, Plain, WorkerOnly, Places, Calm, Recovery, Leaving
  <2>2. seenGen' \in Generations /\ descGen' \in Generations /\ inHand' \subseteq Generations
    BY <1>1, <1>4, <1>5 DEF ObserveShutdown
  <2>3. attempts' \in 0 .. RestartLimit - 1 /\ cause' \in {"none", "format", "loss"}
    BY <1>1, RestartLimitAssumption DEF ObserveShutdown, Plain
  <2>4. /\ probing' \in BOOLEAN /\ primedSent' \in BOOLEAN
        /\ fellBack' \in BOOLEAN /\ failed' \in BOOLEAN
    BY <1>1 DEF ObserveShutdown, Plain
  <2> QED
    BY <1>1, <1>3, <2>1, <2>2, <2>3, <2>4 DEF ObserveShutdown, Plain, WorkerOnly
<1>7. Untouched' /\ AudioStreamRegistered'
  BY <1>1, <1>5 DEF ObserveShutdown, IInv, Untouched, AudioStreamRegistered, WorkerOnly
<1>8. Causes'
  BY <1>1 DEF ObserveShutdown, IInv, Causes, Plain, Calm, Recovery
<1>9. Handed'
  BY <1>1, <1>5 DEF ObserveShutdown, IInv, Handed
<1>10. Trial'
  BY <1>1, <1>5 DEF ObserveShutdown, IInv, Trial, Epoch, Plain
<1>11. Epoch'
  BY <1>1, <1>5 DEF ObserveShutdown, IInv, Epoch, Handed, Trial, Causes,
      Decodable, Calm, Recovery, Leaving, Plain
<1> QED
  BY <1>2, <1>3, <1>5, <1>6, <1>7, <1>8, <1>9, <1>10, <1>11 DEF IInv, Typed

\* Encoding, perhaps on another generation.
LEMMA EncodeFrameStep == ASSUME IInv, EncodeFrame PROVE IInv'
<1>1. /\ Plain /\ QueueTyped /\ buffer \in Buffers
      /\ encGen \in Generations /\ seenGen \in Generations /\ descGen \in Generations
      /\ inHand \subseteq Generations /\ faults \in Nat /\ encGen \in Nat
  BY GenerationBounds DEF IInv, Typed, Plain
<1>2. QueueTyped'
  BY <1>1, EventsTyped, PublishTyped, SilentTyped DEF EncodeFrame, Encoding, Fault
<1>3. encGen' \in Nat /\ faults' \in 0 .. MaxFaults /\ Counted'
  BY <1>1, MaxFaultsAssumption DEF EncodeFrame, Encoding, Fault, IInv, Counted, Plain, WorkerOnly
<1>4. encGen' \in Generations
  BY <1>3, CountedIn DEF Counted
<1>5. buffer' = buffer /\ buffer' \in Buffers
  BY <1>1 DEF EncodeFrame, Encoding, Fault
<1>6. Plain'
  <2>1. pc' \in Places
    BY <1>1 DEF EncodeFrame, Encoding, Fault, Plain, WorkerOnly, Places, Calm, Recovery, Leaving
  <2>2. seenGen' \in Generations /\ descGen' \in Generations /\ inHand' \subseteq Generations
    BY <1>1, <1>4, <1>5 DEF EncodeFrame, Encoding, Fault
  <2>3. attempts' \in 0 .. RestartLimit - 1 /\ cause' \in {"none", "format", "loss"}
    BY <1>1, RestartLimitAssumption DEF EncodeFrame, Encoding, Fault, Plain
  <2>4. /\ probing' \in BOOLEAN /\ primedSent' \in BOOLEAN
        /\ fellBack' \in BOOLEAN /\ failed' \in BOOLEAN
    BY <1>1 DEF EncodeFrame, Encoding, Fault, Plain
  <2> QED
    BY <1>1, <1>3, <2>1, <2>2, <2>3, <2>4 DEF EncodeFrame, Encoding, Fault, Plain, WorkerOnly
<1>7. Untouched' /\ AudioStreamRegistered'
  BY <1>1, <1>5 DEF EncodeFrame, Encoding, Fault, IInv, Untouched, AudioStreamRegistered, WorkerOnly
<1>8. Causes'
  BY <1>1 DEF EncodeFrame, Encoding, Fault, IInv, Causes, Plain, Calm, Recovery
<1>9. Handed'
  BY <1>1, <1>5 DEF EncodeFrame, Encoding, Fault, IInv, Handed
<1>10. Trial'
  BY <1>1, <1>5 DEF EncodeFrame, Encoding, Fault, IInv, Trial, Epoch, Plain
<1>11. Epoch'
  BY <1>1, <1>5 DEF EncodeFrame, Encoding, Fault, IInv, Epoch, Handed, Trial, Causes,
      Decodable, Calm, Recovery, Leaving, Plain
<1> QED
  BY <1>2, <1>3, <1>5, <1>6, <1>7, <1>8, <1>9, <1>10, <1>11 DEF IInv, Typed

\* Failing to encode, perhaps on another generation.
LEMMA EncodeFailsStep == ASSUME IInv, EncodeFails PROVE IInv'
<1>1. /\ Plain /\ QueueTyped /\ buffer \in Buffers
      /\ encGen \in Generations /\ seenGen \in Generations /\ descGen \in Generations
      /\ inHand \subseteq Generations /\ faults \in Nat /\ encGen \in Nat
  BY GenerationBounds DEF IInv, Typed, Plain
<1>2. QueueTyped'
  BY <1>1, EventsTyped, PublishTyped, SilentTyped DEF EncodeFails, Encoding, Fault
<1>3. encGen' \in Nat /\ faults' \in 0 .. MaxFaults /\ Counted'
  BY <1>1, MaxFaultsAssumption DEF EncodeFails, Encoding, Fault, IInv, Counted, Plain, WorkerOnly
<1>4. encGen' \in Generations
  BY <1>3, CountedIn DEF Counted
<1>5. buffer' = buffer /\ buffer' \in Buffers
  BY <1>1 DEF EncodeFails, Encoding, Fault
<1>6. Plain'
  <2>1. pc' \in Places
    BY <1>1 DEF EncodeFails, Encoding, Fault, Plain, WorkerOnly, Places, Calm, Recovery, Leaving
  <2>2. seenGen' \in Generations /\ descGen' \in Generations /\ inHand' \subseteq Generations
    BY <1>1, <1>4, <1>5 DEF EncodeFails, Encoding, Fault
  <2>3. attempts' \in 0 .. RestartLimit - 1 /\ cause' \in {"none", "format", "loss"}
    BY <1>1, RestartLimitAssumption DEF EncodeFails, Encoding, Fault, Plain
  <2>4. /\ probing' \in BOOLEAN /\ primedSent' \in BOOLEAN
        /\ fellBack' \in BOOLEAN /\ failed' \in BOOLEAN
    BY <1>1 DEF EncodeFails, Encoding, Fault, Plain
  <2> QED
    BY <1>1, <1>3, <2>1, <2>2, <2>3, <2>4 DEF EncodeFails, Encoding, Fault, Plain, WorkerOnly
<1>7. Untouched' /\ AudioStreamRegistered'
  BY <1>1, <1>5 DEF EncodeFails, Encoding, Fault, IInv, Untouched, AudioStreamRegistered, WorkerOnly
<1>8. Causes'
  BY <1>1 DEF EncodeFails, Encoding, Fault, IInv, Causes, Plain, Calm, Recovery
<1>9. Handed'
  BY <1>1, <1>5 DEF EncodeFails, Encoding, Fault, IInv, Handed
<1>10. Trial'
  BY <1>1, <1>5 DEF EncodeFails, Encoding, Fault, IInv, Trial, Epoch, Plain
<1>11. Epoch'
  BY <1>1, <1>5 DEF EncodeFails, Encoding, Fault, IInv, Epoch, Handed, Trial, Causes,
      Decodable, Calm, Recovery, Leaving, Plain
<1> QED
  BY <1>2, <1>3, <1>5, <1>6, <1>7, <1>8, <1>9, <1>10, <1>11 DEF IInv, Typed

\* Falling back to the native size: the new epoch is empty, and so was the trial that failed.
LEMMA FallBackStep == ASSUME IInv, FallBackToNative PROVE IInv'
<1>1. /\ Plain /\ QueueTyped /\ buffer \in Buffers
      /\ encGen \in Generations /\ seenGen \in Generations /\ descGen \in Generations
      /\ inHand \subseteq Generations /\ faults \in Nat /\ encGen \in Nat
  BY GenerationBounds DEF IInv, Typed, Plain
<1>2. QueueTyped'
  BY <1>1, EventsTyped, PublishTyped, SilentTyped DEF FallBackToNative, Fail, Fault
<1>3. encGen' \in Nat /\ faults' \in 0 .. MaxFaults /\ Counted'
  BY <1>1, MaxFaultsAssumption DEF FallBackToNative, Fail, Fault, IInv, Counted, Plain, WorkerOnly
<1>4. encGen' \in Generations
  BY <1>3, CountedIn DEF Counted
<1>5. /\ buffer' \in Buffers
      /\ buffer'.streams \in {buffer.streams, buffer.streams \cup {"video"}}
      /\ buffer' = buffer \/ buffer'.held = {}
  BY <1>1, ResetFields DEF FallBackToNative, Fail, Fault
<1>6. Plain'
  <2>1. pc' \in Places
    BY <1>1 DEF FallBackToNative, Fail, Fault, Plain, WorkerOnly, Places, Calm, Recovery, Leaving
  <2>2. seenGen' \in Generations /\ descGen' \in Generations /\ inHand' \subseteq Generations
    BY <1>1, <1>4, <1>5 DEF FallBackToNative, Fail, Fault
  <2>3. attempts' \in 0 .. RestartLimit - 1 /\ cause' \in {"none", "format", "loss"}
    BY <1>1, RestartLimitAssumption DEF FallBackToNative, Fail, Fault, Plain
  <2>4. /\ probing' \in BOOLEAN /\ primedSent' \in BOOLEAN
        /\ fellBack' \in BOOLEAN /\ failed' \in BOOLEAN
    BY <1>1 DEF FallBackToNative, Fail, Fault, Plain
  <2> QED
    BY <1>1, <1>3, <2>1, <2>2, <2>3, <2>4 DEF FallBackToNative, Fail, Fault, Plain, WorkerOnly
<1>7. Untouched' /\ AudioStreamRegistered'
  BY <1>1, <1>5 DEF FallBackToNative, Fail, Fault, IInv, Untouched, AudioStreamRegistered, WorkerOnly
<1>8. Causes'
  BY <1>1 DEF FallBackToNative, Fail, Fault, IInv, Causes, Plain, Calm, Recovery
<1>9. Handed'
  BY <1>1, <1>5 DEF FallBackToNative, Fail, Fault, IInv, Handed
<1>10. Trial'
  BY <1>1, <1>5 DEF FallBackToNative, Fail, Fault, IInv, Trial, Epoch, Plain
<1>11. Epoch'
  BY <1>1, <1>5 DEF FallBackToNative, Fail, Fault, IInv, Epoch, Handed, Trial, Causes,
      Decodable, Calm, Recovery, Leaving, Plain
<1> QED
  BY <1>2, <1>3, <1>5, <1>6, <1>7, <1>8, <1>9, <1>10, <1>11 DEF IInv, Typed

\* Starting a new epoch if the generation changed.
LEMMA SyncEpochStep == ASSUME IInv, SyncEpoch PROVE IInv'
<1>1. /\ Plain /\ QueueTyped /\ buffer \in Buffers
      /\ encGen \in Generations /\ seenGen \in Generations /\ descGen \in Generations
      /\ inHand \subseteq Generations /\ faults \in Nat /\ encGen \in Nat
  BY GenerationBounds DEF IInv, Typed, Plain
<1>2. QueueTyped'
  BY <1>1, EventsTyped, PublishTyped, SilentTyped DEF SyncEpoch, Synced
<1>3. encGen' \in Nat /\ faults' \in 0 .. MaxFaults /\ Counted'
  BY <1>1, MaxFaultsAssumption DEF SyncEpoch, Synced, IInv, Counted, Plain, WorkerOnly
<1>4. encGen' \in Generations
  BY <1>3, CountedIn DEF Counted
<1>5. /\ buffer' \in Buffers
      /\ buffer'.streams \in {buffer.streams, buffer.streams \cup {"video"}}
      /\ buffer' = buffer \/ buffer'.held = {}
  BY <1>1, ResetFields DEF SyncEpoch, Synced
<1>6. Plain'
  <2>1. pc' \in Places
    BY <1>1 DEF SyncEpoch, Synced, Plain, WorkerOnly, Places, Calm, Recovery, Leaving
  <2>2. seenGen' \in Generations /\ descGen' \in Generations /\ inHand' \subseteq Generations
    BY <1>1, <1>4, <1>5 DEF SyncEpoch, Synced
  <2>3. attempts' \in 0 .. RestartLimit - 1 /\ cause' \in {"none", "format", "loss"}
    BY <1>1, RestartLimitAssumption DEF SyncEpoch, Synced, Plain
  <2>4. /\ probing' \in BOOLEAN /\ primedSent' \in BOOLEAN
        /\ fellBack' \in BOOLEAN /\ failed' \in BOOLEAN
    BY <1>1 DEF SyncEpoch, Synced, Plain
  <2> QED
    BY <1>1, <1>3, <2>1, <2>2, <2>3, <2>4 DEF SyncEpoch, Synced, Plain, WorkerOnly
<1>7. Untouched' /\ AudioStreamRegistered'
  BY <1>1, <1>5 DEF SyncEpoch, Synced, IInv, Untouched, AudioStreamRegistered, WorkerOnly
<1>8. Causes'
  BY <1>1 DEF SyncEpoch, Synced, IInv, Causes, Plain, Calm, Recovery
<1>9. Handed'
  BY <1>1, <1>5 DEF SyncEpoch, Synced, IInv, Handed
<1>10. Trial'
  BY <1>1, <1>5 DEF SyncEpoch, Synced, IInv, Trial, Epoch, Plain
<1>11. Epoch'
  <2>1. CASE seenGen = encGen
    BY <1>1, <1>5, <2>1 DEF SyncEpoch, Synced, IInv, Epoch, Handed, Causes, Decodable, Calm,
        Recovery, Leaving, Plain
  <2>2. CASE seenGen # encGen
    <3>1. /\ buffer'.held = {} /\ seenGen' = encGen /\ encGen' = encGen
          /\ pc' \in {"meta", "exit"} /\ cause' = cause
      BY <1>1, <2>2, ResetFields DEF SyncEpoch, Synced
    <3> QED
      BY <3>1 DEF Epoch, Decodable, Leaving
  <2> QED
    BY <2>1, <2>2
<1> QED
  BY <1>2, <1>3, <1>5, <1>6, <1>7, <1>8, <1>9, <1>10, <1>11 DEF IInv, Typed

\* Giving up after the epoch was synchronized.
LEMMA GiveUpStep == ASSUME IInv, GiveUpEncoding PROVE IInv'
<1>1. /\ Plain /\ QueueTyped /\ buffer \in Buffers
      /\ encGen \in Generations /\ seenGen \in Generations /\ descGen \in Generations
      /\ inHand \subseteq Generations /\ faults \in Nat /\ encGen \in Nat
  BY GenerationBounds DEF IInv, Typed, Plain
<1>2. QueueTyped'
  BY <1>1, EventsTyped, PublishTyped, SilentTyped DEF GiveUpEncoding, Synced, Fail
<1>3. encGen' \in Nat /\ faults' \in 0 .. MaxFaults /\ Counted'
  BY <1>1, MaxFaultsAssumption DEF GiveUpEncoding, Synced, Fail, IInv, Counted, Plain, WorkerOnly
<1>4. encGen' \in Generations
  BY <1>3, CountedIn DEF Counted
<1>5. /\ buffer' \in Buffers
      /\ buffer'.streams \in {buffer.streams, buffer.streams \cup {"video"}}
      /\ buffer' = buffer \/ buffer'.held = {}
  BY <1>1, ResetFields DEF GiveUpEncoding, Synced, Fail
<1>6. Plain'
  <2>1. pc' \in Places
    BY <1>1 DEF GiveUpEncoding, Synced, Fail, Plain, WorkerOnly, Places, Calm, Recovery, Leaving
  <2>2. seenGen' \in Generations /\ descGen' \in Generations /\ inHand' \subseteq Generations
    BY <1>1, <1>4, <1>5 DEF GiveUpEncoding, Synced, Fail
  <2>3. attempts' \in 0 .. RestartLimit - 1 /\ cause' \in {"none", "format", "loss"}
    BY <1>1, RestartLimitAssumption DEF GiveUpEncoding, Synced, Fail, Plain
  <2>4. /\ probing' \in BOOLEAN /\ primedSent' \in BOOLEAN
        /\ fellBack' \in BOOLEAN /\ failed' \in BOOLEAN
    BY <1>1 DEF GiveUpEncoding, Synced, Fail, Plain
  <2> QED
    BY <1>1, <1>3, <2>1, <2>2, <2>3, <2>4 DEF GiveUpEncoding, Synced, Fail, Plain, WorkerOnly
<1>7. Untouched' /\ AudioStreamRegistered'
  BY <1>1, <1>5 DEF GiveUpEncoding, Synced, Fail, IInv, Untouched, AudioStreamRegistered, WorkerOnly
<1>8. Causes'
  BY <1>1 DEF GiveUpEncoding, Synced, Fail, IInv, Causes, Plain, Calm, Recovery
<1>9. Handed'
  BY <1>1, <1>5 DEF GiveUpEncoding, Synced, Fail, IInv, Handed
<1>10. Trial'
  BY <1>1, <1>5 DEF GiveUpEncoding, Synced, Fail, IInv, Trial, Epoch, Plain
<1>11. Epoch'
  <2>1. CASE seenGen = encGen
    BY <1>1, <1>5, <2>1 DEF GiveUpEncoding, Synced, Fail, IInv, Epoch, Handed, Causes, Decodable, Calm,
        Recovery, Leaving, Plain
  <2>2. CASE seenGen # encGen
    <3>1. /\ buffer'.held = {} /\ seenGen' = encGen /\ encGen' = encGen
          /\ pc' \in {"meta", "exit"} /\ cause' = cause
      BY <1>1, <2>2, ResetFields DEF GiveUpEncoding, Synced, Fail
    <3> QED
      BY <3>1 DEF Epoch, Decodable, Leaving
  <2> QED
    BY <2>1, <2>2
<1> QED
  BY <1>2, <1>3, <1>5, <1>6, <1>7, <1>8, <1>9, <1>10, <1>11 DEF IInv, Typed

\* Inserting what encode returned.
LEMMA InsertStep == ASSUME IInv, InsertPackets("insert", "events", "exit") PROVE IInv'
<1>1. /\ Plain /\ QueueTyped /\ buffer \in Buffers
      /\ encGen \in Generations /\ seenGen \in Generations /\ descGen \in Generations
      /\ inHand \subseteq Generations /\ faults \in Nat /\ encGen \in Nat
  BY GenerationBounds DEF IInv, Typed, Plain
<1>2. QueueTyped'
  BY <1>1, EventsTyped, PublishTyped, SilentTyped DEF InsertPackets, Fail, Fault
<1>3. encGen' \in Nat /\ faults' \in 0 .. MaxFaults /\ Counted'
  BY <1>1, MaxFaultsAssumption DEF InsertPackets, Fail, Fault, IInv, Counted, Plain, WorkerOnly
<1>4. encGen' \in Generations
  BY <1>3, CountedIn DEF Counted
<1>5. /\ buffer' \in Buffers /\ buffer'.streams = buffer.streams
      /\ buffer'.held = buffer.held \cup inHand /\ buffer'.desc = buffer.desc
  BY <1>1, InsertedFields DEF InsertPackets, Fail, Fault
<1>6. Plain'
  <2>1. pc' \in Places
    BY <1>1 DEF InsertPackets, Fail, Fault, Plain, WorkerOnly, Places, Calm, Recovery, Leaving
  <2>2. seenGen' \in Generations /\ descGen' \in Generations /\ inHand' \subseteq Generations
    BY <1>1, <1>4, <1>5 DEF InsertPackets, Fail, Fault
  <2>3. attempts' \in 0 .. RestartLimit - 1 /\ cause' \in {"none", "format", "loss"}
    BY <1>1, RestartLimitAssumption DEF InsertPackets, Fail, Fault, Plain
  <2>4. /\ probing' \in BOOLEAN /\ primedSent' \in BOOLEAN
        /\ fellBack' \in BOOLEAN /\ failed' \in BOOLEAN
    BY <1>1 DEF InsertPackets, Fail, Fault, Plain
  <2> QED
    BY <1>1, <1>3, <2>1, <2>2, <2>3, <2>4 DEF InsertPackets, Fail, Fault, Plain, WorkerOnly
<1>7. Untouched' /\ AudioStreamRegistered'
  BY <1>1, <1>5 DEF InsertPackets, Fail, Fault, IInv, Untouched, AudioStreamRegistered, WorkerOnly
<1>8. Causes'
  BY <1>1 DEF InsertPackets, Fail, Fault, IInv, Causes, Plain, Calm, Recovery
<1>9. Handed'
  BY <1>1, <1>5 DEF InsertPackets, Fail, Fault, IInv, Handed
<1>10. Trial'
  BY <1>1, <1>5 DEF InsertPackets, Fail, Fault, IInv, Trial, Epoch, Plain
<1>11. Epoch'
  BY <1>1, <1>5 DEF InsertPackets, Fail, Fault, IInv, Epoch, Handed, Trial, Causes,
      Decodable, Calm, Recovery, Leaving, Plain
<1> QED
  BY <1>2, <1>3, <1>5, <1>6, <1>7, <1>8, <1>9, <1>10, <1>11 DEF IInv, Typed

\* Inserting what the final drain returned.
LEMMA ExitInsertStep == ASSUME IInv, InsertPackets("exitInsert", "exitPrime", "exitEvents") PROVE IInv'
<1>1. /\ Plain /\ QueueTyped /\ buffer \in Buffers
      /\ encGen \in Generations /\ seenGen \in Generations /\ descGen \in Generations
      /\ inHand \subseteq Generations /\ faults \in Nat /\ encGen \in Nat
  BY GenerationBounds DEF IInv, Typed, Plain
<1>2. QueueTyped'
  BY <1>1, EventsTyped, PublishTyped, SilentTyped DEF InsertPackets, Fail, Fault
<1>3. encGen' \in Nat /\ faults' \in 0 .. MaxFaults /\ Counted'
  BY <1>1, MaxFaultsAssumption DEF InsertPackets, Fail, Fault, IInv, Counted, Plain, WorkerOnly
<1>4. encGen' \in Generations
  BY <1>3, CountedIn DEF Counted
<1>5. /\ buffer' \in Buffers /\ buffer'.streams = buffer.streams
      /\ buffer'.held = buffer.held \cup inHand /\ buffer'.desc = buffer.desc
  BY <1>1, InsertedFields DEF InsertPackets, Fail, Fault
<1>6. Plain'
  <2>1. pc' \in Places
    BY <1>1 DEF InsertPackets, Fail, Fault, Plain, WorkerOnly, Places, Calm, Recovery, Leaving
  <2>2. seenGen' \in Generations /\ descGen' \in Generations /\ inHand' \subseteq Generations
    BY <1>1, <1>4, <1>5 DEF InsertPackets, Fail, Fault
  <2>3. attempts' \in 0 .. RestartLimit - 1 /\ cause' \in {"none", "format", "loss"}
    BY <1>1, RestartLimitAssumption DEF InsertPackets, Fail, Fault, Plain
  <2>4. /\ probing' \in BOOLEAN /\ primedSent' \in BOOLEAN
        /\ fellBack' \in BOOLEAN /\ failed' \in BOOLEAN
    BY <1>1 DEF InsertPackets, Fail, Fault, Plain
  <2> QED
    BY <1>1, <1>3, <2>1, <2>2, <2>3, <2>4 DEF InsertPackets, Fail, Fault, Plain, WorkerOnly
<1>7. Untouched' /\ AudioStreamRegistered'
  BY <1>1, <1>5 DEF InsertPackets, Fail, Fault, IInv, Untouched, AudioStreamRegistered, WorkerOnly
<1>8. Causes'
  BY <1>1 DEF InsertPackets, Fail, Fault, IInv, Causes, Plain, Calm, Recovery
<1>9. Handed'
  BY <1>1, <1>5 DEF InsertPackets, Fail, Fault, IInv, Handed
<1>10. Trial'
  BY <1>1, <1>5 DEF InsertPackets, Fail, Fault, IInv, Trial, Epoch, Plain
<1>11. Epoch'
  BY <1>1, <1>5 DEF InsertPackets, Fail, Fault, IInv, Epoch, Handed, Trial, Causes,
      Decodable, Calm, Recovery, Leaving, Plain
<1> QED
  BY <1>2, <1>3, <1>5, <1>6, <1>7, <1>8, <1>9, <1>10, <1>11 DEF IInv, Typed

\* Reporting the encoder's events.
LEMMA ReportStep == ASSUME IInv, ReportEncoder("events", "prime") PROVE IInv'
<1>1. /\ Plain /\ QueueTyped /\ buffer \in Buffers
      /\ encGen \in Generations /\ seenGen \in Generations /\ descGen \in Generations
      /\ inHand \subseteq Generations /\ faults \in Nat /\ encGen \in Nat
  BY GenerationBounds DEF IInv, Typed, Plain
<1>2. QueueTyped'
  BY <1>1, EventsTyped, PublishTyped, SilentTyped DEF ReportEncoder
<1>3. encGen' \in Nat /\ faults' \in 0 .. MaxFaults /\ Counted'
  BY <1>1, MaxFaultsAssumption DEF ReportEncoder, IInv, Counted, Plain, WorkerOnly
<1>4. encGen' \in Generations
  BY <1>3, CountedIn DEF Counted
<1>5. buffer' = buffer /\ buffer' \in Buffers
  BY <1>1 DEF ReportEncoder
<1>6. Plain'
  <2>1. pc' \in Places
    BY <1>1 DEF ReportEncoder, Plain, WorkerOnly, Places, Calm, Recovery, Leaving
  <2>2. seenGen' \in Generations /\ descGen' \in Generations /\ inHand' \subseteq Generations
    BY <1>1, <1>4, <1>5 DEF ReportEncoder
  <2>3. attempts' \in 0 .. RestartLimit - 1 /\ cause' \in {"none", "format", "loss"}
    BY <1>1, RestartLimitAssumption DEF ReportEncoder, Plain
  <2>4. /\ probing' \in BOOLEAN /\ primedSent' \in BOOLEAN
        /\ fellBack' \in BOOLEAN /\ failed' \in BOOLEAN
    BY <1>1 DEF ReportEncoder, Plain
  <2> QED
    BY <1>1, <1>3, <2>1, <2>2, <2>3, <2>4 DEF ReportEncoder, Plain, WorkerOnly
<1>7. Untouched' /\ AudioStreamRegistered'
  BY <1>1, <1>5 DEF ReportEncoder, IInv, Untouched, AudioStreamRegistered, WorkerOnly
<1>8. Causes'
  BY <1>1 DEF ReportEncoder, IInv, Causes, Plain, Calm, Recovery
<1>9. Handed'
  BY <1>1, <1>5 DEF ReportEncoder, IInv, Handed
<1>10. Trial'
  BY <1>1, <1>5 DEF ReportEncoder, IInv, Trial, Epoch, Plain
<1>11. Epoch'
  BY <1>1, <1>5 DEF ReportEncoder, IInv, Epoch, Handed, Trial, Causes,
      Decodable, Calm, Recovery, Leaving, Plain
<1> QED
  BY <1>2, <1>3, <1>5, <1>6, <1>7, <1>8, <1>9, <1>10, <1>11 DEF IInv, Typed

\* Reporting the encoder's last events.
LEMMA ExitReportStep == ASSUME IInv, ReportEncoder("exitEvents", "done") PROVE IInv'
<1>1. /\ Plain /\ QueueTyped /\ buffer \in Buffers
      /\ encGen \in Generations /\ seenGen \in Generations /\ descGen \in Generations
      /\ inHand \subseteq Generations /\ faults \in Nat /\ encGen \in Nat
  BY GenerationBounds DEF IInv, Typed, Plain
<1>2. QueueTyped'
  BY <1>1, EventsTyped, PublishTyped, SilentTyped DEF ReportEncoder
<1>3. encGen' \in Nat /\ faults' \in 0 .. MaxFaults /\ Counted'
  BY <1>1, MaxFaultsAssumption DEF ReportEncoder, IInv, Counted, Plain, WorkerOnly
<1>4. encGen' \in Generations
  BY <1>3, CountedIn DEF Counted
<1>5. buffer' = buffer /\ buffer' \in Buffers
  BY <1>1 DEF ReportEncoder
<1>6. Plain'
  <2>1. pc' \in Places
    BY <1>1 DEF ReportEncoder, Plain, WorkerOnly, Places, Calm, Recovery, Leaving
  <2>2. seenGen' \in Generations /\ descGen' \in Generations /\ inHand' \subseteq Generations
    BY <1>1, <1>4, <1>5 DEF ReportEncoder
  <2>3. attempts' \in 0 .. RestartLimit - 1 /\ cause' \in {"none", "format", "loss"}
    BY <1>1, RestartLimitAssumption DEF ReportEncoder, Plain
  <2>4. /\ probing' \in BOOLEAN /\ primedSent' \in BOOLEAN
        /\ fellBack' \in BOOLEAN /\ failed' \in BOOLEAN
    BY <1>1 DEF ReportEncoder, Plain
  <2> QED
    BY <1>1, <1>3, <2>1, <2>2, <2>3, <2>4 DEF ReportEncoder, Plain, WorkerOnly
<1>7. Untouched' /\ AudioStreamRegistered'
  BY <1>1, <1>5 DEF ReportEncoder, IInv, Untouched, AudioStreamRegistered, WorkerOnly
<1>8. Causes'
  BY <1>1 DEF ReportEncoder, IInv, Causes, Plain, Calm, Recovery
<1>9. Handed'
  BY <1>1, <1>5 DEF ReportEncoder, IInv, Handed
<1>10. Trial'
  BY <1>1, <1>5 DEF ReportEncoder, IInv, Trial, Epoch, Plain
<1>11. Epoch'
  BY <1>1, <1>5 DEF ReportEncoder, IInv, Epoch, Handed, Trial, Causes,
      Decodable, Calm, Recovery, Leaving, Plain
<1> QED
  BY <1>2, <1>3, <1>5, <1>6, <1>7, <1>8, <1>9, <1>10, <1>11 DEF IInv, Typed

\* Reporting that the buffer is primed.
LEMMA PrimingStep == ASSUME IInv, ReportPriming("prime", "loop") PROVE IInv'
<1>1. /\ Plain /\ QueueTyped /\ buffer \in Buffers
      /\ encGen \in Generations /\ seenGen \in Generations /\ descGen \in Generations
      /\ inHand \subseteq Generations /\ faults \in Nat /\ encGen \in Nat
  BY GenerationBounds DEF IInv, Typed, Plain
<1>2. QueueTyped'
  BY <1>1, EventsTyped, PublishTyped, SilentTyped DEF ReportPriming
<1>3. encGen' \in Nat /\ faults' \in 0 .. MaxFaults /\ Counted'
  BY <1>1, MaxFaultsAssumption DEF ReportPriming, IInv, Counted, Plain, WorkerOnly
<1>4. encGen' \in Generations
  BY <1>3, CountedIn DEF Counted
<1>5. buffer' = buffer /\ buffer' \in Buffers
  BY <1>1 DEF ReportPriming
<1>6. Plain'
  <2>1. pc' \in Places
    BY <1>1 DEF ReportPriming, Plain, WorkerOnly, Places, Calm, Recovery, Leaving
  <2>2. seenGen' \in Generations /\ descGen' \in Generations /\ inHand' \subseteq Generations
    BY <1>1, <1>4, <1>5 DEF ReportPriming
  <2>3. attempts' \in 0 .. RestartLimit - 1 /\ cause' \in {"none", "format", "loss"}
    BY <1>1, RestartLimitAssumption DEF ReportPriming, Plain
  <2>4. /\ probing' \in BOOLEAN /\ primedSent' \in BOOLEAN
        /\ fellBack' \in BOOLEAN /\ failed' \in BOOLEAN
    BY <1>1 DEF ReportPriming, Plain
  <2> QED
    BY <1>1, <1>3, <2>1, <2>2, <2>3, <2>4 DEF ReportPriming, Plain, WorkerOnly
<1>7. Untouched' /\ AudioStreamRegistered'
  BY <1>1, <1>5 DEF ReportPriming, IInv, Untouched, AudioStreamRegistered, WorkerOnly
<1>8. Causes'
  BY <1>1 DEF ReportPriming, IInv, Causes, Plain, Calm, Recovery
<1>9. Handed'
  BY <1>1, <1>5 DEF ReportPriming, IInv, Handed
<1>10. Trial'
  BY <1>1, <1>5 DEF ReportPriming, IInv, Trial, Epoch, Plain
<1>11. Epoch'
  BY <1>1, <1>5 DEF ReportPriming, IInv, Epoch, Handed, Trial, Causes,
      Decodable, Calm, Recovery, Leaving, Plain
<1> QED
  BY <1>2, <1>3, <1>5, <1>6, <1>7, <1>8, <1>9, <1>10, <1>11 DEF IInv, Typed

\* Reporting it on the way out.
LEMMA ExitPrimingStep == ASSUME IInv, ReportPriming("exitPrime", "exitEvents") PROVE IInv'
<1>1. /\ Plain /\ QueueTyped /\ buffer \in Buffers
      /\ encGen \in Generations /\ seenGen \in Generations /\ descGen \in Generations
      /\ inHand \subseteq Generations /\ faults \in Nat /\ encGen \in Nat
  BY GenerationBounds DEF IInv, Typed, Plain
<1>2. QueueTyped'
  BY <1>1, EventsTyped, PublishTyped, SilentTyped DEF ReportPriming
<1>3. encGen' \in Nat /\ faults' \in 0 .. MaxFaults /\ Counted'
  BY <1>1, MaxFaultsAssumption DEF ReportPriming, IInv, Counted, Plain, WorkerOnly
<1>4. encGen' \in Generations
  BY <1>3, CountedIn DEF Counted
<1>5. buffer' = buffer /\ buffer' \in Buffers
  BY <1>1 DEF ReportPriming
<1>6. Plain'
  <2>1. pc' \in Places
    BY <1>1 DEF ReportPriming, Plain, WorkerOnly, Places, Calm, Recovery, Leaving
  <2>2. seenGen' \in Generations /\ descGen' \in Generations /\ inHand' \subseteq Generations
    BY <1>1, <1>4, <1>5 DEF ReportPriming
  <2>3. attempts' \in 0 .. RestartLimit - 1 /\ cause' \in {"none", "format", "loss"}
    BY <1>1, RestartLimitAssumption DEF ReportPriming, Plain
  <2>4. /\ probing' \in BOOLEAN /\ primedSent' \in BOOLEAN
        /\ fellBack' \in BOOLEAN /\ failed' \in BOOLEAN
    BY <1>1 DEF ReportPriming, Plain
  <2> QED
    BY <1>1, <1>3, <2>1, <2>2, <2>3, <2>4 DEF ReportPriming, Plain, WorkerOnly
<1>7. Untouched' /\ AudioStreamRegistered'
  BY <1>1, <1>5 DEF ReportPriming, IInv, Untouched, AudioStreamRegistered, WorkerOnly
<1>8. Causes'
  BY <1>1 DEF ReportPriming, IInv, Causes, Plain, Calm, Recovery
<1>9. Handed'
  BY <1>1, <1>5 DEF ReportPriming, IInv, Handed
<1>10. Trial'
  BY <1>1, <1>5 DEF ReportPriming, IInv, Trial, Epoch, Plain
<1>11. Epoch'
  BY <1>1, <1>5 DEF ReportPriming, IInv, Epoch, Handed, Trial, Causes,
      Decodable, Calm, Recovery, Leaving, Plain
<1> QED
  BY <1>2, <1>3, <1>5, <1>6, <1>7, <1>8, <1>9, <1>10, <1>11 DEF IInv, Typed

\* A new format or a lost source: a fault, so the generations it will cost are paid for.
LEMMA DisturbedStep == ASSUME IInv, CaptureDisturbed PROVE IInv'
<1>1. /\ Plain /\ QueueTyped /\ buffer \in Buffers
      /\ encGen \in Generations /\ seenGen \in Generations /\ descGen \in Generations
      /\ inHand \subseteq Generations /\ faults \in Nat /\ encGen \in Nat
  BY GenerationBounds DEF IInv, Typed, Plain
<1>2. QueueTyped'
  BY <1>1, EventsTyped, PublishTyped, SilentTyped DEF CaptureDisturbed, Fail, Fault
<1>3. encGen' \in Nat /\ faults' \in 0 .. MaxFaults /\ Counted'
  BY <1>1, MaxFaultsAssumption DEF CaptureDisturbed, Fail, Fault, IInv, Counted, Plain, WorkerOnly
<1>4. encGen' \in Generations
  BY <1>3, CountedIn DEF Counted
<1>5. buffer' = buffer /\ buffer' \in Buffers
  BY <1>1 DEF CaptureDisturbed, Fail, Fault
<1>6. Plain'
  <2>1. pc' \in Places
    BY <1>1 DEF CaptureDisturbed, Fail, Fault, Plain, WorkerOnly, Places, Calm, Recovery, Leaving
  <2>2. seenGen' \in Generations /\ descGen' \in Generations /\ inHand' \subseteq Generations
    BY <1>1, <1>4, <1>5 DEF CaptureDisturbed, Fail, Fault
  <2>3. attempts' \in 0 .. RestartLimit - 1 /\ cause' \in {"none", "format", "loss"}
    BY <1>1, RestartLimitAssumption DEF CaptureDisturbed, Fail, Fault, Plain
  <2>4. /\ probing' \in BOOLEAN /\ primedSent' \in BOOLEAN
        /\ fellBack' \in BOOLEAN /\ failed' \in BOOLEAN
    BY <1>1 DEF CaptureDisturbed, Fail, Fault, Plain
  <2> QED
    BY <1>1, <1>3, <2>1, <2>2, <2>3, <2>4 DEF CaptureDisturbed, Fail, Fault, Plain, WorkerOnly
<1>7. Untouched' /\ AudioStreamRegistered'
  BY <1>1, <1>5 DEF CaptureDisturbed, Fail, Fault, IInv, Untouched, AudioStreamRegistered, WorkerOnly
<1>8. Causes'
  BY <1>1 DEF CaptureDisturbed, Fail, Fault, IInv, Causes, Plain, Calm, Recovery
<1>9. Handed'
  BY <1>1, <1>5 DEF CaptureDisturbed, Fail, Fault, IInv, Handed
<1>10. Trial'
  BY <1>1, <1>5 DEF CaptureDisturbed, Fail, Fault, IInv, Trial, Epoch, Plain
<1>11. Epoch'
  BY <1>1, <1>5 DEF CaptureDisturbed, Fail, Fault, IInv, Epoch, Handed, Trial, Causes,
      Decodable, Calm, Recovery, Leaving, Plain
<1> QED
  BY <1>2, <1>3, <1>5, <1>6, <1>7, <1>8, <1>9, <1>10, <1>11 DEF IInv, Typed

\* The end of the capture.
LEMMA CaptureEndsStep == ASSUME IInv, CaptureEnds PROVE IInv'
<1>1. /\ Plain /\ QueueTyped /\ buffer \in Buffers
      /\ encGen \in Generations /\ seenGen \in Generations /\ descGen \in Generations
      /\ inHand \subseteq Generations /\ faults \in Nat /\ encGen \in Nat
  BY GenerationBounds DEF IInv, Typed, Plain
<1>2. QueueTyped'
  BY <1>1, EventsTyped, PublishTyped, SilentTyped DEF CaptureEnds, Fail, Fault
<1>3. encGen' \in Nat /\ faults' \in 0 .. MaxFaults /\ Counted'
  BY <1>1, MaxFaultsAssumption DEF CaptureEnds, Fail, Fault, IInv, Counted, Plain, WorkerOnly
<1>4. encGen' \in Generations
  BY <1>3, CountedIn DEF Counted
<1>5. buffer' = buffer /\ buffer' \in Buffers
  BY <1>1 DEF CaptureEnds, Fail, Fault
<1>6. Plain'
  <2>1. pc' \in Places
    BY <1>1 DEF CaptureEnds, Fail, Fault, Plain, WorkerOnly, Places, Calm, Recovery, Leaving
  <2>2. seenGen' \in Generations /\ descGen' \in Generations /\ inHand' \subseteq Generations
    BY <1>1, <1>4, <1>5 DEF CaptureEnds, Fail, Fault
  <2>3. attempts' \in 0 .. RestartLimit - 1 /\ cause' \in {"none", "format", "loss"}
    BY <1>1, RestartLimitAssumption DEF CaptureEnds, Fail, Fault, Plain
  <2>4. /\ probing' \in BOOLEAN /\ primedSent' \in BOOLEAN
        /\ fellBack' \in BOOLEAN /\ failed' \in BOOLEAN
    BY <1>1 DEF CaptureEnds, Fail, Fault, Plain
  <2> QED
    BY <1>1, <1>3, <2>1, <2>2, <2>3, <2>4 DEF CaptureEnds, Fail, Fault, Plain, WorkerOnly
<1>7. Untouched' /\ AudioStreamRegistered'
  BY <1>1, <1>5 DEF CaptureEnds, Fail, Fault, IInv, Untouched, AudioStreamRegistered, WorkerOnly
<1>8. Causes'
  BY <1>1 DEF CaptureEnds, Fail, Fault, IInv, Causes, Plain, Calm, Recovery
<1>9. Handed'
  BY <1>1, <1>5 DEF CaptureEnds, Fail, Fault, IInv, Handed
<1>10. Trial'
  BY <1>1, <1>5 DEF CaptureEnds, Fail, Fault, IInv, Trial, Epoch, Plain
<1>11. Epoch'
  BY <1>1, <1>5 DEF CaptureEnds, Fail, Fault, IInv, Epoch, Handed, Trial, Causes,
      Decodable, Calm, Recovery, Leaving, Plain
<1> QED
  BY <1>2, <1>3, <1>5, <1>6, <1>7, <1>8, <1>9, <1>10, <1>11 DEF IInv, Typed

\* Draining the old generation into a buffer that is of that generation.
LEMMA DrainStep == ASSUME IInv, DrainForRecovery PROVE IInv'
<1>1. /\ Plain /\ QueueTyped /\ buffer \in Buffers
      /\ encGen \in Generations /\ seenGen \in Generations /\ descGen \in Generations
      /\ inHand \subseteq Generations /\ faults \in Nat /\ encGen \in Nat
  BY GenerationBounds DEF IInv, Typed, Plain
<1>2. QueueTyped'
  BY <1>1, EventsTyped, PublishTyped, SilentTyped DEF DrainForRecovery
<1>3. encGen' \in Nat /\ faults' \in 0 .. MaxFaults /\ Counted'
  BY <1>1, MaxFaultsAssumption DEF DrainForRecovery, IInv, Counted, Plain, WorkerOnly
<1>4. encGen' \in Generations
  BY <1>3, CountedIn DEF Counted
<1>5. /\ buffer' \in Buffers /\ buffer'.streams = buffer.streams
      /\ buffer'.held \in {buffer.held, buffer.held \cup {encGen}}
  <2>1. CASE buffer' = buffer
    BY <1>1, <2>1
  <2>2. CASE buffer' \in Inserted(buffer, {})
    BY <1>1, <2>2 DEF Inserted
  <2>3. CASE buffer' \in Inserted(buffer, {encGen})
    BY <1>1, <2>3, InsertedFields
  <2> QED
    BY <2>1, <2>2, <2>3 DEF DrainForRecovery
<1>6. Plain'
  <2>1. pc' \in Places
    BY <1>1 DEF DrainForRecovery, Plain, WorkerOnly, Places, Calm, Recovery, Leaving
  <2>2. seenGen' \in Generations /\ descGen' \in Generations /\ inHand' \subseteq Generations
    BY <1>1, <1>4, <1>5 DEF DrainForRecovery
  <2>3. attempts' \in 0 .. RestartLimit - 1 /\ cause' \in {"none", "format", "loss"}
    BY <1>1, RestartLimitAssumption DEF DrainForRecovery, Plain
  <2>4. /\ probing' \in BOOLEAN /\ primedSent' \in BOOLEAN
        /\ fellBack' \in BOOLEAN /\ failed' \in BOOLEAN
    BY <1>1 DEF DrainForRecovery, Plain
  <2> QED
    BY <1>1, <1>3, <2>1, <2>2, <2>3, <2>4 DEF DrainForRecovery, Plain, WorkerOnly
<1>7. Untouched' /\ AudioStreamRegistered'
  BY <1>1, <1>5 DEF DrainForRecovery, IInv, Untouched, AudioStreamRegistered, WorkerOnly
<1>8. Causes'
  BY <1>1 DEF DrainForRecovery, IInv, Causes, Plain, Calm, Recovery
<1>9. Handed'
  BY <1>1, <1>5 DEF DrainForRecovery, IInv, Handed
<1>10. Trial'
  BY <1>1, <1>5 DEF DrainForRecovery, IInv, Trial, Epoch, Plain
<1>11. Epoch'
  BY <1>1, <1>5 DEF DrainForRecovery, IInv, Epoch, Handed, Trial, Causes,
      Decodable, Calm, Recovery, Leaving, Plain
<1> QED
  BY <1>2, <1>3, <1>5, <1>6, <1>7, <1>8, <1>9, <1>10, <1>11 DEF IInv, Typed

\* One attempt to restart the capture.
LEMMA RestartStep == ASSUME IInv, RestartCapture PROVE IInv'
<1>1. /\ Plain /\ QueueTyped /\ buffer \in Buffers
      /\ encGen \in Generations /\ seenGen \in Generations /\ descGen \in Generations
      /\ inHand \subseteq Generations /\ faults \in Nat /\ encGen \in Nat
  BY GenerationBounds DEF IInv, Typed, Plain
<1>2. QueueTyped'
  BY <1>1, EventsTyped, PublishTyped, SilentTyped DEF RestartCapture, Fail
<1>3. encGen' \in Nat /\ faults' \in 0 .. MaxFaults /\ Counted'
  BY <1>1, MaxFaultsAssumption DEF RestartCapture, Fail, IInv, Counted, Plain, WorkerOnly
<1>4. encGen' \in Generations
  BY <1>3, CountedIn DEF Counted
<1>5. buffer' = buffer /\ buffer' \in Buffers
  BY <1>1 DEF RestartCapture, Fail
<1>6. Plain'
  <2>1. pc' \in Places
    BY <1>1 DEF RestartCapture, Fail, Plain, WorkerOnly, Places, Calm, Recovery, Leaving
  <2>2. seenGen' \in Generations /\ descGen' \in Generations /\ inHand' \subseteq Generations
    BY <1>1, <1>4, <1>5 DEF RestartCapture, Fail
  <2>3. attempts' \in 0 .. RestartLimit - 1 /\ cause' \in {"none", "format", "loss"}
    BY <1>1, RestartLimitAssumption DEF RestartCapture, Fail, Plain
  <2>4. /\ probing' \in BOOLEAN /\ primedSent' \in BOOLEAN
        /\ fellBack' \in BOOLEAN /\ failed' \in BOOLEAN
    BY <1>1 DEF RestartCapture, Fail, Plain
  <2> QED
    BY <1>1, <1>3, <2>1, <2>2, <2>3, <2>4 DEF RestartCapture, Fail, Plain, WorkerOnly
<1>7. Untouched' /\ AudioStreamRegistered'
  BY <1>1, <1>5 DEF RestartCapture, Fail, IInv, Untouched, AudioStreamRegistered, WorkerOnly
<1>8. Causes'
  BY <1>1 DEF RestartCapture, Fail, IInv, Causes, Plain, Calm, Recovery
<1>9. Handed'
  BY <1>1, <1>5 DEF RestartCapture, Fail, IInv, Handed
<1>10. Trial'
  BY <1>1, <1>5 DEF RestartCapture, Fail, IInv, Trial, Epoch, Plain
<1>11. Epoch'
  BY <1>1, <1>5 DEF RestartCapture, Fail, IInv, Epoch, Handed, Trial, Causes,
      Decodable, Calm, Recovery, Leaving, Plain
<1> QED
  BY <1>2, <1>3, <1>5, <1>6, <1>7, <1>8, <1>9, <1>10, <1>11 DEF IInv, Typed

\* The new epoch of a recovery.
LEMMA ResetStep == ASSUME IInv, ResetAfterRecovery PROVE IInv'
<1>1. /\ Plain /\ QueueTyped /\ buffer \in Buffers
      /\ encGen \in Generations /\ seenGen \in Generations /\ descGen \in Generations
      /\ inHand \subseteq Generations /\ faults \in Nat /\ encGen \in Nat
  BY GenerationBounds DEF IInv, Typed, Plain
<1>2. QueueTyped'
  BY <1>1, EventsTyped, PublishTyped, SilentTyped DEF ResetAfterRecovery
<1>3. encGen' \in Nat /\ faults' \in 0 .. MaxFaults /\ Counted'
  BY <1>1, MaxFaultsAssumption DEF ResetAfterRecovery, IInv, Counted, Plain, WorkerOnly
<1>4. encGen' \in Generations
  BY <1>3, CountedIn DEF Counted
<1>5. /\ buffer' \in Buffers
      /\ buffer'.streams \in {buffer.streams, buffer.streams \cup {"video"}}
      /\ buffer' = buffer \/ buffer'.held = {}
  BY <1>1, ResetFields DEF ResetAfterRecovery
<1>6. Plain'
  <2>1. pc' \in Places
    BY <1>1 DEF ResetAfterRecovery, Plain, WorkerOnly, Places, Calm, Recovery, Leaving
  <2>2. seenGen' \in Generations /\ descGen' \in Generations /\ inHand' \subseteq Generations
    BY <1>1, <1>4, <1>5 DEF ResetAfterRecovery
  <2>3. attempts' \in 0 .. RestartLimit - 1 /\ cause' \in {"none", "format", "loss"}
    BY <1>1, RestartLimitAssumption DEF ResetAfterRecovery, Plain
  <2>4. /\ probing' \in BOOLEAN /\ primedSent' \in BOOLEAN
        /\ fellBack' \in BOOLEAN /\ failed' \in BOOLEAN
    BY <1>1 DEF ResetAfterRecovery, Plain
  <2> QED
    BY <1>1, <1>3, <2>1, <2>2, <2>3, <2>4 DEF ResetAfterRecovery, Plain, WorkerOnly
<1>7. Untouched' /\ AudioStreamRegistered'
  BY <1>1, <1>5 DEF ResetAfterRecovery, IInv, Untouched, AudioStreamRegistered, WorkerOnly
<1>8. Causes'
  BY <1>1 DEF ResetAfterRecovery, IInv, Causes, Plain, Calm, Recovery
<1>9. Handed'
  BY <1>1, <1>5 DEF ResetAfterRecovery, IInv, Handed
<1>10. Trial'
  BY <1>1, <1>5 DEF ResetAfterRecovery, IInv, Trial, Epoch, Plain
<1>11. Epoch'
  BY <1>1, <1>5 DEF ResetAfterRecovery, IInv, Epoch, Handed, Trial, Causes,
      Decodable, Calm, Recovery, Leaving, Plain
<1> QED
  BY <1>2, <1>3, <1>5, <1>6, <1>7, <1>8, <1>9, <1>10, <1>11 DEF IInv, Typed

\* The end of a recovery.
LEMMA CompleteStep == ASSUME IInv, CompleteRecovery PROVE IInv'
<1>1. /\ Plain /\ QueueTyped /\ buffer \in Buffers
      /\ encGen \in Generations /\ seenGen \in Generations /\ descGen \in Generations
      /\ inHand \subseteq Generations /\ faults \in Nat /\ encGen \in Nat
  BY GenerationBounds DEF IInv, Typed, Plain
<1>2. QueueTyped'
  BY <1>1, EventsTyped, PublishTyped, SilentTyped DEF CompleteRecovery
<1>3. encGen' \in Nat /\ faults' \in 0 .. MaxFaults /\ Counted'
  BY <1>1, MaxFaultsAssumption DEF CompleteRecovery, IInv, Counted, Plain, WorkerOnly
<1>4. encGen' \in Generations
  BY <1>3, CountedIn DEF Counted
<1>5. buffer' = buffer /\ buffer' \in Buffers
  BY <1>1 DEF CompleteRecovery
<1>6. Plain'
  <2>1. pc' \in Places
    BY <1>1 DEF CompleteRecovery, Plain, WorkerOnly, Places, Calm, Recovery, Leaving
  <2>2. seenGen' \in Generations /\ descGen' \in Generations /\ inHand' \subseteq Generations
    BY <1>1, <1>4, <1>5 DEF CompleteRecovery
  <2>3. attempts' \in 0 .. RestartLimit - 1 /\ cause' \in {"none", "format", "loss"}
    BY <1>1, RestartLimitAssumption DEF CompleteRecovery, Plain
  <2>4. /\ probing' \in BOOLEAN /\ primedSent' \in BOOLEAN
        /\ fellBack' \in BOOLEAN /\ failed' \in BOOLEAN
    BY <1>1 DEF CompleteRecovery, Plain
  <2> QED
    BY <1>1, <1>3, <2>1, <2>2, <2>3, <2>4 DEF CompleteRecovery, Plain, WorkerOnly
<1>7. Untouched' /\ AudioStreamRegistered'
  BY <1>1, <1>5 DEF CompleteRecovery, IInv, Untouched, AudioStreamRegistered, WorkerOnly
<1>8. Causes'
  BY <1>1 DEF CompleteRecovery, IInv, Causes, Plain, Calm, Recovery
<1>9. Handed'
  BY <1>1, <1>5 DEF CompleteRecovery, IInv, Handed
<1>10. Trial'
  BY <1>1, <1>5 DEF CompleteRecovery, IInv, Trial, Epoch, Plain
<1>11. Epoch'
  BY <1>1, <1>5 DEF CompleteRecovery, IInv, Epoch, Handed, Trial, Causes,
      Decodable, Calm, Recovery, Leaving, Plain
<1> QED
  BY <1>2, <1>3, <1>5, <1>6, <1>7, <1>8, <1>9, <1>10, <1>11 DEF IInv, Typed

\* The final drain.
LEMMA FinalDrainStep == ASSUME IInv, FinalDrain PROVE IInv'
<1>1. /\ Plain /\ QueueTyped /\ buffer \in Buffers
      /\ encGen \in Generations /\ seenGen \in Generations /\ descGen \in Generations
      /\ inHand \subseteq Generations /\ faults \in Nat /\ encGen \in Nat
  BY GenerationBounds DEF IInv, Typed, Plain
<1>2. QueueTyped'
  BY <1>1, EventsTyped, PublishTyped, SilentTyped DEF FinalDrain, Fail
<1>3. encGen' \in Nat /\ faults' \in 0 .. MaxFaults /\ Counted'
  BY <1>1, MaxFaultsAssumption DEF FinalDrain, Fail, IInv, Counted, Plain, WorkerOnly
<1>4. encGen' \in Generations
  BY <1>3, CountedIn DEF Counted
<1>5. buffer' = buffer /\ buffer' \in Buffers
  BY <1>1 DEF FinalDrain, Fail
<1>6. Plain'
  <2>1. pc' \in Places
    BY <1>1 DEF FinalDrain, Fail, Plain, WorkerOnly, Places, Calm, Recovery, Leaving
  <2>2. seenGen' \in Generations /\ descGen' \in Generations /\ inHand' \subseteq Generations
    BY <1>1, <1>4, <1>5 DEF FinalDrain, Fail
  <2>3. attempts' \in 0 .. RestartLimit - 1 /\ cause' \in {"none", "format", "loss"}
    BY <1>1, RestartLimitAssumption DEF FinalDrain, Fail, Plain
  <2>4. /\ probing' \in BOOLEAN /\ primedSent' \in BOOLEAN
        /\ fellBack' \in BOOLEAN /\ failed' \in BOOLEAN
    BY <1>1 DEF FinalDrain, Fail, Plain
  <2> QED
    BY <1>1, <1>3, <2>1, <2>2, <2>3, <2>4 DEF FinalDrain, Fail, Plain, WorkerOnly
<1>7. Untouched' /\ AudioStreamRegistered'
  BY <1>1, <1>5 DEF FinalDrain, Fail, IInv, Untouched, AudioStreamRegistered, WorkerOnly
<1>8. Causes'
  BY <1>1 DEF FinalDrain, Fail, IInv, Causes, Plain, Calm, Recovery
<1>9. Handed'
  BY <1>1, <1>5 DEF FinalDrain, Fail, IInv, Handed
<1>10. Trial'
  BY <1>1, <1>5 DEF FinalDrain, Fail, IInv, Trial, Epoch, Plain
<1>11. Epoch'
  BY <1>1, <1>5 DEF FinalDrain, Fail, IInv, Epoch, Handed, Trial, Causes,
      Decodable, Calm, Recovery, Leaving, Plain
<1> QED
  BY <1>2, <1>3, <1>5, <1>6, <1>7, <1>8, <1>9, <1>10, <1>11 DEF IInv, Typed

-----------------------------------------------------------------------------
(* The controller and the audio worker.                                       *)

\* The lifecycle table: where it leads, how an engine gets out of Error, and that
\* nothing but start leaves Stopped.
LEMMA Lifecycle ==
    /\ \A from \in States : AllowedTransitions(from) \subseteq States
    /\ AllowedTransitions("Error") = {"Starting", "Stopping"}
    /\ AllowedTransitions("Stopped") = {"Starting"}
BY DEF AllowedTransitions, States

\* What one number of faults pays for, a greater number pays for.
LEMMA MoreFaults ==
    ASSUME NEW g \in Nat, NEW f \in Nat, NEW h \in Nat, f <= h
    PROVE  (g <= 2 * f => g <= 2 * h) /\ (g <= 2 * f + 1 => g <= 2 * h + 1)
OBVIOUS

\* A step that leaves the video worker and the streams alone, empties or keeps the
\* buffer, and is no step of untaken components, preserves what concerns the worker.
LEMMA WorkerKeeps ==
    ASSUME IInv, UNCHANGED worker, faults' \in faults .. MaxFaults,
           buffer'.held \in {{}, buffer.held}, buffer'.desc = buffer.desc
    PROVE  Counted' /\ Causes' /\ Handed' /\ Trial' /\ Epoch'
<1>1. encGen \in Nat /\ faults \in Nat /\ faults' \in Nat /\ faults <= faults'
  BY MaxFaultsAssumption DEF IInv, Typed, Plain
<1>2. UNCHANGED <<pc, cause, probing, encGen, seenGen, inHand>>
  BY DEF worker
<1>3. Counted'
  <2>1. /\ encGen <= 2 * faults => encGen <= 2 * faults'
        /\ encGen <= 2 * faults + 1 => encGen <= 2 * faults' + 1
    BY <1>1, MoreFaults
  <2> QED
    BY <1>1, <1>2, <2>1 DEF IInv, Counted
<1>4. Causes'
  BY <1>2 DEF IInv, Causes
<1>5. Handed'
  BY <1>2 DEF IInv, Handed
<1>6. Trial'
  BY <1>2 DEF IInv, Trial
<1>7. Epoch'
  BY <1>2 DEF IInv, Epoch, Decodable
<1> QED
  BY <1>3, <1>4, <1>5, <1>6, <1>7

\* The variables of the invariant a controller step leaves alone, typed.
LEMMA WorkerTyped ==
    ASSUME IInv, UNCHANGED worker, faults' \in faults .. MaxFaults
    PROVE  /\ pc' \in Places /\ cause' \in {"none", "format", "loss"}
           /\ attempts' \in 0 .. RestartLimit - 1
           /\ probing' \in BOOLEAN
           /\ encGen' \in Nat /\ seenGen' \in Generations /\ descGen' \in Generations
           /\ inHand' \subseteq Generations
           /\ primedSent' \in BOOLEAN /\ fellBack' \in BOOLEAN /\ failed' \in BOOLEAN
           /\ faults' \in 0 .. MaxFaults
BY MaxFaultsAssumption DEF IInv, Typed, Plain, worker

\* start takes components that nobody had taken, so of an engine that has done
\* nothing.
LEMMA StartStep == ASSUME IInv, Start PROVE IInv'
<1>1. Plain /\ QueueTyped /\ buffer \in Buffers /\ MaxFaults \in Nat
  BY MaxFaultsAssumption DEF IInv, Typed
<1>2. /\ pc = "none" /\ cause = "none" /\ encGen = 0 /\ inHand = {}
      /\ buffer.held = {}
  BY DEF Start, IInv, Untouched
<1>3. QueueTyped'
  BY <1>1, EventsTyped, PublishTyped DEF Start
<1>4. /\ buffer' \in Buffers /\ buffer'.held = {} /\ buffer'.streams = {"video", "audio"}
  BY <1>1, <1>2 DEF Start, Buffers
<1>5. Plain'
  BY <1>1 DEF Start, Plain, States, Places
<1>6. Counted' /\ Untouched' /\ AudioStreamRegistered'
  BY <1>1, <1>2, <1>4 DEF Start, Plain, Counted, Untouched, AudioStreamRegistered
<1>7. Causes' /\ Handed' /\ Trial' /\ Epoch'
  BY <1>2, <1>4
  DEF Start, Causes, Handed, Trial, Epoch, Decodable, Calm, Recovery, Leaving
<1> QED
  BY <1>3, <1>4, <1>5, <1>6, <1>7 DEF IInv, Typed

\* The rejected start: no worker runs, so nobody misses a stream.
LEMMA StartClashStep == ASSUME IInv, StartClash PROVE IInv'
<1>1. Plain /\ QueueTyped /\ buffer \in Buffers /\ faults' \in faults .. MaxFaults
  BY MaxFaultsAssumption DEF IInv, Typed, StartClash, Plain
<1>2. audio = "none" /\ UNCHANGED worker
  BY DEF StartClash, IInv, Untouched
<1>3. QueueTyped'
  BY <1>1, EventsTyped, PublishTyped DEF StartClash, TransitionTo
<1>4. /\ buffer' \in Buffers /\ buffer'.held = buffer.held /\ buffer'.desc = buffer.desc
  BY <1>1 DEF StartClash, Buffers
<1>5. Plain'
  BY <1>1, <1>2, WorkerTyped, Lifecycle DEF StartClash, TransitionTo, Plain
<1>6. Untouched' /\ AudioStreamRegistered'
  BY <1>2 DEF StartClash, Untouched, AudioStreamRegistered
<1>7. Counted' /\ Causes' /\ Handed' /\ Trial' /\ Epoch'
  BY <1>1, <1>2, <1>4, WorkerKeeps
<1> QED
  BY <1>3, <1>4, <1>5, <1>6, <1>7 DEF IInv, Typed

\* One event: an engine that has done nothing has no event to handle.
LEMMA PumpEventStep == ASSUME IInv, PumpEvent PROVE IInv'
<1>1. /\ Plain /\ QueueTyped /\ buffer \in Buffers /\ faults' \in faults .. MaxFaults
      /\ UNCHANGED <<buffer, worker, audio, parts>>
  BY MaxFaultsAssumption DEF IInv, Typed, PumpEvent, Plain
<1>2. QueueTyped'
  BY <1>1, HandleTyped DEF PumpEvent
<1>3. state' \in States
  BY <1>1 DEF PumpEvent, Handle, Ignore, Plain, States
<1>4. Plain'
  BY <1>1, <1>3, WorkerTyped DEF PumpEvent, Plain
<1>5. ~ parts
  BY DEF PumpEvent, IInv, Untouched
<1>6. Untouched' /\ AudioStreamRegistered'
  BY <1>1, <1>5 DEF IInv, Untouched, AudioStreamRegistered
<1>7. Counted' /\ Causes' /\ Handed' /\ Trial' /\ Epoch'
  BY <1>1, WorkerKeeps
<1> QED
  BY <1>1, <1>2, <1>4, <1>6, <1>7 DEF IInv, Typed

\* The other steps of pump, and stop.
LEMMA PumpStopStep ==
    ASSUME IInv, PumpBegin \/ PumpPromote \/ PumpEnd \/ StopBegin \/ StopEnd
    PROVE  IInv'
<1>1. /\ Plain /\ QueueTyped /\ buffer \in Buffers /\ faults' \in faults .. MaxFaults
      /\ UNCHANGED <<buffer, worker, audio>>
  BY MaxFaultsAssumption
  DEF IInv, Typed, PumpBegin, PumpPromote, PumpEnd, StopBegin, StopEnd, Plain
<1>2. QueueTyped'
  <2>1. CASE PumpBegin \/ PumpEnd
    BY <1>1, <2>1 DEF PumpBegin, PumpEnd, QueueTyped
  <2>2. CASE PumpPromote
    BY <1>1, <2>2, EventsTyped, PublishTyped, SilentTyped DEF PumpPromote, TransitionTo
  <2>3. CASE StopBegin \/ StopEnd
    BY <1>1, <2>3, EventsTyped, PublishTyped DEF StopBegin, StopEnd, TransitionTo
  <2> QED
    BY <2>1, <2>2, <2>3
<1>3. state' \in States /\ parts' \in BOOLEAN /\ shutdown' \in BOOLEAN
      /\ ctl' \in {"idle", "drain", "drainAgain", "joining"}
  BY <1>1, Lifecycle
  DEF PumpBegin, PumpPromote, PumpEnd, StopBegin, StopEnd, TransitionTo, Plain
<1>4. Plain'
  BY <1>1, <1>3, WorkerTyped DEF Plain
<1>5. Untouched'
  BY <1>1
  DEF PumpBegin, PumpPromote, PumpEnd, StopBegin, StopEnd, PromoteIfPrimed, IsActive,
      IInv, Untouched, worker, Silent
<1>6. AudioStreamRegistered'
  BY <1>1 DEF IInv, AudioStreamRegistered
<1>7. Counted' /\ Causes' /\ Handed' /\ Trial' /\ Epoch'
  BY <1>1, WorkerKeeps
<1> QED
  BY <1>1, <1>2, <1>4, <1>5, <1>6, <1>7 DEF IInv, Typed

\* Retention and resume at most empty the buffer.  An empty buffer that nobody has
\* registered in stays unprimed, and Stopped is not left by a resume.
LEMMA RetainStep == ASSUME IInv, SetRetention \/ Resume PROVE IInv'
<1>1. /\ Plain /\ QueueTyped /\ buffer \in Buffers /\ faults' \in faults .. MaxFaults
      /\ UNCHANGED <<worker, audio, parts, ctl>>
  <2>1. Plain /\ QueueTyped /\ buffer \in Buffers /\ Fault
    BY DEF IInv, Typed, SetRetention, Resume
  <2>2. faults' \in faults .. MaxFaults
    BY <2>1, MaxFaultsAssumption DEF Fault, Plain
  <2> QED
    BY <2>1, <2>2 DEF SetRetention, Resume
<1>2. QueueTyped'
  BY <1>1, EventsTyped, PublishTyped DEF SetRetention, Resume, QueueTyped
<1>3. /\ buffer' \in Buffers /\ buffer'.held \in {{}, buffer.held}
      /\ buffer'.desc = buffer.desc /\ buffer'.streams = buffer.streams
  BY <1>1 DEF SetRetention, Resume, Buffers
<1>4. Plain'
  BY <1>1, WorkerTyped DEF SetRetention, Resume, Plain, States
<1>5. Untouched'
  <2>1. CASE SetRetention
    BY <1>1, <1>3, <2>1 DEF SetRetention, IInv, Untouched, worker
  <2>2. CASE Resume
    <3>1. ~ parts
      BY <2>2, Lifecycle DEF Resume, IInv, Untouched
    <3> QED
      BY <1>1, <3>1 DEF Untouched
  <2> QED
    BY <2>1, <2>2
<1>6. AudioStreamRegistered'
  BY <1>1, <1>3 DEF IInv, AudioStreamRegistered
<1>7. Counted' /\ Causes' /\ Handed' /\ Trial' /\ Epoch'
  BY <1>1, <1>3, WorkerKeeps
<1> QED
  BY <1>2, <1>3, <1>4, <1>5, <1>6, <1>7 DEF IInv, Typed

\* The audio worker puts sound into the buffer and ends.
LEMMA AudioStep == ASSUME IInv, AudioInsert \/ AudioWarns \/ AudioEnds PROVE IInv'
<1>1. /\ Plain /\ QueueTyped /\ buffer \in Buffers /\ faults' \in faults .. MaxFaults
      /\ UNCHANGED <<worker, state, parts, ctl, shutdown>>
  BY MaxFaultsAssumption DEF IInv, Typed, AudioInsert, AudioWarns, AudioEnds, Fault, Plain
<1>2. audio = "running" /\ ~ parts
  BY DEF AudioInsert, AudioWarns, AudioEnds, IInv, Untouched
<1>3. QueueTyped'
  BY <1>1, EventsTyped, PublishTyped, SilentTyped DEF AudioInsert, AudioWarns, AudioEnds
<1>4. /\ buffer' \in Buffers /\ buffer'.held = buffer.held
      /\ buffer'.desc = buffer.desc /\ buffer'.streams = buffer.streams
  BY <1>1 DEF AudioInsert, AudioWarns, AudioEnds, Buffers
<1>5. Plain'
  BY <1>1, WorkerTyped DEF AudioInsert, AudioWarns, AudioEnds, Plain
<1>6. Untouched' /\ AudioStreamRegistered'
  BY <1>1, <1>2, <1>4 DEF IInv, Untouched, AudioStreamRegistered
<1>7. Counted' /\ Causes' /\ Handed' /\ Trial' /\ Epoch'
  BY <1>1, <1>4, WorkerKeeps
<1> QED
  BY <1>3, <1>4, <1>5, <1>6, <1>7 DEF IInv, Typed

-----------------------------------------------------------------------------
(* The theorems.                                                              *)

LEMMA InitInvariant == Init => IInv
<1> SUFFICES ASSUME Init PROVE IInv
  OBVIOUS
<1>1. Plain
  <2>1. attempts \in 0 .. RestartLimit - 1 /\ faults \in 0 .. MaxFaults
    BY RestartLimitAssumption, MaxFaultsAssumption DEF Init
  <2>2. encGen \in Nat /\ seenGen \in Generations /\ descGen \in Generations
        /\ inHand \subseteq Generations
    BY GenerationBounds DEF Init
  <2> QED
    BY <2>1, <2>2 DEF Init, Plain, States, Places
<1>2. QueueTyped
  <2>1. Len(<<>>) = 0 /\ 0 <= QueueBound /\ <<>> \in Seq(Events)
    BY QueueBoundAssumption
  <2> QED
    BY <2>1 DEF Init, QueueTyped
<1>3. buffer \in Buffers /\ buffer.held = {}
  BY GenerationBounds DEF Init, EmptyBuffer, Buffers
<1>4. Counted /\ Untouched /\ AudioStreamRegistered /\ Causes /\ Handed /\ Trial /\ Epoch
  BY <1>3, MaxFaultsAssumption
  DEF Init, Counted, Untouched, AudioStreamRegistered, Causes, Handed, Trial, Epoch,
      Decodable, Calm, Recovery, Leaving
<1> QED
  BY <1>1, <1>2, <1>3, <1>4 DEF IInv, Typed

\* Stuttering.
LEMMA QuietStep == ASSUME IInv, UNCHANGED vars PROVE IInv'
BY DEF IInv, Typed, Plain, QueueTyped, Counted, Untouched, AudioStreamRegistered, Causes,
       Handed, Trial, Epoch, Decodable, vars, worker

\* Every step of either thread preserves the invariant.
LEMMA InvariantStep == IInv /\ [Next]_vars => IInv'
<1> SUFFICES ASSUME IInv, [Next]_vars PROVE IInv'
  OBVIOUS
<1>1. CASE Controller
  BY <1>1, StartStep, StartClashStep, PumpEventStep, PumpStopStep, RetainStep DEF Controller
<1>2. CASE VideoWorker
  BY <1>2, ConfigureStep, ReconfigureStep, StartMetaStep, MetaStep, RemetaStep, ExitMetaStep,
     ObserveShutdownStep, EncodeFrameStep, EncodeFailsStep, FallBackStep, SyncEpochStep,
     GiveUpStep, InsertStep, ExitInsertStep, ReportStep, ExitReportStep, PrimingStep,
     ExitPrimingStep, DisturbedStep, CaptureEndsStep, DrainStep, RestartStep, ResetStep,
     CompleteStep, FinalDrainStep
  DEF VideoWorker
<1>3. CASE AudioInsert \/ AudioWarns \/ AudioEnds
  BY <1>3, AudioStep
<1>4. CASE UNCHANGED vars
  BY <1>4, QuietStep
<1> QED
  BY <1>1, <1>2, <1>3, <1>4 DEF Next

\* Both threads together keep the invariant for ever.
THEOREM EngineInvariant == Spec => []IInv
<1>1. Init => IInv
  BY InitInvariant
<1>2. IInv /\ [Next]_vars => IInv'
  BY InvariantStep
<1> QED
  BY <1>1, <1>2, PTL DEF Spec

\* The engine's types: the event queue stays within ENGINE_EVENT_QUEUE_BOUND however
\* many events the worker and the controller publish, a recovery within
\* VIDEO_RESTART_LIMIT, and the encoder makes at most two generations per fault.
THEOREM EngineTypeCorrect == Spec => []TypeOK
<1>1. IInv => TypeOK
  BY GenerationBounds
  DEF IInv, Typed, Plain, QueueTyped, Buffers, TypeOK, Places, Calm, Recovery, Leaving
<1> QED
  BY <1>1, EngineInvariant, PTL

\* The audio worker's stream is never pulled from under it: each way the video worker
\* registers its own stream again keeps the audio registration.
THEOREM AudioAlwaysRegistered == Spec => []AudioStreamRegistered
<1>1. IInv => AudioStreamRegistered
  BY DEF IInv
<1> QED
  BY <1>1, EngineInvariant, PTL

\* A clip taken at any time can be decoded, for any number of format changes, source
\* losses and encoder faults: one generation in the buffer, and its own descriptor.
THEOREM ClipAlwaysDecodable == Spec => []ClipDecodable
<1>1. IInv => ClipDecodable
  <2> SUFFICES ASSUME IInv PROVE ClipDecodable
    OBVIOUS
  <2>1. \E g : buffer.held \in {{}, {g}}
    BY DEF IInv, Typed, Plain, Epoch, Decodable, Places, Calm, Recovery, Leaving
  <2>2. Cardinality(buffer.held) <= 1
    BY <2>1, FS_EmptySet, FS_Singleton
  <2>3. pc \in {"loop", "retry", "sync", "meta", "insert", "events", "prime", "remeta",
                "complete", "done"}
          => (buffer.held = {} \/ buffer.held = {buffer.desc} \/ cause # "none")
    BY DEF IInv, Epoch, Decodable, Leaving
  <2> QED
    BY <2>2, <2>3 DEF ClipDecodable
<1> QED
  BY <1>1, EngineInvariant, PTL

\* A failure is not masked: out of Error leads only stop.  The lifecycle table also
\* allows Starting, but a start needs components nobody has taken, and an engine in
\* Error has taken them.
THEOREM FailureNeverMasked == Spec => FailureNotMasked
<1>1. ASSUME IInv, [Next]_vars, state = "Error"
      PROVE  state' \in {"Error", "Stopping"}
  <2>1. CASE Controller
    <3>1. ~ parts
      BY <1>1 DEF IInv, Untouched
    <3> QED
      BY <1>1, <2>1, <3>1, Lifecycle
      DEF Controller, Start, StartClash, PumpBegin, PumpEvent, PumpPromote, PumpEnd, Handle,
          Ignore, PromoteIfPrimed, SetRetention, Resume, StopBegin, StopEnd, TransitionTo, Silent
  <2>2. CASE VideoWorker
    BY <1>1, <2>2
    DEF VideoWorker, Configure, PublishExtradata, ObserveShutdown, EncodeFrame, EncodeFails,
        FallBackToNative, SyncEpoch, GiveUpEncoding, InsertPackets, ReportEncoder,
        ReportPriming, CaptureDisturbed, CaptureEnds, DrainForRecovery, RestartCapture,
        ResetAfterRecovery, CompleteRecovery, FinalDrain, WorkerOnly
  <2>3. CASE AudioInsert \/ AudioWarns \/ AudioEnds
    BY <1>1, <2>3 DEF AudioInsert, AudioWarns, AudioEnds
  <2>4. CASE UNCHANGED vars
    BY <1>1, <2>4 DEF vars
  <2> QED
    BY <1>1, <2>1, <2>2, <2>3, <2>4 DEF Next
<1>2. IInv /\ [Next]_vars => [state = "Error" => state' \in {"Error", "Stopping"}]_vars
  BY <1>1
<1> QED
  BY <1>2, EngineInvariant, PTL DEF Spec, FailureNotMasked
=============================================================================
