------------------------- MODULE ReplayBufferProofs -------------------------
(* Proofs about ReplayBuffer for every value of its constants.  What eviction *)
(* and the packet cap leave of a track is a tail of it (IsTail); order, the   *)
(* absence of holes and the cap follow from that alone, whatever index the    *)
(* eviction rule picks.  The second half shows which tail it is: what         *)
(* eviction keeps, that a primed buffer stays primed, what a clip of it is    *)
(* like, and that the memory counter is exact.                                *)
EXTENDS ReplayBuffer, FiniteSetTheorems, SequenceTheorems, WellFoundedInduction, TLAPS

-----------------------------------------------------------------------------
(* Tails.                                                                     *)

\* b is what is left of a when some packets have left at the front.
IsTail(b, a) == \E n \in 0 .. Len(a) : b = DropFronts(a, n)

\* What DropFronts returns.
LEMMA DropFrontsProperties ==
    ASSUME NEW S, NEW a \in Seq(S), NEW n \in 0 .. Len(a)
    PROVE  /\ DropFronts(a, n) \in Seq(S)
           /\ Len(DropFronts(a, n)) = Len(a) - n
           /\ \A i \in 1 .. Len(a) - n : DropFronts(a, n)[i] = a[n + i]
<1>1. \A i \in n + 1 .. Len(a) : a[i] \in S
  BY ElementOfSeq, LenProperties
<1>2. n + 1 \in Int /\ Len(a) \in Int
  BY LenProperties
<1>. DEFINE b == SubSeq(a, n + 1, Len(a))
<1>3. /\ b \in Seq(S)
      /\ Len(b) = IF n + 1 <= Len(a) THEN Len(a) - (n + 1) + 1 ELSE 0
      /\ \A i \in 1 .. Len(a) - (n + 1) + 1 : b[i] = a[n + 1 + i - 1]
  BY <1>1, <1>2, SubSeqProperties
<1>. QED BY <1>2, <1>3 DEF DropFronts

\* A tail is a track of the same packets, found at a fixed distance.
LEMMA TailProperties ==
    ASSUME NEW S, NEW a \in Seq(S), NEW b, IsTail(b, a)
    PROVE  /\ b \in Seq(S)
           /\ Len(b) \in Nat /\ Len(b) <= Len(a)
           /\ b = DropFronts(a, Len(a) - Len(b))
           /\ \A i \in 1 .. Len(b) : /\ Len(a) - Len(b) + i \in 1 .. Len(a)
                                      /\ b[i] = a[Len(a) - Len(b) + i]
<1>1. PICK n \in 0 .. Len(a) : b = DropFronts(a, n)
  BY DEF IsTail
<1>2. Len(a) \in Nat
  BY LenProperties
<1>3. b \in Seq(S) /\ Len(b) = Len(a) - n /\ \A i \in 1 .. Len(a) - n : b[i] = a[n + i]
  BY <1>1, DropFrontsProperties
<1>. QED BY <1>1, <1>2, <1>3

\* Every packet of a tail is a packet of the track.
LEMMA TailSources ==
    ASSUME NEW S, NEW a \in Seq(S), NEW b, IsTail(b, a), NEW i \in 1 .. Len(b)
    PROVE  \E j \in 1 .. Len(a) : b[i] = a[j]
BY TailProperties

\* How long a tail is, and which tail it is.
LEMMA TailLength ==
    ASSUME NEW S, NEW a \in Seq(S), NEW b, IsTail(b, a)
    PROVE  /\ Len(b) <= Len(a)
           /\ b = DropFronts(a, Len(a) - Len(b))
<1>1. Len(b) <= Len(a) /\ b = DropFronts(a, Len(a) - Len(b))
  BY TailProperties
<1>. QED BY <1>1

\* What stays behind when a prefix leaves a range is within the range.
LEMMA DifferenceInRange ==
    ASSUME NEW m \in Nat, NEW n \in Nat, n <= m
    PROVE  m - n \in 0 .. m
OBVIOUS

\* A track is a tail of itself.
LEMMA TailReflexive ==
    ASSUME NEW S, NEW a \in Seq(S)
    PROVE  IsTail(a, a)
<1>1. Len(a) \in Nat /\ 0 \in 0 .. Len(a)
  BY LenProperties
<1>2. DropFronts(a, 0) = a
  <2>1. DropFronts(a, 0) \in Seq(S) /\ Len(DropFronts(a, 0)) = Len(a)
        /\ \A i \in 1 .. Len(a) : DropFronts(a, 0)[i] = a[i]
    BY <1>1, DropFrontsProperties
  <2>. QED BY <2>1, SeqEqual
<1>. QED BY <1>1, <1>2 DEF IsTail

\* A tail of a tail is a tail.
LEMMA TailTransitive ==
    ASSUME NEW S, NEW a \in Seq(S), NEW b, NEW c, IsTail(b, a), IsTail(c, b)
    PROVE  IsTail(c, a)
<1>1. /\ b \in Seq(S) /\ Len(b) \in Nat /\ Len(b) <= Len(a)
      /\ \A i \in 1 .. Len(b) : b[i] = a[Len(a) - Len(b) + i]
  BY TailProperties
<1>2. /\ c \in Seq(S) /\ Len(c) \in Nat /\ Len(c) <= Len(b)
      /\ \A i \in 1 .. Len(c) : c[i] = b[Len(b) - Len(c) + i]
  BY <1>1, TailProperties
<1>3. Len(a) \in Nat /\ Len(a) - Len(c) \in 0 .. Len(a)
  BY <1>1, <1>2, LenProperties
<1>. DEFINE d == DropFronts(a, Len(a) - Len(c))
<1>4. /\ d \in Seq(S) /\ Len(d) = Len(a) - (Len(a) - Len(c))
      /\ \A i \in 1 .. Len(a) - (Len(a) - Len(c)) : d[i] = a[Len(a) - Len(c) + i]
  BY <1>3, DropFrontsProperties
<1>5. Len(d) = Len(c) /\ \A i \in 1 .. Len(d) : d[i] = a[Len(a) - Len(c) + i]
  BY <1>2, <1>3, <1>4
<1>6. \A i \in 1 .. Len(c) : c[i] = a[Len(a) - Len(c) + i]
  BY <1>1, <1>2, <1>3
<1>7. c = d
  BY <1>2, <1>4, <1>5, <1>6, SeqEqual
<1>. QED BY <1>3, <1>7 DEF IsTail

\* Appending the same packet to a track and to its tail keeps the one a tail of
\* the other.
LEMMA TailOfAppend ==
    ASSUME NEW S, NEW a \in Seq(S), NEW b, IsTail(b, a), NEW p \in S
    PROVE  IsTail(Append(b, p), Append(a, p))
<1>1. /\ b \in Seq(S) /\ Len(b) \in Nat /\ Len(b) <= Len(a)
      /\ \A i \in 1 .. Len(b) : b[i] = a[Len(a) - Len(b) + i]
  BY TailProperties
<1>2. Len(a) \in Nat
  BY LenProperties
<1>. DEFINE ap == Append(a, p)
            bp == Append(b, p)
            n  == Len(a) - Len(b)
            d  == DropFronts(ap, n)
<1>3. /\ ap \in Seq(S) /\ Len(ap) = Len(a) + 1 /\ ap[Len(a) + 1] = p
      /\ \A i \in 1 .. Len(a) : ap[i] = a[i]
  BY AppendProperties
<1>4. /\ bp \in Seq(S) /\ Len(bp) = Len(b) + 1 /\ bp[Len(b) + 1] = p
      /\ \A i \in 1 .. Len(b) : bp[i] = b[i]
  BY <1>1, AppendProperties
<1>5. n \in 0 .. Len(ap)
  BY <1>1, <1>2, <1>3
<1>6. d \in Seq(S) /\ Len(d) = Len(ap) - n /\ \A i \in 1 .. Len(ap) - n : d[i] = ap[n + i]
  BY <1>3, <1>5, DropFrontsProperties
<1>7. Len(d) = Len(bp)
  BY <1>1, <1>2, <1>3, <1>4, <1>6
<1>8. ASSUME NEW i \in 1 .. Len(bp) PROVE bp[i] = d[i]
  <2>1. CASE i = Len(b) + 1
    <3>1. n + i = Len(a) + 1 /\ i \in 1 .. Len(ap) - n
      BY <2>1, <1>1, <1>2, <1>3
    <3>. QED BY <2>1, <3>1, <1>3, <1>4, <1>6
  <2>2. CASE i # Len(b) + 1
    <3>1. i \in 1 .. Len(b) /\ n + i \in 1 .. Len(a) /\ i \in 1 .. Len(ap) - n
      BY <2>2, <1>1, <1>2, <1>3, <1>4
    <3>2. bp[i] = b[i] /\ b[i] = a[n + i]
      BY <3>1, <1>1, <1>4
    <3>3. d[i] = ap[n + i] /\ ap[n + i] = a[n + i]
      BY <3>1, <1>3, <1>6
    <3>. QED BY <3>2, <3>3
  <2>. QED BY <2>1, <2>2
<1>9. bp = d
  <2>. HIDE DEF bp, d
  <2>. QED BY <1>4, <1>6, <1>7, <1>8, SeqEqual
<1>. QED BY <1>5, <1>9 DEF IsTail

-----------------------------------------------------------------------------
(* What the operations leave of a track.                                      *)

\* The number of stale packets at the front of a track is a number of packets of it.
LEMMA StaleFrontsType ==
    ASSUME NEW S, NEW a \in Seq(S), NEW t
    PROVE  StaleFronts(a, t) \in 0 .. Len(a)
<1>. DEFINE stale == {i \in 1 .. Len(a) : \A j \in 1 .. i : Expired(a[j], t)}
<1>1. Len(a) \in Nat
  BY LenProperties
<1>2. IsFiniteSet(1 .. Len(a)) /\ Cardinality(1 .. Len(a)) = Len(a)
  BY SMTT(30), <1>1, FS_Interval
<1>3. stale \in SUBSET (1 .. Len(a))
  OBVIOUS
<1>4. IsFiniteSet(stale) /\ Cardinality(stale) <= Cardinality(1 .. Len(a))
  BY <1>2, <1>3, FS_Subset
<1>5. Cardinality(stale) \in Nat
  BY <1>4, FS_CardinalityType
<1>. QED BY <1>1, <1>2, <1>4, <1>5 DEF StaleFronts

\* Eviction leaves a tail of every track, whatever the retention.
LEMMA EvictedTails ==
    ASSUME NEW tracks \in [Streams -> Seq(Packet)], NEW r
    PROVE  /\ Evicted(tracks, r) \in [Streams -> Seq(Packet)]
           /\ \A s \in Streams : IsTail(Evicted(tracks, r)[s], tracks[s])
<1>. DEFINE from == KeepFrom(tracks[Video], NewestVideoDts(tracks) - r)
            k == CHOOSE i \in from : TRUE
<1>1. CASE tracks[Video] = <<>> \/ from = {}
  <2>1. Evicted(tracks, r) = tracks
    BY <1>1 DEF Evicted
  <2>. QED BY <2>1, TailReflexive
<1>2. CASE ~ (tracks[Video] = <<>> \/ from = {})
  <2>1. Evicted(tracks, r) = AlignTo(tracks, k)
    BY <1>2 DEF Evicted
  <2>2. k \in 1 .. Len(tracks[Video])
    BY <1>2 DEF KeepFrom, Eligible
  <2>. HIDE DEF k, from
  <2>3. ASSUME NEW s \in Streams
        PROVE  /\ AlignTo(tracks, k)[s] \in Seq(Packet)
               /\ IsTail(AlignTo(tracks, k)[s], tracks[s])
    <3>1. tracks[s] \in Seq(Packet) /\ Len(tracks[s]) \in Nat
      BY LenProperties
    <3>2. (IF s = Video THEN k - 1 ELSE StaleFronts(tracks[s], tracks[Video][k].dts))
             \in 0 .. Len(tracks[s])
      BY <2>2, <3>1, StaleFrontsType
    <3>3. AlignTo(tracks, k)[s] =
            DropFronts(tracks[s], IF s = Video THEN k - 1
                                  ELSE StaleFronts(tracks[s], tracks[Video][k].dts))
      BY DEF AlignTo
    <3>. QED BY <3>1, <3>2, <3>3, DropFrontsProperties DEF IsTail
  <2>4. AlignTo(tracks, k) \in [Streams -> Seq(Packet)]
    <3>1. AlignTo(tracks, k) = [s \in Streams |-> AlignTo(tracks, k)[s]]
      BY DEF AlignTo
    <3>. QED BY <2>3, <3>1
  <2>. QED BY <2>1, <2>3, <2>4
<1>. QED BY <1>1, <1>2

\* The safety valve leaves a tail of at most Cap packets.
LEMMA TrimmedTail ==
    ASSUME NEW S, NEW a \in Seq(S)
    PROVE  IsTail(TrimToCap(a), a) /\ Len(TrimToCap(a)) <= Cap
<1>1. Len(a) \in Nat
  BY LenProperties
<1>2. (IF Len(a) > Cap THEN Len(a) - Cap ELSE 0) \in 0 .. Len(a)
  BY <1>1, CapAssumption
<1>3. Len(TrimToCap(a)) = Len(a) - (IF Len(a) > Cap THEN Len(a) - Cap ELSE 0)
  BY <1>2, DropFrontsProperties DEF TrimToCap
<1>4. Len(TrimToCap(a)) <= Cap
  BY <1>1, <1>3, CapAssumption
<1>5. IsTail(TrimToCap(a), a)
  BY <1>2 DEF TrimToCap, IsTail
<1>. QED BY <1>4, <1>5

\* The payload of a family of tracks is a number.
LEMMA PayloadType ==
    ASSUME NEW tracks \in [Streams -> Seq(Packet)]
    PROVE  PayloadBytes(tracks) \in Nat
<1>. DEFINE slotsOf == [s \in Streams |-> {s} \X (1 .. Len(tracks[s]))]
            T == {slotsOf[s] : s \in Streams}
            keys == {x \in Slots(tracks) : tracks[x[1]][x[2]].key}
<1>1. IsFiniteSet(T)
  <2>1. slotsOf \in Surjection(Streams, T)
    BY DEF Surjection
  <2>2. IsFiniteSet(Streams)
    BY StreamsAssumption
  <2>. QED BY <2>1, <2>2, FS_Surjection
<1>2. ASSUME NEW X \in T PROVE IsFiniteSet(X)
  <2>1. PICK s \in Streams : X = {s} \X (1 .. Len(tracks[s]))
    OBVIOUS
  <2>2. Len(tracks[s]) \in Nat
    BY LenProperties
  <2>3. IsFiniteSet({s}) /\ IsFiniteSet(1 .. Len(tracks[s]))
    <3>1. IsFiniteSet({s})
      BY FS_Singleton
    <3>2. 1 \in Int /\ Len(tracks[s]) \in Int
      BY <2>2
    <3>3. IsFiniteSet(1 .. Len(tracks[s]))
      BY <3>2, FS_Interval
    <3>. QED BY <3>1, <3>3
  <2>. QED BY <2>1, <2>3, FS_Product
<1>3. IsFiniteSet(UNION T)
  BY <1>1, <1>2, FS_UNION
<1>4. Slots(tracks) = UNION T
  BY DEF Slots
<1>5. IsFiniteSet(Slots(tracks)) /\ Cardinality(Slots(tracks)) \in Nat
  BY <1>3, <1>4, FS_CardinalityType
<1>6. IsFiniteSet(keys) /\ Cardinality(keys) \in Nat
  BY <1>5, FS_Subset, FS_CardinalityType
<1>7. KeyBytes - 1 \in Nat
  BY KeyBytesAssumption
<1>8. (KeyBytes - 1) * Cardinality(keys) \in Nat
  BY <1>6, <1>7
<1>. QED BY <1>5, <1>8 DEF PayloadBytes

-----------------------------------------------------------------------------
(* Type correctness.                                                          *)

\* The packets an encoder may hand over are packets, numbered next.
LEMMA NewPacketsType ==
    ASSUME TypeOK, NEW s \in Streams, NEW p \in NewPackets(s)
    PROVE  p \in Packet /\ p.seq = nextSequence
BY BoundsAssumption, TimesAssumption DEF NewPackets, Packet, TypeOK

\* What insert leaves of each track: a tail of the track with the packet appended,
\* and of the packet's own track no more than Cap packets.
LEMMA InsertTails ==
    ASSUME TypeOK, NEW s \in Streams, NEW p \in NewPackets(s), Insert(s, p)
    PROVE  LET appended == [packets EXCEPT ![s] = Append(@, p)]
           IN  /\ appended \in [Streams -> Seq(Packet)]
               /\ packets' \in [Streams -> Seq(Packet)]
               /\ \A q \in Streams : IsTail(packets'[q], appended[q])
               /\ Len(packets'[s]) <= Cap
<1>. DEFINE appended == [packets EXCEPT ![s] = Append(@, p)]
            trimmed == [appended EXCEPT ![s] = TrimToCap(@)]
<1>1. p \in Packet
  BY NewPacketsType
<1>2. packets \in [Streams -> Seq(Packet)]
  BY DEF TypeOK
<1>3. appended \in [Streams -> Seq(Packet)]
  BY <1>1, <1>2, AppendProperties
<1>. HIDE DEF appended
<1>4. IsTail(TrimToCap(appended[s]), appended[s]) /\ Len(TrimToCap(appended[s])) <= Cap
  BY <1>3, TrimmedTail
<1>5. TrimToCap(appended[s]) \in Seq(Packet)
  BY <1>3, <1>4, TailProperties
<1>6. /\ trimmed \in [Streams -> Seq(Packet)]
      /\ trimmed[s] = TrimToCap(appended[s])
      /\ \A q \in Streams \ {s} : trimmed[q] = appended[q]
  BY <1>3, <1>5
<1>7. \A q \in Streams : IsTail(trimmed[q], appended[q])
  BY <1>3, <1>4, <1>6, TailReflexive
<1>. HIDE DEF trimmed
<1>8. packets' = Evicted(trimmed, retention)
  BY DEF Insert, trimmed, appended
<1>9. /\ packets' \in [Streams -> Seq(Packet)]
      /\ \A q \in Streams : IsTail(packets'[q], trimmed[q])
  BY <1>6, <1>8, EvictedTails
<1>10. \A q \in Streams : IsTail(packets'[q], appended[q])
  BY <1>3, <1>7, <1>9, TailTransitive
<1>11. Len(packets'[s]) <= Cap
  <2>1. Len(packets'[s]) \in Nat /\ Len(packets'[s]) <= Len(trimmed[s])
    BY <1>6, <1>9, TailProperties
  <2>2. Len(trimmed[s]) \in Nat
    BY <1>6, LenProperties
  <2>. QED BY <1>4, <1>6, <2>1, <2>2, CapAssumption
<1>. QED BY <1>3, <1>9, <1>10, <1>11 DEF appended

\* Saturating subtraction of a number from a number is a number.
LEMMA SaturatingSubType ==
    ASSUME NEW a \in Nat, NEW b \in Int
    PROVE  SaturatingSub(a, b) \in Nat
BY DEF SaturatingSub

\* A buffer without packets is well typed.
LEMMA EmptyTracks == NoPackets \in [Streams -> Seq(Packet)]
BY DEF NoPackets

\* Type correctness: the initial states.
LEMMA TypeInit == Init => TypeOK
<1>. SUFFICES ASSUME Init PROVE TypeOK
  OBVIOUS
<1>1. packets \in [Streams -> Seq(Packet)] /\ log \in [Streams -> Seq(Packet)]
  BY EmptyTracks DEF Init
<1>2. lastDts \in [Streams -> Int \cup {NoDts}]
  BY DEF Init
<1>3. retention \in Nat \ {0}
  BY RetentionsAssumption DEF Init
<1>. QED BY <1>1, <1>2, <1>3 DEF Init, TypeOK

\* Type correctness: every step, one action at a time.
LEMMA TypeStep == TypeOK /\ [Next]_vars => TypeOK'
<1>. SUFFICES ASSUME TypeOK, [Next]_vars PROVE TypeOK'
  OBVIOUS
<1>1. ASSUME NEW s \in Streams, RegisterStream(s) PROVE TypeOK'
  <2>1. packets' \in [Streams -> Seq(Packet)] /\ log' \in [Streams -> Seq(Packet)]
    BY <1>1 DEF RegisterStream, TypeOK
  <2>2. replacedBytes' \in Int
    <3>1. PayloadBytes(packets) \in Nat
      BY PayloadType DEF TypeOK
    <3>2. PayloadBytes(packets)' \in Nat
      BY <2>1, PayloadType
    <3>. QED BY <1>1, <3>1, <3>2 DEF RegisterStream, TypeOK
  <2>3. lastDts' \in [Streams -> Int \cup {NoDts}]
    BY <1>1 DEF RegisterStream, TypeOK
  <2>4. registered' \subseteq Streams /\ capped' \subseteq Streams
    BY <1>1 DEF RegisterStream, TypeOK
  <2>. QED BY <1>1, <2>1, <2>2, <2>3, <2>4 DEF RegisterStream, TypeOK
<1>2. ASSUME ClearPackets, registered' \subseteq Streams PROVE TypeOK'
  <2>1. packets' \in [Streams -> Seq(Packet)] /\ log' \in [Streams -> Seq(Packet)]
    BY <1>2, EmptyTracks DEF ClearPackets
  <2>2. lastDts' \in [Streams -> Int \cup {NoDts}]
    BY <1>2 DEF ClearPackets
  <2>. QED BY <1>2, <2>1, <2>2 DEF ClearPackets, TypeOK
<1>3. CASE StartNewEpoch
  BY <1>2, <1>3 DEF StartNewEpoch
<1>4. CASE StartNewEpochPreservingStreams
  BY <1>2, <1>4 DEF StartNewEpochPreservingStreams, TypeOK
<1>5. ASSUME NEW s \in Streams, NEW p \in NewPackets(s), Insert(s, p) PROVE TypeOK'
  <2>. DEFINE appended == [packets EXCEPT ![s] = Append(@, p)]
  <2>1. p \in Packet /\ p.dts \in Int
    BY NewPacketsType DEF Packet
  <2>2. appended \in [Streams -> Seq(Packet)] /\ packets' \in [Streams -> Seq(Packet)]
    BY <1>5, InsertTails
  <2>3. log' \in [Streams -> Seq(Packet)]
    BY <1>5, <2>1, AppendProperties DEF Insert, TypeOK
  <2>4. lastDts' \in [Streams -> Int \cup {NoDts}]
    BY <1>5, <2>1 DEF Insert, TypeOK
  <2>5. memoryBytes' \in Nat
    <3>1. PayloadBytes(appended) \in Nat
      BY <2>2, PayloadType
    <3>2. PayloadBytes(packets)' \in Nat
      BY <2>2, PayloadType
    <3>. HIDE DEF appended
    <3>3. memoryBytes + (IF p.key THEN KeyBytes ELSE 1) \in Nat
      BY KeyBytesAssumption DEF TypeOK
    <3>4. memoryBytes' = SaturatingSub(memoryBytes + (IF p.key THEN KeyBytes ELSE 1),
                                       PayloadBytes(appended) - PayloadBytes(packets)')
      BY <1>5 DEF Insert, appended
    <3>5. PayloadBytes(appended) - PayloadBytes(packets)' \in Int
      BY <3>1, <3>2
    <3>. QED BY <3>3, <3>4, <3>5, SaturatingSubType
  <2>6. nextSequence' \in Nat
    BY <1>5 DEF Insert, TypeOK
  <2>7. capped' \subseteq Streams
    BY <1>5 DEF Insert, TypeOK
  <2>. QED BY <1>5, <2>2, <2>3, <2>4, <2>5, <2>6, <2>7 DEF Insert, TypeOK
<1>6. ASSUME NEW r \in Retentions, SetRetention(r) PROVE TypeOK'
  <2>1. packets' \in [Streams -> Seq(Packet)]
    BY <1>6, EvictedTails DEF SetRetention, TypeOK
  <2>2. memoryBytes' \in Nat
    <3>1. PayloadBytes(packets) \in Nat
      BY PayloadType DEF TypeOK
    <3>2. PayloadBytes(packets)' \in Nat
      BY <2>1, PayloadType
    <3>3. memoryBytes' = SaturatingSub(memoryBytes, PayloadBytes(packets) - PayloadBytes(packets)')
      BY <1>6 DEF SetRetention
    <3>. QED BY <3>1, <3>2, <3>3, SaturatingSubType DEF TypeOK
  <2>3. retention' \in Nat \ {0}
    BY <1>6, RetentionsAssumption DEF SetRetention
  <2>. QED BY <1>6, <2>1, <2>2, <2>3 DEF SetRetention, TypeOK
<1>7. CASE UNCHANGED vars
  BY <1>7 DEF vars, TypeOK
<1>. QED BY <1>1, <1>3, <1>4, <1>5, <1>6, <1>7 DEF Next

\* Type correctness of the buffer in every reachable state.
THEOREM TypeCorrect == Spec => []TypeOK
BY TypeInit, TypeStep, PTL DEF Spec

-----------------------------------------------------------------------------
(* Order.                                                                     *)

\* A track in order, all of it numbered below n and no later than the time d.
Ordered(track, n, d) ==
    /\ \A i, j \in 1 .. Len(track) : i < j =>
          /\ track[i].dts <= track[j].dts
          /\ track[i].seq < track[j].seq
    /\ \A i \in 1 .. Len(track) :
          /\ track[i].seq < n
          /\ d # NoDts
          /\ track[i].dts <= d

\* The fields of a packet that order speaks of, with their types.
LEMMA PacketFields ==
    ASSUME NEW a \in Seq(Packet), NEW i \in 1 .. Len(a)
    PROVE  a[i] \in Packet /\ a[i].dts \in Int /\ a[i].seq \in Nat
<1>1. a[i] \in Packet
  BY ElementOfSeq
<1>. QED BY <1>1 DEF Packet

\* The order property, stated track by track.
LEMMA OrderedTracks ==
    TracksOrdered <=> \A s \in Streams : Ordered(packets[s], nextSequence, lastDts[s])
BY DEF TracksOrdered, Ordered

\* A tail of a track in order is in order.
LEMMA TailOrdered ==
    ASSUME NEW a \in Seq(Packet), NEW b, IsTail(b, a), NEW n, NEW d, Ordered(a, n, d)
    PROVE  Ordered(b, n, d)
<1>. DEFINE off == Len(a) - Len(b)
<1>1. /\ Len(b) \in Nat
      /\ \A i \in 1 .. Len(b) : off + i \in 1 .. Len(a) /\ b[i] = a[off + i]
  BY TailProperties
<1>2. Len(a) \in Nat
  BY LenProperties
<1>3. \A i, j \in 1 .. Len(b) : i < j => off + i < off + j
  BY <1>1, <1>2
<1>. HIDE DEF off
<1>. QED BY <1>1, <1>3 DEF Ordered

\* Appending the next packet, not earlier than the last, keeps a track in order.
LEMMA AppendOrdered ==
    ASSUME NEW a \in Seq(Packet), NEW n \in Nat, NEW d \in Int \cup {NoDts}, Ordered(a, n, d),
           NEW p \in Packet, p.seq = n, d # NoDts => p.dts >= d
    PROVE  Ordered(Append(a, p), n + 1, p.dts)
<1>. DEFINE b == Append(a, p)
<1>1. /\ b \in Seq(Packet) /\ Len(b) = Len(a) + 1 /\ b[Len(a) + 1] = p
      /\ \A i \in 1 .. Len(a) : b[i] = a[i]
  BY AppendProperties
<1>2. Len(a) \in Nat
  BY LenProperties
<1>3. \A i \in 1 .. Len(a) : a[i].dts \in Int /\ a[i].seq \in Nat
  BY PacketFields
<1>4. p.dts \in Int
  BY DEF Packet
<1>5. p.dts # NoDts
  BY <1>4, NoDtsAssumption
<1>6. \A i \in 1 .. Len(a) : a[i].dts <= p.dts /\ a[i].seq < n
  BY <1>3, <1>4 DEF Ordered
<1>. HIDE DEF b
<1>7. \A i, j \in 1 .. Len(b) : i < j => b[i].dts <= b[j].dts /\ b[i].seq < b[j].seq
  <2>. SUFFICES ASSUME NEW i \in 1 .. Len(b), NEW j \in 1 .. Len(b), i < j
                PROVE  b[i].dts <= b[j].dts /\ b[i].seq < b[j].seq
    OBVIOUS
  <2>1. i \in 1 .. Len(a) /\ b[i] = a[i]
    BY <1>1, <1>2
  <2>2. CASE j = Len(a) + 1
    BY <2>1, <2>2, <1>1, <1>6
  <2>3. CASE j # Len(a) + 1
    <3>1. j \in 1 .. Len(a) /\ b[j] = a[j]
      BY <2>3, <1>1, <1>2
    <3>. QED BY <2>1, <3>1 DEF Ordered
  <2>. QED BY <2>2, <2>3
<1>8. \A i \in 1 .. Len(b) : b[i].seq < n + 1 /\ b[i].dts <= p.dts
  <2>. SUFFICES ASSUME NEW i \in 1 .. Len(b)
                PROVE  b[i].seq < n + 1 /\ b[i].dts <= p.dts
    OBVIOUS
  <2>1. CASE i = Len(a) + 1
    BY <2>1, <1>1, <1>4
  <2>2. CASE i # Len(a) + 1
    <3>1. i \in 1 .. Len(a) /\ b[i] = a[i]
      BY <2>2, <1>1, <1>2
    <3>. QED BY <3>1, <1>3, <1>6
  <2>. QED BY <2>1, <2>2
<1>. QED BY <1>5, <1>7, <1>8 DEF Ordered, b

\* A track without packets is in order.
LEMMA EmptyOrdered == ASSUME NEW n, NEW d PROVE Ordered(<<>>, n, d)
BY DEF Ordered

\* Order: every step.  Eviction leaves tails, an insert appends in order.
LEMMA OrderStep == TypeOK /\ TracksOrdered /\ [Next]_vars => TracksOrdered'
<1>. SUFFICES ASSUME TypeOK, TracksOrdered, [Next]_vars,
                     NEW q \in Streams
              PROVE  Ordered(packets'[q], nextSequence', lastDts'[q])
  BY DEF TracksOrdered, Ordered
<1>0. Ordered(packets[q], nextSequence, lastDts[q]) /\ packets[q] \in Seq(Packet)
  BY OrderedTracks DEF TypeOK
<1>1. ASSUME NEW s \in Streams, RegisterStream(s)
      PROVE  Ordered(packets'[q], nextSequence', lastDts'[q])
  BY <1>0, <1>1, EmptyOrdered DEF RegisterStream, TypeOK
<1>2. ASSUME ClearPackets PROVE Ordered(packets'[q], nextSequence', lastDts'[q])
  BY <1>2, EmptyOrdered DEF ClearPackets, NoPackets
<1>3. CASE StartNewEpoch
  BY <1>2, <1>3 DEF StartNewEpoch
<1>4. CASE StartNewEpochPreservingStreams
  BY <1>2, <1>4 DEF StartNewEpochPreservingStreams
<1>5. ASSUME NEW s \in Streams, NEW p \in NewPackets(s), Insert(s, p)
      PROVE  Ordered(packets'[q], nextSequence', lastDts'[q])
  <2>. DEFINE appended == [packets EXCEPT ![s] = Append(@, p)]
  <2>1. IsTail(packets'[q], appended[q]) /\ appended[q] \in Seq(Packet)
    BY <1>5, InsertTails
  <2>2. p \in Packet /\ p.seq = nextSequence
    BY NewPacketsType
  <2>3. nextSequence' = nextSequence + 1 /\ nextSequence \in Nat
    BY <1>5 DEF Insert, TypeOK
  <2>4. CASE q = s
    <3>1. appended[q] = Append(packets[q], p)
      BY <2>4 DEF TypeOK
    <3>2. lastDts'[q] = p.dts
      BY <1>5, <2>4 DEF Insert, TypeOK
    <3>3. lastDts[q] # NoDts => p.dts >= lastDts[q]
      BY <1>5, <2>4 DEF Insert, InOrder
    <3>4. lastDts[q] \in Int \cup {NoDts}
      BY DEF TypeOK
    <3>5. Ordered(appended[q], nextSequence', lastDts'[q])
      BY <1>0, <2>2, <2>3, <3>1, <3>2, <3>3, <3>4, AppendOrdered
    <3>. QED BY <2>1, <3>5, TailOrdered
  <2>5. CASE q # s
    <3>1. appended[q] = packets[q] /\ lastDts'[q] = lastDts[q]
      BY <1>5, <2>5 DEF Insert, TypeOK
    <3>2. \A i \in 1 .. Len(packets[q]) : packets[q][i].seq \in Nat
      BY <1>0, PacketFields
    <3>3. Ordered(packets[q], nextSequence + 1, lastDts[q])
      BY <1>0, <2>3, <3>2 DEF Ordered
    <3>4. Ordered(appended[q], nextSequence', lastDts'[q])
      BY <2>3, <3>1, <3>3
    <3>. QED BY <2>1, <3>4, TailOrdered
  <2>. QED BY <2>4, <2>5
<1>6. ASSUME NEW r \in Retentions, SetRetention(r)
      PROVE  Ordered(packets'[q], nextSequence', lastDts'[q])
  <2>1. IsTail(packets'[q], packets[q])
    BY <1>6, EvictedTails DEF SetRetention, TypeOK
  <2>2. Ordered(packets'[q], nextSequence, lastDts[q])
    BY <1>0, <2>1, TailOrdered
  <2>. QED BY <1>6, <2>2 DEF SetRetention
<1>7. CASE UNCHANGED vars
  BY <1>0, <1>7 DEF vars
<1>. QED BY <1>1, <1>3, <1>4, <1>5, <1>6, <1>7 DEF Next

\* Packets stay in decode order, uniquely numbered, through every eviction,
\* registration and epoch.
THEOREM AlwaysOrdered == Spec => []TracksOrdered
<1>1. Init => TracksOrdered
  BY DEF Init, TracksOrdered, NoPackets
<1>. QED BY TypeInit, TypeStep, <1>1, OrderStep, PTL DEF Spec

-----------------------------------------------------------------------------
(* The packet cap.                                                            *)

\* The cap: every step.  Only an insert makes a track longer.
LEMMA BoundStep == TypeOK /\ TracksBounded /\ [Next]_vars => TracksBounded'
<1>. SUFFICES ASSUME TypeOK, TracksBounded, [Next]_vars, NEW q \in Streams
              PROVE  Len(packets'[q]) <= Cap
  BY DEF TracksBounded
<1>0. /\ packets[q] \in Seq(Packet) /\ Len(packets[q]) \in Nat /\ Len(packets[q]) <= Cap
      /\ Cap \in Nat /\ Len(<<>>) = 0
  BY CapAssumption, LenProperties DEF TypeOK, TracksBounded
<1>1. ASSUME NEW b, IsTail(b, packets[q]) PROVE Len(b) <= Cap
  <2>1. Len(b) \in Nat /\ Len(b) <= Len(packets[q])
    BY <1>0, <1>1, TailProperties
  <2>. QED BY <1>0, <2>1
<1>2. ASSUME NEW s \in Streams, RegisterStream(s) PROVE Len(packets'[q]) <= Cap
  BY <1>0, <1>2 DEF RegisterStream, TypeOK
<1>3. ASSUME ClearPackets PROVE Len(packets'[q]) <= Cap
  BY <1>0, <1>3 DEF ClearPackets, NoPackets
<1>4. CASE StartNewEpoch
  BY <1>3, <1>4 DEF StartNewEpoch
<1>5. CASE StartNewEpochPreservingStreams
  BY <1>3, <1>5 DEF StartNewEpochPreservingStreams
<1>6. ASSUME NEW s \in Streams, NEW p \in NewPackets(s), Insert(s, p)
      PROVE  Len(packets'[q]) <= Cap
  <2>. DEFINE appended == [packets EXCEPT ![s] = Append(@, p)]
  <2>1. IsTail(packets'[q], appended[q]) /\ Len(packets'[s]) <= Cap
    BY <1>6, InsertTails
  <2>2. CASE q # s
    <3>1. appended[q] = packets[q]
      BY <2>2 DEF TypeOK
    <3>. QED BY <1>1, <2>1, <3>1
  <2>. QED BY <2>1, <2>2
<1>7. ASSUME NEW r \in Retentions, SetRetention(r) PROVE Len(packets'[q]) <= Cap
  <2>1. IsTail(packets'[q], packets[q])
    BY <1>7, EvictedTails DEF SetRetention, TypeOK
  <2>. QED BY <1>1, <2>1
<1>8. CASE UNCHANGED vars
  BY <1>0, <1>8 DEF vars
<1>. QED BY <1>2, <1>4, <1>5, <1>6, <1>7, <1>8 DEF Next

\* No track ever exceeds the packet cap, whatever the timestamps do.
THEOREM AlwaysBounded == Spec => []TracksBounded
<1>1. Init => TracksBounded
  <2>1. Len(<<>>) = 0
    OBVIOUS
  <2>. QED BY <2>1, CapAssumption DEF Init, TracksBounded, NoPackets
<1>. QED BY TypeInit, TypeStep, <1>1, BoundStep, PTL DEF Spec

\* The two together: order and cap in every reachable state.
THEOREM AlwaysSound == Spec => []TracksSound
BY AlwaysOrdered, AlwaysBounded, PTL DEF TracksSound

-----------------------------------------------------------------------------
(* No holes.                                                                  *)

\* What is retained of a stream is a tail of what was inserted.
LEMMA HolesAndTails ==
    ASSUME TypeOK
    PROVE  NoHoles <=> \A s \in Streams : IsTail(packets[s], log[s])
<1>1. ASSUME NEW s \in Streams
      PROVE  /\ packets[s] \in Seq(Packet) /\ log[s] \in Seq(Packet)
             /\ Len(packets[s]) \in Nat /\ Len(log[s]) \in Nat
  BY LenProperties DEF TypeOK
<1>2. ASSUME NoHoles, NEW s \in Streams PROVE IsTail(packets[s], log[s])
  <2>1. /\ Len(packets[s]) <= Len(log[s])
        /\ packets[s] = DropFronts(log[s], Len(log[s]) - Len(packets[s]))
    BY <1>2 DEF NoHoles
  <2>2. Len(log[s]) - Len(packets[s]) \in 0 .. Len(log[s])
    <3>1. Len(log[s]) \in Nat /\ Len(packets[s]) \in Nat
      BY <1>1
    <3>2. Len(packets[s]) <= Len(log[s])
      BY <2>1
    <3>. QED BY <3>1, <3>2, DifferenceInRange
  <2>. QED BY <2>1, <2>2 DEF IsTail
<1>3. ASSUME \A s \in Streams : IsTail(packets[s], log[s]), NEW s \in Streams
      PROVE  /\ Len(packets[s]) <= Len(log[s])
             /\ packets[s] = DropFronts(log[s], Len(log[s]) - Len(packets[s]))
  <2>1. log[s] \in Seq(Packet) /\ IsTail(packets[s], log[s])
    BY <1>1, <1>3
  <2>. QED BY ZenonT(60), <2>1, TailProperties
<1>. QED BY <1>2, <1>3 DEF NoHoles

\* No holes: every step leaves of each track a tail of what was inserted.
LEMMA TailStep ==
    ASSUME TypeOK, \A s \in Streams : IsTail(packets[s], log[s]), [Next]_vars, NEW q \in Streams
    PROVE  IsTail(packets'[q], log'[q])
<1>0. packets[q] \in Seq(Packet) /\ log[q] \in Seq(Packet) /\ IsTail(packets[q], log[q])
  BY DEF TypeOK
<1>1. IsTail(<<>>, <<>>)
  <2>1. <<>> \in Seq(Packet)
    OBVIOUS
  <2>. QED BY <2>1, TailReflexive
<1>2. ASSUME NEW s \in Streams, RegisterStream(s) PROVE IsTail(packets'[q], log'[q])
  BY <1>0, <1>1, <1>2 DEF RegisterStream, TypeOK
<1>3. ASSUME ClearPackets PROVE IsTail(packets'[q], log'[q])
  BY <1>1, <1>3 DEF ClearPackets, NoPackets
<1>4. CASE StartNewEpoch
  BY <1>3, <1>4 DEF StartNewEpoch
<1>5. CASE StartNewEpochPreservingStreams
  BY <1>3, <1>5 DEF StartNewEpochPreservingStreams
<1>6. ASSUME NEW s \in Streams, NEW p \in NewPackets(s), Insert(s, p)
      PROVE  IsTail(packets'[q], log'[q])
  <2>. DEFINE appended == [packets EXCEPT ![s] = Append(@, p)]
  <2>1. IsTail(packets'[q], appended[q])
    BY <1>6, InsertTails
  <2>2. p \in Packet
    BY NewPacketsType
  <2>3. log'[q] \in Seq(Packet) /\ IsTail(appended[q], log'[q])
    <3>1. CASE q = s
      <4>1. appended[q] = Append(packets[q], p) /\ log'[q] = Append(log[q], p)
        BY <1>6, <3>1 DEF Insert, TypeOK
      <4>. QED BY <1>0, <2>2, <4>1, TailOfAppend, AppendProperties
    <3>2. CASE q # s
      <4>1. appended[q] = packets[q] /\ log'[q] = log[q]
        BY <1>6, <3>2 DEF Insert, TypeOK
      <4>. QED BY <1>0, <4>1
    <3>. QED BY <3>1, <3>2
  <2>. QED BY <2>1, <2>3, TailTransitive
<1>7. ASSUME NEW r \in Retentions, SetRetention(r) PROVE IsTail(packets'[q], log'[q])
  <2>1. IsTail(packets'[q], packets[q])
    BY <1>7, EvictedTails DEF SetRetention, TypeOK
  <2>2. log' = log
    BY <1>7 DEF SetRetention
  <2>. QED BY <1>0, <2>1, <2>2, TailTransitive
<1>8. CASE UNCHANGED vars
  BY <1>0, <1>8 DEF vars
<1>. QED BY <1>2, <1>4, <1>5, <1>6, <1>7, <1>8 DEF Next

\* What is retained of a stream is always the newest part of what was inserted, so
\* no clip has a hole.
THEOREM NeverHoles == Spec => []NoHoles
<1>. DEFINE Inv == TypeOK /\ NoHoles
<1>1. Init => Inv
  <2>. SUFFICES ASSUME Init PROVE Inv
    OBVIOUS
  <2>1. TypeOK
    BY TypeInit
  <2>2. ASSUME NEW s \in Streams PROVE IsTail(packets[s], log[s])
    <3>1. packets[s] = log[s] /\ log[s] \in Seq(Packet)
      BY <2>1 DEF Init, TypeOK
    <3>. QED BY <3>1, TailReflexive
  <2>. QED BY <2>1, <2>2, HolesAndTails
<1>2. Inv /\ [Next]_vars => Inv'
  <2>. SUFFICES ASSUME TypeOK, NoHoles, [Next]_vars PROVE Inv'
    OBVIOUS
  <2>1. TypeOK'
    BY TypeStep
  <2>2. \A s \in Streams : IsTail(packets[s], log[s])
    BY HolesAndTails
  <2>3. \A q \in Streams : IsTail(packets'[q], log'[q])
    BY <2>2, TailStep
  <2>4. ASSUME NEW s \in Streams
        PROVE  /\ Len(packets'[s]) <= Len(log'[s])
               /\ packets'[s] = DropFronts(log'[s], Len(log'[s]) - Len(packets'[s]))
    <3>1. log'[s] \in Seq(Packet) /\ IsTail(packets'[s], log'[s])
      BY <2>1, <2>3 DEF TypeOK
    <3>. QED BY <3>1, TailLength
  <2>. QED BY <2>1, <2>4 DEF NoHoles
<1>. QED BY <1>1, <1>2, PTL DEF Spec

-----------------------------------------------------------------------------
(* Ingestion numbers.                                                         *)

\* Ingestion numbers: a packet present after a step was there before or is new.
LEMMA SequenceStep ==
    ASSUME TypeOK, [Next]_vars
    PROVE  /\ nextSequence' >= nextSequence
           /\ \A s \in Streams : \A i \in 1 .. Len(packets'[s]) :
                 packets'[s][i].seq >= nextSequence
                 \/ \E j \in 1 .. Len(packets[s]) : packets[s][j] = packets'[s][i]
<1>. DEFINE Kept(s) == \A i \in 1 .. Len(packets'[s]) :
                         packets'[s][i].seq >= nextSequence
                         \/ \E j \in 1 .. Len(packets[s]) : packets[s][j] = packets'[s][i]
<1>1. nextSequence' >= nextSequence
  <2>1. nextSequence \in Nat
    BY DEF TypeOK
  <2>2. nextSequence' = nextSequence \/ nextSequence' = nextSequence + 1
    <3>1. ASSUME NEW s \in Streams, RegisterStream(s) PROVE nextSequence' = nextSequence
      BY <3>1 DEF RegisterStream
    <3>2. CASE StartNewEpoch \/ StartNewEpochPreservingStreams
      BY <3>2 DEF StartNewEpoch, StartNewEpochPreservingStreams, ClearPackets
    <3>3. ASSUME NEW s \in Streams, NEW p \in NewPackets(s), Insert(s, p)
          PROVE  nextSequence' = nextSequence + 1
      BY <3>3 DEF Insert
    <3>4. ASSUME NEW r \in Retentions, SetRetention(r) PROVE nextSequence' = nextSequence
      BY <3>4 DEF SetRetention
    <3>5. CASE UNCHANGED vars
      BY <3>5 DEF vars
    <3>. QED BY <3>1, <3>2, <3>3, <3>4, <3>5 DEF Next
  <2>. QED BY <2>1, <2>2
<1>2. ASSUME NEW q \in Streams PROVE Kept(q)
  <2>0. packets[q] \in Seq(Packet)
    BY DEF TypeOK
  <2>1. ASSUME IsTail(packets'[q], packets[q]) PROVE Kept(q)
    <3>1. ASSUME NEW i \in 1 .. Len(packets'[q])
          PROVE  \E j \in 1 .. Len(packets[q]) : packets'[q][i] = packets[q][j]
      <4>1. ASSUME NEW b, IsTail(b, packets[q]), NEW k \in 1 .. Len(b)
            PROVE  \E j \in 1 .. Len(packets[q]) : b[k] = packets[q][j]
        BY <2>0, <4>1, TailSources
      <4>. QED BY <2>1, <4>1
    <3>. QED BY <3>1
  <2>2. ASSUME packets'[q] = <<>> PROVE Kept(q)
    <3>1. Len(<<>>) = 0 /\ 1 .. 0 = {}
      OBVIOUS
    <3>2. 1 .. Len(packets'[q]) = {}
      BY <2>2, <3>1
    <3>. QED BY <3>2
  <2>3. ASSUME NEW s \in Streams, RegisterStream(s) PROVE Kept(q)
    <3>1. CASE q = s
      <4>1. packets'[q] = <<>>
        BY <2>3, <3>1 DEF RegisterStream, TypeOK
      <4>. QED BY <2>2, <4>1
    <3>2. CASE q # s
      <4>1. packets'[q] = packets[q]
        BY <2>3, <3>2 DEF RegisterStream, TypeOK
      <4>. QED BY <2>0, <2>1, <4>1, TailReflexive
    <3>. QED BY <3>1, <3>2
  <2>4. CASE StartNewEpoch \/ StartNewEpochPreservingStreams
    BY <2>2, <2>4 DEF StartNewEpoch, StartNewEpochPreservingStreams, ClearPackets, NoPackets
  <2>5. ASSUME NEW s \in Streams, NEW p \in NewPackets(s), Insert(s, p) PROVE Kept(q)
    <3>. DEFINE appended == [packets EXCEPT ![s] = Append(@, p)]
    <3>1. IsTail(packets'[q], appended[q]) /\ appended[q] \in Seq(Packet)
      BY <2>5, InsertTails
    <3>2. p \in Packet /\ p.seq = nextSequence
      BY NewPacketsType
    <3>3. CASE q = s
      <4>1. appended[q] = Append(packets[q], p)
        BY <3>3 DEF TypeOK
      <4>2. /\ Len(appended[q]) = Len(packets[q]) + 1 /\ appended[q][Len(packets[q]) + 1] = p
            /\ \A i \in 1 .. Len(packets[q]) : appended[q][i] = packets[q][i]
        BY <2>0, <3>2, <4>1, AppendProperties
      <4>3. Len(packets[q]) \in Nat /\ nextSequence \in Nat
        BY <2>0, LenProperties DEF TypeOK
      <4>. HIDE DEF appended
      <4>4. ASSUME NEW i \in 1 .. Len(packets'[q])
            PROVE  \E j \in 1 .. Len(appended[q]) : packets'[q][i] = appended[q][j]
        BY <3>1, TailSources
      <4>5. ASSUME NEW j \in 1 .. Len(appended[q])
            PROVE  appended[q][j].seq >= nextSequence
                   \/ \E k \in 1 .. Len(packets[q]) : packets[q][k] = appended[q][j]
        <5>1. CASE j = Len(packets[q]) + 1
          BY <5>1, <3>2, <4>2, <4>3
        <5>2. CASE j # Len(packets[q]) + 1
          <6>1. j \in 1 .. Len(packets[q])
            BY <5>2, <4>2, <4>3
          <6>. QED BY <6>1, <4>2
        <5>. QED BY <5>1, <5>2
      <4>. QED BY <4>4, <4>5
    <3>4. CASE q # s
      <4>1. appended[q] = packets[q]
        BY <3>4 DEF TypeOK
      <4>. QED BY <2>1, <3>1, <4>1
    <3>. QED BY <3>3, <3>4
  <2>6. ASSUME NEW r \in Retentions, SetRetention(r) PROVE Kept(q)
    BY <2>1, <2>6, EvictedTails DEF SetRetention, TypeOK
  <2>7. CASE UNCHANGED vars
    BY <2>0, <2>1, <2>7, TailReflexive DEF vars
  <2>. QED BY <2>3, <2>4, <2>5, <2>6, <2>7 DEF Next
<1>. QED BY <1>1, <1>2

\* No ingestion number is ever handed out twice, across epochs too.
THEOREM NumbersNeverRestart == Spec => SequencesNeverRestart
<1>1. TypeOK /\ [Next]_vars =>
        [/\ nextSequence' >= nextSequence
         /\ \A s \in Streams : \A i \in 1 .. Len(packets'[s]) :
               packets'[s][i].seq >= nextSequence
               \/ \E j \in 1 .. Len(packets[s]) : packets[s][j] = packets'[s][i]]_vars
  BY SequenceStep
<1>. QED BY TypeInit, TypeStep, <1>1, PTL DEF Spec, SequencesNeverRestart

-----------------------------------------------------------------------------
(* The window, the memory and the clips.                                      *)
(*                                                                            *)
(* What these properties need beyond order and the absence of holes:          *)
(*  - Windowed: the newest keyframe that is old enough is the first packet of *)
(*    the video, and the other tracks start at a packet that reaches past it; *)
(*  - Spared: a packet that eviction dropped ended before the front of the    *)
(*    video, and fronts never move back while no track is replaced.  It       *)
(*    speaks of a buffer without video, too: nothing is evicted from it;      *)
(*  - Presented: a packet is presented no later than it is decoded and no     *)
(*    earlier than any packet before it is decoded, so that the first packet  *)
(*    of a track carries its least timestamp;                                 *)
(*  - Charged: the payload of replaced tracks is never negative, so that the  *)
(*    saturating subtraction never saturates.                                 *)
-----------------------------------------------------------------------------
(* Least and greatest elements.                                               *)

\* A set of numbers has a least element.
LEMMA LeastOf ==
    ASSUME NEW S \in SUBSET Nat, S # {}
    PROVE  \E k \in S : \A j \in S : k <= j
<1>. DEFINE Below == {ss \in Nat \X Nat : ss[1] < ss[2]}
<1>1. IsWellFoundedOn(Below, Nat)
  BY NatLessThanWellFounded DEF OpToRel
<1>2. PICK k \in S : \A j \in S : ~ (<<j, k>> \in Below)
  <2>. HIDE DEF Below
  <2>. QED BY <1>1, WFMin
<1>3. ASSUME NEW j \in S PROVE k <= j
  <2>1. k \in Nat /\ j \in Nat /\ ~ (<<j, k>> \in Below)
    BY <1>2
  <2>. QED BY <2>1
<1>. QED BY <1>3

\* A set of integers bounded below has a least element.
LEMMA LeastInteger ==
    ASSUME NEW S \in SUBSET Int, S # {}, NEW b \in Int, \A x \in S : b <= x
    PROVE  \E k \in S : \A j \in S : k <= j
<1>. DEFINE T == {x - b : x \in S}
<1>1. T \in SUBSET Nat /\ T # {}
  <2>1. \A x \in S : x - b \in Nat
    OBVIOUS
  <2>2. PICK x \in S : TRUE
    OBVIOUS
  <2>3. x - b \in T
    OBVIOUS
  <2>. QED BY <2>1, <2>3
<1>2. PICK t \in T : \A u \in T : t <= u
  <2>. HIDE DEF T
  <2>. QED BY <1>1, LeastOf
<1>3. PICK k \in S : t = k - b
  OBVIOUS
<1>4. ASSUME NEW j \in S PROVE k <= j
  <2>1. j - b \in T /\ j \in Int /\ k \in Int
    OBVIOUS
  <2>2. k - b <= j - b
    BY <1>2, <1>3, <2>1
  <2>. QED BY <2>1, <2>2
<1>. QED BY <1>4

\* A set of positions has a greatest element.
LEMMA GreatestOf ==
    ASSUME NEW n \in Nat, NEW S \in SUBSET (1 .. n), S # {}
    PROVE  \E k \in S : \A j \in S : j <= k
<1>. DEFINE T == {n - x : x \in S}
<1>1. T \in SUBSET Nat /\ T # {}
  <2>1. \A x \in S : n - x \in Nat
    OBVIOUS
  <2>2. PICK x \in S : TRUE
    OBVIOUS
  <2>3. n - x \in T
    OBVIOUS
  <2>. QED BY <2>1, <2>3
<1>2. PICK t \in T : \A u \in T : t <= u
  <2>. HIDE DEF T
  <2>. QED BY <1>1, LeastOf
<1>3. PICK k \in S : t = n - k
  OBVIOUS
<1>4. ASSUME NEW j \in S PROVE j <= k
  <2>1. n - j \in T /\ j \in Int /\ k \in Int
    OBVIOUS
  <2>2. n - k <= n - j
    BY <1>2, <1>3, <2>1
  <2>. QED BY <2>1, <2>2
<1>. QED BY <1>4

\* Positions that with one contain all before it are the first positions.
LEMMA PrefixPositions ==
    ASSUME NEW n \in Nat, NEW S \in SUBSET (1 .. n), \A i \in S : \A j \in 1 .. i : j \in S
    PROVE  Cardinality(S) \in 0 .. n /\ S = 1 .. Cardinality(S)
<1>1. CASE S = {}
  <2>1. Cardinality(S) = 0
    BY <1>1, FS_EmptySet
  <2>. QED BY <1>1, <2>1
<1>2. CASE S # {}
  <2>1. PICK k \in S : \A j \in S : j <= k
    BY <1>2, GreatestOf
  <2>2. k \in 1 .. n
    OBVIOUS
  <2>3. S = 1 .. k
    <3>1. ASSUME NEW j \in S PROVE j \in 1 .. k
      <4>1. j \in 1 .. n /\ j <= k
        BY <2>1
      <4>. QED BY <2>2, <4>1
    <3>2. \A j \in 1 .. k : j \in S
      OBVIOUS
    <3>. QED BY <3>1, <3>2
  <2>4. Cardinality(1 .. k) = k
    <3>1. 1 \in Int /\ k \in Int /\ 1 <= k
      BY <2>2
    <3>2. Cardinality(1 .. k) = k - 1 + 1
      BY <3>1, FS_Interval
    <3>. QED BY <3>1, <3>2
  <2>. QED BY <2>2, <2>3, <2>4
<1>. QED BY <1>1, <1>2

-----------------------------------------------------------------------------
(* What eviction leaves.                                                      *)

\* Exactly the leading packets that expired are stale: all of those have, and the
\* next one, if there is one, has not.
LEMMA StaleExactly ==
    ASSUME NEW a \in Seq(Packet), NEW t
    PROVE  LET n == StaleFronts(a, t)
           IN  /\ n \in 0 .. Len(a)
               /\ \A i \in 1 .. n : Expired(a[i], t)
               /\ n < Len(a) => ~ Expired(a[n + 1], t)
<1>. DEFINE S == {i \in 1 .. Len(a) : \A j \in 1 .. i : Expired(a[j], t)}
            n == Cardinality(S)
<1>1. Len(a) \in Nat
  BY LenProperties
<1>2. S \in SUBSET (1 .. Len(a)) /\ \A i \in S : \A j \in 1 .. i : j \in S
  BY <1>1
<1>3. n \in 0 .. Len(a) /\ S = 1 .. n
  <2>. HIDE DEF S
  <2>. QED BY <1>1, <1>2, PrefixPositions
<1>4. \A i \in 1 .. n : Expired(a[i], t)
  <2>. SUFFICES ASSUME NEW i \in 1 .. n PROVE Expired(a[i], t)
    OBVIOUS
  <2>1. i \in S
    BY <1>3
  <2>2. \A j \in 1 .. i : Expired(a[j], t)
    BY <2>1
  <2>3. i \in 1 .. i
    BY <1>3
  <2>. QED BY <2>2, <2>3
<1>5. ASSUME n < Len(a) PROVE ~ Expired(a[n + 1], t)
  <2>1. n + 1 \in 1 .. Len(a) /\ n + 1 \notin S
    <3>. HIDE DEF n, S
    <3>1. n \in Nat /\ n + 1 \in 1 .. Len(a)
      BY <1>1, <1>3, <1>5
    <3>2. n + 1 \notin 1 .. n
      BY <3>1
    <3>. QED BY <1>3, <3>1, <3>2
  <2>2. ~ \A j \in 1 .. n + 1 : Expired(a[j], t)
    BY <2>1
  <2>3. \A j \in 1 .. n + 1 : j \in 1 .. n \/ j = n + 1
    BY <1>3
  <2>. QED BY <1>4, <2>2, <2>3
<1>. QED BY <1>3, <1>4, <1>5 DEF StaleFronts

-----------------------------------------------------------------------------
(* The inductive invariant.                                                   *)

\* The part of EvictionExact that concerns what is retained.
Window(tracks, r) ==
    tracks[Video] # <<>> =>
        /\ \A i \in 2 .. Len(tracks[Video]) :
              i \notin Eligible(tracks[Video], NewestVideoDts(tracks) - r)
        /\ 1 \in Eligible(tracks[Video], NewestVideoDts(tracks) - r) =>
              \A s \in Streams \ {Video} :
                  tracks[s] # <<>> => ~ Expired(tracks[s][1], tracks[Video][1].dts)

Windowed == Window(packets, retention)

\* What the eviction dropped of one stream, all of which the stream's log holds,
\* ended before the front of the video; without video it dropped nothing.
Dropped(tracks, all, s) ==
    IF tracks[Video] = <<>> THEN Len(tracks[s]) = Len(all[s])
    ELSE \A i \in 1 .. Len(all[s]) - Len(tracks[s]) : Expired(all[s][i], tracks[Video][1].dts)

Spared ==
    replacedBytes = 0 => \A s \in Streams \ (capped \cup {Video}) : Dropped(packets, log, s)

\* The presentation times of one track.
InTime(track) ==
    /\ \A i \in 1 .. Len(track) : - MaxDts <= track[i].pts /\ track[i].pts <= track[i].dts
    /\ \A i, j \in 1 .. Len(track) : i < j => track[i].dts <= track[j].pts

Presented == \A s \in Streams : InTime(packets[s])

Charged == replacedBytes >= 0 /\ MemoryAccounted

-----------------------------------------------------------------------------
(* Eviction.                                                                  *)

\* Either no keyframe is old enough and eviction leaves everything, or the newest
\* that is becomes the front.
LEMMA EvictedCases ==
    ASSUME NEW tracks \in [Streams -> Seq(Packet)], NEW r \in Int
    PROVE  LET old == Eligible(tracks[Video], NewestVideoDts(tracks) - r)
           IN  \/ Evicted(tracks, r) = tracks /\ (tracks[Video] = <<>> \/ old = {})
               \/ /\ tracks[Video] # <<>>
                  /\ \E k \in old : /\ \A j \in old : j <= k
                                    /\ k \in 1 .. Len(tracks[Video])
                                    /\ Evicted(tracks, r) = AlignTo(tracks, k)
<1>. DEFINE old == Eligible(tracks[Video], NewestVideoDts(tracks) - r)
            from == KeepFrom(tracks[Video], NewestVideoDts(tracks) - r)
<1>1. from = {i \in old : \A j \in old : j <= i}
  BY DEF KeepFrom
<1>2. old \in SUBSET (1 .. Len(tracks[Video])) /\ Len(tracks[Video]) \in Nat
  BY StreamsAssumption, LenProperties DEF Eligible
<1>3. Evicted(tracks, r) = IF tracks[Video] = <<>> \/ from = {} THEN tracks
                           ELSE AlignTo(tracks, CHOOSE k \in from : TRUE)
  BY DEF Evicted
<1>. HIDE DEF old, from
<1>4. CASE old = {}
  <2>1. from = {}
    BY <1>1, <1>4
  <2>. QED BY <1>3, <1>4, <2>1 DEF old
<1>5. CASE tracks[Video] = <<>>
  BY <1>3, <1>5
<1>6. CASE old # {} /\ tracks[Video] # <<>>
  <2>1. from # {}
    BY <1>1, <1>2, <1>6, GreatestOf
  <2>. DEFINE k == CHOOSE i \in from : TRUE
  <2>2. k \in from
    BY <2>1
  <2>3. Evicted(tracks, r) = AlignTo(tracks, k)
    BY <1>3, <1>6, <2>1
  <2>. HIDE DEF k
  <2>4. k \in old /\ \A j \in old : j <= k
    BY <1>1, <2>2
  <2>. QED BY <1>2, <1>6, <2>3, <2>4 DEF old
<1>. QED BY <1>4, <1>5, <1>6

\* What aligning to the keyframe k leaves of the video.
LEMMA AlignedVideo ==
    ASSUME NEW tracks \in [Streams -> Seq(Packet)], NEW k \in 1 .. Len(tracks[Video])
    PROVE  /\ Len(AlignTo(tracks, k)[Video]) = Len(tracks[Video]) - (k - 1)
           /\ AlignTo(tracks, k)[Video] # <<>>
           /\ \A i \in 1 .. Len(AlignTo(tracks, k)[Video]) :
                 /\ k - 1 + i \in 1 .. Len(tracks[Video])
                 /\ AlignTo(tracks, k)[Video][i] = tracks[Video][k - 1 + i]
           /\ AlignTo(tracks, k)[Video][1] = tracks[Video][k]
           /\ NewestVideoDts(AlignTo(tracks, k)) = NewestVideoDts(tracks)
<1>. DEFINE a == tracks[Video]
            b == AlignTo(tracks, k)[Video]
<1>1. a \in Seq(Packet) /\ Len(a) \in Nat /\ k - 1 \in 0 .. Len(a) /\ k \in 1 .. Len(a)
  BY StreamsAssumption, LenProperties
<1>2. b = DropFronts(a, k - 1)
  BY StreamsAssumption DEF AlignTo
<1>. HIDE DEF a, b
<1>3. /\ b \in Seq(Packet) /\ Len(b) = Len(a) - (k - 1)
      /\ \A i \in 1 .. Len(a) - (k - 1) : b[i] = a[k - 1 + i]
  BY <1>1, <1>2, DropFrontsProperties
<1>4. Len(b) \in Nat /\ Len(b) >= 1
  BY <1>1, <1>3
<1>5. b # <<>>
  BY <1>4
<1>6. \A i \in 1 .. Len(b) : k - 1 + i \in 1 .. Len(a) /\ b[i] = a[k - 1 + i]
  BY <1>1, <1>3
<1>7. b[1] = a[k] /\ b[Len(b)] = a[Len(a)]
  <2>1. 1 \in 1 .. Len(b) /\ Len(b) \in 1 .. Len(b) /\ k - 1 + 1 = k /\ k - 1 + Len(b) = Len(a)
    BY <1>1, <1>3, <1>4
  <2>. QED BY <1>6, <2>1
<1>. QED BY <1>3, <1>5, <1>6, <1>7 DEF NewestVideoDts, a, b

\* What it leaves of another stream: everything but the packets that expired at the
\* front, up to the first that did not.
LEMMA AlignedOther ==
    ASSUME NEW tracks \in [Streams -> Seq(Packet)], NEW k \in 1 .. Len(tracks[Video]),
           NEW s \in Streams \ {Video}
    PROVE  LET t == tracks[Video][k].dts
               gone == Len(tracks[s]) - Len(AlignTo(tracks, k)[s])
           IN  /\ gone \in 0 .. Len(tracks[s])
               /\ \A i \in 1 .. gone : Expired(tracks[s][i], t)
               /\ AlignTo(tracks, k)[s] # <<>> => ~ Expired(AlignTo(tracks, k)[s][1], t)
<1>. DEFINE a == tracks[s]
            b == AlignTo(tracks, k)[s]
            t == tracks[Video][k].dts
            n == StaleFronts(a, t)
<1>1. a \in Seq(Packet) /\ Len(a) \in Nat
  BY LenProperties
<1>2. b = DropFronts(a, n)
  BY DEF AlignTo
<1>. HIDE DEF a, b, t
<1>3. n \in 0 .. Len(a) /\ (\A i \in 1 .. n : Expired(a[i], t))
      /\ (n < Len(a) => ~ Expired(a[n + 1], t))
  BY <1>1, StaleExactly
<1>. HIDE DEF n
<1>4. /\ b \in Seq(Packet) /\ Len(b) = Len(a) - n
      /\ \A i \in 1 .. Len(a) - n : b[i] = a[n + i]
  BY ZenonT(60), <1>1, <1>2, <1>3, DropFrontsProperties
<1>5. Len(a) - Len(b) = n
  BY <1>1, <1>3, <1>4
<1>6. ASSUME b # <<>> PROVE ~ Expired(b[1], t)
  <2>1. Len(b) # 0 /\ Len(b) \in Nat
    BY <1>4, <1>6, EmptySeq, LenProperties
  <2>2. 1 \in 1 .. Len(a) - n /\ n < Len(a)
    BY <1>1, <1>3, <1>4, <2>1
  <2>. QED BY <1>3, <1>4, <2>2
<1>. QED BY <1>3, <1>5, <1>6 DEF a, b, t

\* Eviction establishes the window, whatever the tracks were.
LEMMA EvictedWindow ==
    ASSUME NEW tracks \in [Streams -> Seq(Packet)], NEW r \in Int
    PROVE  Window(Evicted(tracks, r), r)
<1>. DEFINE old == Eligible(tracks[Video], NewestVideoDts(tracks) - r)
            e == Evicted(tracks, r)
<1>1. CASE e = tracks /\ (tracks[Video] = <<>> \/ old = {})
  <2>1. Window(tracks, r)
    BY <1>1 DEF Window
  <2>. QED BY <1>1, <2>1
<1>2. CASE tracks[Video] # <<>> /\ \E k \in old : /\ \A j \in old : j <= k
                                                  /\ k \in 1 .. Len(tracks[Video])
                                                  /\ e = AlignTo(tracks, k)
  <2>1. PICK k \in old : /\ \A j \in old : j <= k
                         /\ k \in 1 .. Len(tracks[Video])
                         /\ e = AlignTo(tracks, k)
    BY <1>2
  <2>. HIDE DEF e
  <2>2. /\ Len(e[Video]) = Len(tracks[Video]) - (k - 1)
        /\ \A i \in 1 .. Len(e[Video]) : /\ k - 1 + i \in 1 .. Len(tracks[Video])
                                         /\ e[Video][i] = tracks[Video][k - 1 + i]
        /\ e[Video][1] = tracks[Video][k]
        /\ NewestVideoDts(e) = NewestVideoDts(tracks)
    BY <2>1, AlignedVideo
  <2>3. ASSUME NEW i \in 2 .. Len(e[Video])
        PROVE  i \notin Eligible(e[Video], NewestVideoDts(e) - r)
    <3>1. Len(tracks[Video]) \in Nat
      BY StreamsAssumption, LenProperties
    <3>2. i \in 1 .. Len(e[Video]) /\ k - 1 + i > k /\ k - 1 + i \in Int
      BY <2>1, <2>2, <3>1
    <3>3. k - 1 + i \notin old
      BY <2>1, <3>2
    <3>. QED BY <2>2, <3>2, <3>3 DEF Eligible
  <2>4. ASSUME NEW s \in Streams \ {Video}, e[s] # <<>>
        PROVE  ~ Expired(e[s][1], e[Video][1].dts)
    BY <2>1, <2>2, <2>4, AlignedOther
  <2>. QED BY <2>3, <2>4 DEF Window, e
<1>. QED BY <1>1, <1>2, EvictedCases

\* An expired packet stays expired as the front moves on.
LEMMA ExpiredLater ==
    ASSUME NEW p \in Packet, NEW t \in Int, NEW u \in Int, t <= u, Expired(p, t)
    PROVE  Expired(p, u)
BY DEF Expired, Packet

\* What eviction drops on top of what it had dropped before also ended before the
\* front, which has moved on.
LEMMA EvictedDropped ==
    ASSUME NEW tracks \in [Streams -> Seq(Packet)], NEW r \in Int,
           NEW all \in [Streams -> Seq(Packet)], NEW s \in Streams \ {Video},
           IsTail(tracks[s], all[s]), Dropped(tracks, all, s),
           \A i, j \in 1 .. Len(tracks[Video]) :
              i < j => tracks[Video][i].dts <= tracks[Video][j].dts
    PROVE  Dropped(Evicted(tracks, r), all, s)
<1>. DEFINE old == Eligible(tracks[Video], NewestVideoDts(tracks) - r)
            e == Evicted(tracks, r)
<1>1. CASE e = tracks
  <2>. HIDE DEF e
  <2>1. Dropped(e, all, s)
    BY <1>1
  <2>. QED BY <2>1 DEF e
<1>2. CASE tracks[Video] # <<>> /\ \E k \in old : /\ \A j \in old : j <= k
                                                  /\ k \in 1 .. Len(tracks[Video])
                                                  /\ e = AlignTo(tracks, k)
  <2>1. PICK k \in old : k \in 1 .. Len(tracks[Video]) /\ e = AlignTo(tracks, k)
    BY <1>2
  <2>. HIDE DEF e
  <2>2. e[Video] # <<>> /\ e[Video][1] = tracks[Video][k]
    BY <2>1, AlignedVideo
  <2>. DEFINE front == tracks[Video][1].dts
              next == tracks[Video][k].dts
              L == Len(all[s])
              d == L - Len(tracks[s])
              gone == Len(tracks[s]) - Len(e[s])
  <2>3. front \in Int /\ next \in Int /\ front <= next
    <3>1. tracks[Video] \in Seq(Packet) /\ Len(tracks[Video]) \in Nat
      BY StreamsAssumption, LenProperties
    <3>2. 1 \in 1 .. Len(tracks[Video]) /\ k \in 1 .. Len(tracks[Video])
      BY <2>1, <3>1
    <3>3. tracks[Video][1] \in Packet /\ tracks[Video][k] \in Packet
      BY <3>1, <3>2, ElementOfSeq
    <3>4. front \in Int /\ next \in Int
      BY <3>3 DEF Packet
    <3>5. k = 1 \/ 1 < k
      BY <3>2
    <3>. QED BY <3>2, <3>4, <3>5
  <2>4. /\ gone \in 0 .. Len(tracks[s])
        /\ \A i \in 1 .. gone : Expired(tracks[s][i], next)
    BY <2>1, AlignedOther
  <2>5. /\ Len(tracks[s]) \in Nat /\ Len(tracks[s]) <= L
        /\ \A i \in 1 .. Len(tracks[s]) : d + i \in 1 .. L /\ tracks[s][i] = all[s][d + i]
    BY TailProperties
  <2>6. L \in Nat /\ \A i \in 1 .. L : all[s][i] \in Packet
    BY LenProperties, ElementOfSeq
  <2>7. \A i \in 1 .. d : Expired(all[s][i], front)
    BY <1>2 DEF Dropped
  <2>8. L - Len(e[s]) = d + gone
    <3>1. Len(e[s]) \in Int
      BY <2>4, <2>5, EvictedTails, LenProperties DEF e
    <3>. QED BY <2>5, <2>6, <3>1
  <2>. HIDE DEF front, next
  <2>9. ASSUME NEW i \in 1 .. L - Len(e[s]) PROVE Expired(all[s][i], next)
    <3>1. d \in Nat /\ d <= L /\ i \in 1 .. d + gone
      BY <2>5, <2>6, <2>8
    <3>2. CASE i <= d
      <4>1. i \in 1 .. d /\ i \in 1 .. L
        BY <2>6, <3>1, <3>2
      <4>. QED BY <2>3, <2>6, <2>7, <4>1, ExpiredLater
    <3>3. CASE i > d
      <4>1. gone \in Nat /\ gone <= Len(tracks[s])
        BY <2>4, <2>5
      <4>. HIDE DEF d, gone, L
      <4>2. i - d \in 1 .. gone /\ i - d \in 1 .. Len(tracks[s]) /\ d + (i - d) = i
        BY <2>5, <3>1, <3>3, <4>1
      <4>. QED BY <2>4, <2>5, <4>2
    <3>. QED BY <3>1, <3>2, <3>3
  <2>. QED BY <2>2, <2>9 DEF Dropped, e, next
<1>. QED BY <1>1, <1>2, EvictedCases

\* A tail that is not empty starts no earlier than the track.
LEMMA FrontMovesOn ==
    ASSUME NEW a \in Seq(Packet), NEW b, IsTail(b, a), b # <<>>,
           \A i, j \in 1 .. Len(a) : i < j => a[i].dts <= a[j].dts
    PROVE  /\ a # <<>> /\ a[1].dts \in Int /\ b[1].dts \in Int
           /\ a[1].dts <= b[1].dts
<1>1. /\ b \in Seq(Packet) /\ Len(b) \in Nat /\ Len(b) <= Len(a)
      /\ \A i \in 1 .. Len(b) : /\ Len(a) - Len(b) + i \in 1 .. Len(a)
                                 /\ b[i] = a[Len(a) - Len(b) + i]
  BY TailProperties
<1>2. Len(b) # 0 /\ Len(a) \in Nat
  BY <1>1, EmptySeq, LenProperties
<1>. DEFINE k == Len(a) - Len(b) + 1
<1>3. 1 \in 1 .. Len(b) /\ 1 \in 1 .. Len(a) /\ k \in 1 .. Len(a) /\ (k = 1 \/ 1 < k)
  BY <1>1, <1>2
<1>4. b[1] = a[k]
  BY <1>1, <1>3
<1>5. a[1] \in Packet /\ a[k] \in Packet
  BY <1>3, ElementOfSeq
<1>6. a # <<>>
  BY <1>2, <1>3, EmptySeq
<1>. HIDE DEF k
<1>7. a[1].dts \in Int /\ a[k].dts \in Int
  BY <1>5 DEF Packet
<1>8. a[1].dts <= a[k].dts
  BY <1>3, <1>7
<1>. QED BY <1>4, <1>6, <1>7, <1>8

-----------------------------------------------------------------------------
(* What insert and a retention change do, before and by eviction.             *)

\* The tracks an insert hands to eviction: the packet's own, trimmed, and the others.
LEMMA InsertParts ==
    ASSUME TypeOK, NEW s \in Streams, NEW p \in NewPackets(s), Insert(s, p)
    PROVE  \E trimmed \in [Streams -> Seq(Packet)] :
              /\ packets' = Evicted(trimmed, retention)
              /\ Append(packets[s], p) \in Seq(Packet)
              /\ trimmed[s] = TrimToCap(Append(packets[s], p))
              /\ IsTail(trimmed[s], Append(packets[s], p)) /\ trimmed[s] # <<>>
              /\ \A q \in Streams \ {s} : trimmed[q] = packets[q]
              /\ trimmed[s] # Append(packets[s], p) => capped' = capped \cup {s}
              /\ trimmed[s] = Append(packets[s], p) => capped' = capped
<1>. DEFINE more == Append(packets[s], p)
            appended == [packets EXCEPT ![s] = Append(@, p)]
            trimmed == [appended EXCEPT ![s] = TrimToCap(@)]
<1>1. p \in Packet /\ packets \in [Streams -> Seq(Packet)]
  BY NewPacketsType DEF TypeOK
<1>2. more \in Seq(Packet) /\ Len(more) = Len(packets[s]) + 1 /\ Len(packets[s]) \in Nat
  BY <1>1, AppendProperties, LenProperties
<1>3. /\ appended \in [Streams -> Seq(Packet)] /\ appended[s] = more
      /\ \A q \in Streams \ {s} : appended[q] = packets[q]
  BY <1>1, <1>2
<1>4. packets' = Evicted(trimmed, retention)
      /\ capped' = IF trimmed = appended THEN capped ELSE capped \cup {s}
  BY DEF Insert
<1>. HIDE DEF appended, more
<1>5. IsTail(TrimToCap(more), more) /\ TrimToCap(more) \in Seq(Packet)
  BY <1>2, TrimmedTail, TailProperties
<1>6. TrimToCap(more) # <<>>
  <2>1. Len(more) \in Nat /\ Len(more) >= 1
    BY <1>2
  <2>2. (IF Len(more) > Cap THEN Len(more) - Cap ELSE 0) \in 0 .. Len(more)
    BY <2>1, CapAssumption
  <2>3. Len(TrimToCap(more)) = Len(more) - (IF Len(more) > Cap THEN Len(more) - Cap ELSE 0)
    BY <1>2, <2>2, DropFrontsProperties DEF TrimToCap
  <2>4. Len(TrimToCap(more)) # 0
    BY <2>1, <2>3, CapAssumption
  <2>. QED BY <2>4
<1>7. /\ trimmed \in [Streams -> Seq(Packet)] /\ trimmed[s] = TrimToCap(more)
      /\ \A q \in Streams \ {s} : trimmed[q] = packets[q]
  BY <1>3, <1>5
<1>8. trimmed[s] = more <=> trimmed = appended
  BY <1>3
<1>. HIDE DEF trimmed
<1>. QED BY <1>2, <1>4, <1>5, <1>6, <1>7, <1>8 DEF more

\* The tracks insert hands over are in decode order, too.
LEMMA TrimmedOrdered ==
    ASSUME TypeOK, TracksOrdered, NEW s \in Streams, NEW p \in NewPackets(s), Insert(s, p)
    PROVE  \A q \in Streams : \A b :
              (q = s /\ IsTail(b, Append(packets[s], p))) \/ (q # s /\ b = packets[q])
                 => \A i, j \in 1 .. Len(b) : i < j => b[i].dts <= b[j].dts
<1>1. \A q \in Streams : Ordered(packets[q], nextSequence, lastDts[q]) /\ packets[q] \in Seq(Packet)
  BY OrderedTracks DEF TypeOK
<1>2. p \in Packet /\ p.seq = nextSequence /\ nextSequence \in Nat
      /\ lastDts[s] \in Int \cup {NoDts}
  BY NewPacketsType DEF TypeOK
<1>3. lastDts[s] # NoDts => p.dts >= lastDts[s]
  BY DEF Insert, InOrder
<1>4. Ordered(Append(packets[s], p), nextSequence + 1, p.dts)
      /\ Append(packets[s], p) \in Seq(Packet)
  BY <1>1, <1>2, <1>3, AppendOrdered, AppendProperties
<1>5. ASSUME NEW b, IsTail(b, Append(packets[s], p))
      PROVE  \A i, j \in 1 .. Len(b) : i < j => b[i].dts <= b[j].dts
  <2>1. Ordered(b, nextSequence + 1, p.dts)
    BY <1>2, <1>4, <1>5, TailOrdered
  <2>. QED BY <2>1 DEF Ordered
<1>6. ASSUME NEW q \in Streams
      PROVE  \A i, j \in 1 .. Len(packets[q]) : i < j => packets[q][i].dts <= packets[q][j].dts
  BY <1>1 DEF Ordered
<1>. QED BY <1>5, <1>6

-----------------------------------------------------------------------------
(* The window: every step.                                                    *)

LEMMA WindowStep == TypeOK /\ Windowed /\ [Next]_vars => Windowed'
<1>. SUFFICES ASSUME TypeOK, Windowed, [Next]_vars PROVE Window(packets', retention')
  BY DEF Windowed
<1>0. packets \in [Streams -> Seq(Packet)] /\ retention \in Int /\ Video \in Streams
  BY StreamsAssumption DEF TypeOK
<1>1. ASSUME NEW s \in Streams, RegisterStream(s) PROVE Window(packets', retention')
  <2>1. /\ packets'[s] = <<>> /\ \A q \in Streams \ {s} : packets'[q] = packets[q]
        /\ retention' = retention
    BY <1>0, <1>1 DEF RegisterStream
  <2>2. CASE s = Video
    BY <2>1, <2>2 DEF Window
  <2>3. CASE s # Video
    <3>1. packets'[Video] = packets[Video]
      BY <1>0, <2>1, <2>3
    <3>. QED BY <2>1, <3>1 DEF Windowed, Window, NewestVideoDts
  <2>. QED BY <2>2, <2>3
<1>2. CASE StartNewEpoch \/ StartNewEpochPreservingStreams
  BY <1>0, <1>2
  DEF StartNewEpoch, StartNewEpochPreservingStreams, ClearPackets, NoPackets, Window
<1>3. ASSUME NEW s \in Streams, NEW p \in NewPackets(s), Insert(s, p)
      PROVE  Window(packets', retention')
  <2>1. PICK trimmed \in [Streams -> Seq(Packet)] : packets' = Evicted(trimmed, retention)
    BY <1>3, InsertParts
  <2>2. retention' = retention
    BY <1>3 DEF Insert
  <2>. QED BY <1>0, <2>1, <2>2, EvictedWindow
<1>4. ASSUME NEW r \in Retentions, SetRetention(r) PROVE Window(packets', retention')
  <2>1. r \in Int /\ retention' = r /\ packets' = Evicted(packets, r)
    BY <1>4, RetentionsAssumption DEF SetRetention
  <2>. QED BY <1>0, <2>1, EvictedWindow
<1>5. CASE UNCHANGED vars
  BY <1>5 DEF vars, Windowed
<1>. QED BY <1>1, <1>2, <1>3, <1>4, <1>5 DEF Next

-----------------------------------------------------------------------------
(* Presentation times.                                                        *)

\* The part of a packet presentation times speak of.
LEMMA PacketTimes ==
    ASSUME NEW a \in Seq(Packet), NEW i \in 1 .. Len(a)
    PROVE  a[i].dts \in Int /\ a[i].pts \in Int /\ a[i].duration \in Nat
<1>1. a[i] \in Packet
  BY ElementOfSeq
<1>. QED BY <1>1 DEF Packet

\* A tail of a track in time is in time.
LEMMA TailInTime ==
    ASSUME NEW a \in Seq(Packet), NEW b, IsTail(b, a), InTime(a)
    PROVE  InTime(b)
<1>. DEFINE off == Len(a) - Len(b)
<1>1. /\ Len(b) \in Nat
      /\ \A i \in 1 .. Len(b) : off + i \in 1 .. Len(a) /\ b[i] = a[off + i]
  BY TailProperties
<1>2. Len(a) \in Nat
  BY LenProperties
<1>3. \A i, j \in 1 .. Len(b) : i < j => off + i < off + j
  BY <1>1, <1>2
<1>. HIDE DEF off
<1>. QED BY <1>1, <1>3 DEF InTime

\* What an encoder hands over is presented no later than decoded, and no earlier
\* than the last packet before it was decoded.
LEMMA NewPacketTimes ==
    ASSUME TypeOK, NEW s \in Streams, NEW p \in NewPackets(s), Insert(s, p)
    PROVE  /\ p \in Packet /\ - MaxDts <= p.pts /\ p.pts <= p.dts
           /\ lastDts[s] # NoDts => lastDts[s] <= p.pts
<1>1. /\ p \in Packet /\ p.dts \in 0 .. MaxDts /\ p.pts \in (- MaxDts) .. MaxDts
      /\ p.dts - p.pts \in Lags
      /\ lastDts[s] # NoDts => p.dts = p.pts \/ p.pts >= lastDts[s]
  BY NewPacketsType DEF NewPackets
<1>2. MaxDts \in Nat /\ Lags \subseteq Nat
  BY BoundsAssumption, TimesAssumption
<1>3. p.dts \in Int /\ p.pts \in Int /\ - MaxDts <= p.pts
  BY <1>1, <1>2
<1>4. p.pts <= p.dts
  <2>1. p.dts - p.pts \in Nat
    BY <1>1, <1>2
  <2>. QED BY <1>3, <2>1
<1>5. ASSUME lastDts[s] # NoDts PROVE lastDts[s] <= p.pts
  <2>1. lastDts[s] \in Int /\ p.dts >= lastDts[s]
    BY <1>5 DEF Insert, InOrder, TypeOK
  <2>. QED BY <1>1, <1>3, <1>5, <2>1
<1>. QED BY <1>1, <1>3, <1>4, <1>5

\* Appending such a packet keeps a track in time.
LEMMA AppendInTime ==
    ASSUME NEW a \in Seq(Packet), NEW n, NEW d \in Int \cup {NoDts}, Ordered(a, n, d), InTime(a),
           NEW p \in Packet, - MaxDts <= p.pts, p.pts <= p.dts, d # NoDts => d <= p.pts
    PROVE  InTime(Append(a, p))
<1>. DEFINE b == Append(a, p)
<1>1. /\ b \in Seq(Packet) /\ Len(b) = Len(a) + 1 /\ b[Len(a) + 1] = p
      /\ \A i \in 1 .. Len(a) : b[i] = a[i]
  BY AppendProperties
<1>2. Len(a) \in Nat /\ p.pts \in Int
  BY LenProperties DEF Packet
<1>3. ASSUME NEW i \in 1 .. Len(a) PROVE a[i].dts <= p.pts
  <2>1. a[i].dts \in Int /\ d # NoDts /\ a[i].dts <= d
    BY PacketTimes DEF Ordered
  <2>2. d \in Int /\ d <= p.pts
    BY <2>1
  <2>. QED BY <1>2, <2>1, <2>2
<1>. HIDE DEF b
<1>4. ASSUME NEW i \in 1 .. Len(b) PROVE - MaxDts <= b[i].pts /\ b[i].pts <= b[i].dts
  <2>1. CASE i = Len(a) + 1
    BY <1>1, <2>1
  <2>2. CASE i # Len(a) + 1
    <3>1. i \in 1 .. Len(a)
      BY <1>1, <1>2, <2>2
    <3>. QED BY <1>1, <3>1 DEF InTime
  <2>. QED BY <2>1, <2>2
<1>5. ASSUME NEW i \in 1 .. Len(b), NEW j \in 1 .. Len(b), i < j PROVE b[i].dts <= b[j].pts
  <2>1. i \in 1 .. Len(a)
    BY <1>1, <1>2, <1>5
  <2>2. CASE j = Len(a) + 1
    BY <1>1, <1>3, <2>1, <2>2
  <2>3. CASE j # Len(a) + 1
    <3>1. j \in 1 .. Len(a)
      BY <1>1, <1>2, <2>3
    <3>. QED BY <1>1, <1>5, <2>1, <3>1 DEF InTime
  <2>. QED BY <2>2, <2>3
<1>6. InTime(b)
  BY <1>4, <1>5 DEF InTime
<1>. QED BY <1>6 DEF b

\* A track without packets is in time.
LEMMA EmptyInTime == InTime(<<>>)
BY DEF InTime

\* Presentation times: every step.
LEMMA PresentedStep == TypeOK /\ TracksOrdered /\ Presented /\ [Next]_vars => Presented'
<1>. SUFFICES ASSUME TypeOK, TracksOrdered, Presented, [Next]_vars, NEW q \in Streams
              PROVE  InTime(packets'[q])
  BY DEF Presented
<1>0. /\ packets \in [Streams -> Seq(Packet)] /\ InTime(packets[q])
      /\ Ordered(packets[q], nextSequence, lastDts[q])
  BY OrderedTracks DEF TypeOK, Presented
<1>1. ASSUME NEW s \in Streams, RegisterStream(s) PROVE InTime(packets'[q])
  BY <1>0, <1>1, EmptyInTime DEF RegisterStream
<1>2. CASE StartNewEpoch \/ StartNewEpochPreservingStreams
  BY <1>2, EmptyInTime
  DEF StartNewEpoch, StartNewEpochPreservingStreams, ClearPackets, NoPackets
<1>3. ASSUME NEW s \in Streams, NEW p \in NewPackets(s), Insert(s, p)
      PROVE  InTime(packets'[q])
  <2>. DEFINE appended == [packets EXCEPT ![s] = Append(@, p)]
  <2>1. IsTail(packets'[q], appended[q]) /\ appended[q] \in Seq(Packet)
    BY <1>3, InsertTails
  <2>2. InTime(appended[q])
    <3>1. CASE q = s
      <4>1. appended[q] = Append(packets[q], p)
        BY <1>0, <3>1
      <4>2. lastDts[q] \in Int \cup {NoDts} /\ packets[q] \in Seq(Packet)
        BY DEF TypeOK
      <4>3. /\ p \in Packet /\ - MaxDts <= p.pts /\ p.pts <= p.dts
            /\ lastDts[q] # NoDts => lastDts[q] <= p.pts
        BY <1>3, <3>1, NewPacketTimes
      <4>4. InTime(Append(packets[q], p))
        BY <1>0, <4>2, <4>3, AppendInTime
      <4>. QED BY <4>1, <4>4
    <3>2. CASE q # s
      BY <1>0, <3>2
    <3>. QED BY <3>1, <3>2
  <2>. HIDE DEF appended
  <2>. QED BY <2>1, <2>2, TailInTime
<1>4. ASSUME NEW r \in Retentions, SetRetention(r) PROVE InTime(packets'[q])
  <2>1. IsTail(packets'[q], packets[q])
    BY <1>0, <1>4, EvictedTails DEF SetRetention
  <2>. QED BY <1>0, <2>1, TailInTime
<1>5. CASE UNCHANGED vars
  BY <1>0, <1>5 DEF vars
<1>. QED BY <1>1, <1>2, <1>3, <1>4, <1>5 DEF Next

-----------------------------------------------------------------------------
(* Memory.                                                                    *)

\* The slots of a family of tracks are finitely many.
LEMMA SlotsFinite ==
    ASSUME NEW tracks \in [Streams -> Seq(Packet)]
    PROVE  IsFiniteSet(Slots(tracks))
<1>. DEFINE slotsOf == [s \in Streams |-> {s} \X (1 .. Len(tracks[s]))]
            T == {slotsOf[s] : s \in Streams}
<1>1. IsFiniteSet(T)
  <2>1. slotsOf \in Surjection(Streams, T)
    BY DEF Surjection
  <2>2. IsFiniteSet(Streams)
    BY StreamsAssumption
  <2>. QED BY <2>1, <2>2, FS_Surjection
<1>2. ASSUME NEW X \in T PROVE IsFiniteSet(X)
  <2>1. PICK s \in Streams : X = {s} \X (1 .. Len(tracks[s]))
    OBVIOUS
  <2>2. 1 \in Int /\ Len(tracks[s]) \in Int
    BY LenProperties
  <2>3. IsFiniteSet({s}) /\ IsFiniteSet(1 .. Len(tracks[s]))
    BY <2>2, FS_Singleton, FS_Interval
  <2>. QED BY <2>1, <2>3, FS_Product
<1>3. Slots(tracks) = UNION T
  BY DEF Slots
<1>. QED BY <1>1, <1>2, <1>3, FS_UNION

\* The slots of the keyframes.
KeySlots(tracks) == {x \in Slots(tracks) : tracks[x[1]][x[2]].key}

LEMMA PayloadParts ==
    ASSUME NEW tracks \in [Streams -> Seq(Packet)]
    PROVE  /\ IsFiniteSet(Slots(tracks)) /\ Cardinality(Slots(tracks)) \in Nat
           /\ IsFiniteSet(KeySlots(tracks)) /\ Cardinality(KeySlots(tracks)) \in Nat
           /\ PayloadBytes(tracks)
                = Cardinality(Slots(tracks)) + (KeyBytes - 1) * Cardinality(KeySlots(tracks))
<1>1. IsFiniteSet(Slots(tracks))
  BY SlotsFinite
<1>2. KeySlots(tracks) \in SUBSET Slots(tracks)
  BY DEF KeySlots
<1>3. IsFiniteSet(KeySlots(tracks))
  BY <1>1, <1>2, FS_Subset
<1>. QED BY <1>1, <1>3, FS_CardinalityType DEF PayloadBytes, KeySlots

\* More keyframes weigh more.
LEMMA WeightMonotonic ==
    ASSUME NEW k \in Nat, NEW a \in Nat, NEW b \in Nat, a <= b
    PROVE  k * a \in Nat /\ k * b \in Nat /\ k * a <= k * b /\ k * (a + 1) = k * a + k
<1>1. k * (b - a) \in Nat /\ b - a \in Nat
  OBVIOUS
<1>2. k * b = k * a + k * (b - a)
  BY <1>1
<1>. QED BY <1>1, <1>2

\* An appended packet adds its own size.
LEMMA PayloadAppend ==
    ASSUME NEW tracks \in [Streams -> Seq(Packet)], NEW s \in Streams, NEW p \in Packet
    PROVE  PayloadBytes([tracks EXCEPT ![s] = Append(@, p)])
             = PayloadBytes(tracks) + (IF p.key THEN KeyBytes ELSE 1)
<1>. DEFINE more == [tracks EXCEPT ![s] = Append(@, p)]
            x == <<s, Len(tracks[s]) + 1>>
<1>1. /\ Append(tracks[s], p) \in Seq(Packet)
      /\ Len(Append(tracks[s], p)) = Len(tracks[s]) + 1
      /\ Append(tracks[s], p)[Len(tracks[s]) + 1] = p
      /\ \A i \in 1 .. Len(tracks[s]) : Append(tracks[s], p)[i] = tracks[s][i]
      /\ Len(tracks[s]) \in Nat
  BY AppendProperties, LenProperties
<1>2. /\ more \in [Streams -> Seq(Packet)] /\ more[s] = Append(tracks[s], p)
      /\ \A q \in Streams \ {s} : more[q] = tracks[q]
  BY <1>1
<1>. HIDE DEF more
<1>3. Slots(more) = Slots(tracks) \cup {x} /\ x \notin Slots(tracks)
  <2>1. \A y : y \in Slots(tracks) <=> \E q \in Streams : \E i \in 1 .. Len(tracks[q]) : y = <<q, i>>
    BY DEF Slots
  <2>2. \A y : y \in Slots(more) <=> \E q \in Streams : \E i \in 1 .. Len(more[q]) : y = <<q, i>>
    BY DEF Slots
  <2>3. 1 .. Len(more[s]) = (1 .. Len(tracks[s])) \cup {Len(tracks[s]) + 1}
    BY <1>1, <1>2
  <2>4. x \notin Slots(tracks)
    <3>1. Len(tracks[s]) + 1 \notin 1 .. Len(tracks[s])
      BY <1>1
    <3>. QED BY <2>1, <3>1
  <2>5. ASSUME NEW y \in Slots(more) PROVE y \in Slots(tracks) \cup {x}
    <3>1. PICK q \in Streams : \E i \in 1 .. Len(more[q]) : y = <<q, i>>
      BY <2>2
    <3>2. PICK i \in 1 .. Len(more[q]) : y = <<q, i>>
      BY <3>1
    <3>3. CASE q = s /\ i = Len(tracks[s]) + 1
      BY <3>2, <3>3
    <3>4. CASE ~ (q = s /\ i = Len(tracks[s]) + 1)
      <4>1. i \in 1 .. Len(tracks[q])
        BY <1>2, <2>3, <3>4
      <4>. QED BY <2>1, <3>2, <4>1
    <3>. QED BY <3>3, <3>4
  <2>6. ASSUME NEW y \in Slots(tracks) \cup {x} PROVE y \in Slots(more)
    <3>1. CASE y = x
      <4>1. Len(tracks[s]) + 1 \in 1 .. Len(more[s])
        BY <2>3
      <4>. QED BY <2>2, <3>1, <4>1
    <3>2. CASE y \in Slots(tracks)
      <4>1. PICK q \in Streams : \E i \in 1 .. Len(tracks[q]) : y = <<q, i>>
        BY <2>1, <3>2
      <4>2. PICK i \in 1 .. Len(tracks[q]) : y = <<q, i>>
        BY <4>1
      <4>3. i \in 1 .. Len(more[q])
        BY <1>2, <2>3
      <4>. QED BY <2>2, <4>2, <4>3
    <3>. QED BY <3>1, <3>2
  <2>. QED BY <2>4, <2>5, <2>6
<1>4. \A y \in Slots(tracks) : more[y[1]][y[2]] = tracks[y[1]][y[2]]
  <2>. SUFFICES ASSUME NEW q \in Streams, NEW i \in 1 .. Len(tracks[q])
                PROVE  more[q][i] = tracks[q][i]
    BY DEF Slots
  <2>. QED BY <1>1, <1>2
<1>5. more[x[1]][x[2]] = p
  BY <1>1, <1>2
<1>6. KeySlots(more) = IF p.key THEN KeySlots(tracks) \cup {x} ELSE KeySlots(tracks)
  <2>. HIDE DEF x
  <2>. QED BY <1>3, <1>4, <1>5 DEF KeySlots
<1>7. x \notin KeySlots(tracks)
  BY <1>3 DEF KeySlots
<1>. DEFINE c == Cardinality(Slots(tracks))
            k == Cardinality(KeySlots(tracks))
<1>8. c \in Nat /\ k \in Nat /\ KeyBytes - 1 \in Nat /\ KeyBytes \in Nat
  BY PayloadParts, KeyBytesAssumption
<1>. HIDE DEF x
<1>9. Cardinality(Slots(more)) = c + 1
  BY <1>3, PayloadParts, FS_AddElement
<1>10. Cardinality(KeySlots(more)) = IF p.key THEN k + 1 ELSE k
  BY <1>6, <1>7, PayloadParts, FS_AddElement
<1>11. /\ PayloadBytes(more) = Cardinality(Slots(more)) + (KeyBytes - 1) * Cardinality(KeySlots(more))
       /\ PayloadBytes(tracks) = c + (KeyBytes - 1) * k
  BY <1>2, PayloadParts
<1>. HIDE DEF c, k
<1>12. CASE p.key
  <2>1. (KeyBytes - 1) * (k + 1) = (KeyBytes - 1) * k + (KeyBytes - 1)
        /\ (KeyBytes - 1) * k \in Nat
    BY <1>8, WeightMonotonic
  <2>2. PayloadBytes(more) = (c + 1) + ((KeyBytes - 1) * k + (KeyBytes - 1))
    BY <1>9, <1>10, <1>11, <1>12, <2>1
  <2>3. PayloadBytes(more) = PayloadBytes(tracks) + KeyBytes
    BY <1>8, <1>11, <2>1, <2>2
  <2>. QED BY <1>12, <2>3 DEF more
<1>13. CASE ~ p.key
  <2>1. (KeyBytes - 1) * k \in Nat
    BY <1>8, WeightMonotonic
  <2>2. PayloadBytes(more) = PayloadBytes(tracks) + 1
    BY <1>8, <1>9, <1>10, <1>11, <1>13, <2>1
  <2>. QED BY <1>13, <2>2 DEF more
<1>. QED BY <1>12, <1>13

\* Emptying a track takes away its payload, which is nothing only if it was empty.
LEMMA PayloadEmptied ==
    ASSUME NEW tracks \in [Streams -> Seq(Packet)], NEW s \in Streams
    PROVE  LET less == [tracks EXCEPT ![s] = <<>>]
           IN  /\ PayloadBytes(less) \in Nat /\ PayloadBytes(less) <= PayloadBytes(tracks)
               /\ PayloadBytes(less) = PayloadBytes(tracks) => tracks[s] = <<>>
<1>. DEFINE less == [tracks EXCEPT ![s] = <<>>]
<1>1. /\ less \in [Streams -> Seq(Packet)] /\ less[s] = <<>>
      /\ \A q \in Streams \ {s} : less[q] = tracks[q]
  OBVIOUS
<1>. HIDE DEF less
<1>2. \A y : y \in Slots(tracks) <=> \E q \in Streams : \E i \in 1 .. Len(tracks[q]) : y = <<q, i>>
  BY DEF Slots
<1>3. \A y : y \in Slots(less) <=> \E q \in Streams : \E i \in 1 .. Len(less[q]) : y = <<q, i>>
  BY DEF Slots
<1>4. \A y \in Slots(less) : y \in Slots(tracks) /\ y[1] # s
  <2>. SUFFICES ASSUME NEW y \in Slots(less) PROVE y \in Slots(tracks) /\ y[1] # s
    OBVIOUS
  <2>1. PICK q \in Streams : \E i \in 1 .. Len(less[q]) : y = <<q, i>>
    BY <1>3
  <2>2. PICK i \in 1 .. Len(less[q]) : y = <<q, i>>
    BY <2>1
  <2>3. q # s
    BY <1>1, <2>2, LenProperties
  <2>. QED BY <1>1, <1>2, <2>2, <2>3
<1>5. Slots(less) \in SUBSET Slots(tracks)
  BY <1>4
<1>6. KeySlots(less) \in SUBSET KeySlots(tracks)
  <2>. SUFFICES ASSUME NEW y \in KeySlots(less) PROVE y \in KeySlots(tracks)
    OBVIOUS
  <2>1. y \in Slots(less) /\ less[y[1]][y[2]].key
    BY DEF KeySlots
  <2>2. y[1] \in Streams \ {s}
    <3>1. y[1] # s
      BY <1>4, <2>1
    <3>2. \E q \in Streams : \E i \in 1 .. Len(less[q]) : y = <<q, i>>
      BY <1>3, <2>1
    <3>. QED BY <3>1, <3>2
  <2>3. tracks[y[1]][y[2]].key
    BY <1>1, <2>1, <2>2
  <2>. QED BY <1>5, <2>1, <2>3 DEF KeySlots
<1>. DEFINE c == Cardinality(Slots(tracks))
            k == Cardinality(KeySlots(tracks))
            lc == Cardinality(Slots(less))
            lk == Cardinality(KeySlots(less))
<1>7. /\ c \in Nat /\ k \in Nat /\ lc \in Nat /\ lk \in Nat /\ KeyBytes - 1 \in Nat
      /\ PayloadBytes(tracks) = c + (KeyBytes - 1) * k
      /\ PayloadBytes(less) = lc + (KeyBytes - 1) * lk
  BY <1>1, PayloadParts, KeyBytesAssumption
<1>8. lc <= c /\ (c = lc => Slots(tracks) = Slots(less)) /\ lk <= k
  BY <1>5, <1>6, PayloadParts, FS_Subset
<1>9. Slots(tracks) = Slots(less) => tracks[s] = <<>>
  <2>. SUFFICES ASSUME Slots(tracks) = Slots(less), tracks[s] # <<>> PROVE FALSE
    OBVIOUS
  <2>1. Len(tracks[s]) \in Nat /\ Len(tracks[s]) # 0
    BY EmptySeq, LenProperties
  <2>2. 1 \in 1 .. Len(tracks[s])
    BY <2>1
  <2>3. <<s, 1>> \in Slots(tracks)
    BY <1>2, <2>2
  <2>. QED BY <1>4, <2>3
<1>. HIDE DEF c, k, lc, lk
<1>10. /\ (KeyBytes - 1) * lk \in Nat /\ (KeyBytes - 1) * k \in Nat
       /\ (KeyBytes - 1) * lk <= (KeyBytes - 1) * k
  BY <1>7, <1>8, WeightMonotonic
<1>. HIDE DEF less
<1>11. PayloadBytes(less) \in Nat /\ PayloadBytes(less) <= PayloadBytes(tracks)
  BY <1>7, <1>8, <1>10
<1>12. PayloadBytes(less) = PayloadBytes(tracks) => tracks[s] = <<>>
  <2>1. PayloadBytes(less) = PayloadBytes(tracks) => c = lc
    BY <1>7, <1>8, <1>10
  <2>. QED BY <1>8, <1>9, <2>1
<1>. QED BY <1>11, <1>12 DEF less

\* A buffer without packets holds no payload.
LEMMA PayloadNone == PayloadBytes(NoPackets) = 0
<1>1. \A s \in Streams : 1 .. Len(NoPackets[s]) = {}
  BY DEF NoPackets
<1>2. Slots(NoPackets) = {}
  BY <1>1 DEF Slots
<1>3. KeySlots(NoPackets) = {}
  BY <1>2 DEF KeySlots
<1>4. Cardinality({}) = 0 /\ (KeyBytes - 1) * 0 = 0
  BY FS_EmptySet, KeyBytesAssumption
<1>5. PayloadBytes(NoPackets) = Cardinality({}) + (KeyBytes - 1) * Cardinality({})
  BY <1>2, <1>3, EmptyTracks, PayloadParts
<1>. QED BY <1>4, <1>5

\* A subtraction that does not go below zero does not saturate.
LEMMA SubtractsExactly ==
    ASSUME NEW a \in Nat, NEW b \in Int, b <= a
    PROVE  SaturatingSub(a, b) = a - b
BY DEF SaturatingSub

\* The memory counter: every step.  An insert adds the packet's size and takes off
\* what went; a registration that replaces packets leaves their size to replacedBytes.
LEMMA ChargedStep == TypeOK /\ Charged /\ [Next]_vars => Charged'
<1>. SUFFICES ASSUME TypeOK, Charged, [Next]_vars
              PROVE  replacedBytes' >= 0 /\ memoryBytes' = PayloadBytes(packets') + replacedBytes'
  BY DEF Charged, MemoryAccounted
<1>0. /\ packets \in [Streams -> Seq(Packet)] /\ replacedBytes \in Nat /\ memoryBytes \in Nat
      /\ PayloadBytes(packets) \in Nat /\ memoryBytes = PayloadBytes(packets) + replacedBytes
      /\ packets' \in [Streams -> Seq(Packet)]
  <2>1. TypeOK'
    BY TypeStep
  <2>2. packets \in [Streams -> Seq(Packet)] /\ packets' \in [Streams -> Seq(Packet)]
    BY <2>1 DEF TypeOK
  <2>3. PayloadBytes(packets) \in Nat
    BY <2>2, PayloadType
  <2>4. replacedBytes \in Nat
    BY DEF TypeOK, Charged
  <2>. QED BY <2>2, <2>3, <2>4 DEF TypeOK, Charged, MemoryAccounted
<1>00. PayloadBytes(packets') \in Nat
  BY <1>0, PayloadType
<1>. DEFINE Goal == replacedBytes' >= 0
                    /\ memoryBytes' = PayloadBytes(packets') + replacedBytes'
<1>1. ASSUME NEW s \in Streams, RegisterStream(s) PROVE Goal
  <2>1. /\ packets' = [packets EXCEPT ![s] = <<>>] /\ memoryBytes' = memoryBytes
        /\ replacedBytes' = replacedBytes + PayloadBytes(packets) - PayloadBytes(packets')
    BY <1>1 DEF RegisterStream
  <2>2. PayloadBytes(packets') <= PayloadBytes(packets)
    BY <1>0, <2>1, PayloadEmptied
  <2>. DEFINE more == PayloadBytes(packets)
              less == PayloadBytes(packets')
  <2>3. /\ replacedBytes' = replacedBytes + (more - less) /\ memoryBytes' = more + replacedBytes
        /\ more \in Nat /\ less \in Nat /\ less <= more /\ replacedBytes \in Nat
    BY <1>0, <1>00, <2>1, <2>2
  <2>. HIDE DEF more, less
  <2>4. replacedBytes' >= 0 /\ memoryBytes' = less + replacedBytes'
    BY <2>3
  <2>. QED BY <2>4 DEF less
<1>2. CASE StartNewEpoch \/ StartNewEpochPreservingStreams
  <2>1. packets' = NoPackets /\ memoryBytes' = 0 /\ replacedBytes' = 0
    BY <1>2 DEF StartNewEpoch, StartNewEpochPreservingStreams, ClearPackets
  <2>. QED BY <2>1, PayloadNone
<1>3. ASSUME NEW s \in Streams, NEW p \in NewPackets(s), Insert(s, p) PROVE Goal
  <2>. DEFINE appended == [packets EXCEPT ![s] = Append(@, p)]
              size == IF p.key THEN KeyBytes ELSE 1
  <2>1. /\ memoryBytes' = SaturatingSub(memoryBytes + size,
                                        PayloadBytes(appended) - PayloadBytes(packets'))
        /\ replacedBytes' = replacedBytes
    BY <1>3 DEF Insert
  <2>2. p \in Packet /\ size \in Nat
    BY NewPacketsType, KeyBytesAssumption
  <2>3. PayloadBytes(appended) = PayloadBytes(packets) + size
    BY <1>0, <2>2, PayloadAppend
  <2>. HIDE DEF appended, size
  <2>4. PayloadBytes(appended) - PayloadBytes(packets') <= memoryBytes + size
        /\ memoryBytes + size \in Nat
        /\ PayloadBytes(appended) - PayloadBytes(packets') \in Int
    BY <1>0, <1>00, <2>2, <2>3
  <2>5. memoryBytes' = (memoryBytes + size) - (PayloadBytes(appended) - PayloadBytes(packets'))
    BY <2>1, <2>4, SubtractsExactly
  <2>. QED BY <1>0, <1>00, <2>1, <2>2, <2>3, <2>5
<1>4. ASSUME NEW r \in Retentions, SetRetention(r) PROVE Goal
  <2>1. /\ memoryBytes' = SaturatingSub(memoryBytes,
                                        PayloadBytes(packets) - PayloadBytes(packets'))
        /\ replacedBytes' = replacedBytes
    BY <1>4 DEF SetRetention
  <2>2. PayloadBytes(packets) - PayloadBytes(packets') <= memoryBytes
        /\ PayloadBytes(packets) - PayloadBytes(packets') \in Int
    BY <1>0, <1>00
  <2>3. memoryBytes' = memoryBytes - (PayloadBytes(packets) - PayloadBytes(packets'))
    BY <1>0, <2>1, <2>2, SubtractsExactly
  <2>. QED BY <1>0, <1>00, <2>1, <2>3
<1>5. CASE UNCHANGED vars
  BY <1>0, <1>5 DEF vars
<1>. QED BY <1>1, <1>2, <1>3, <1>4, <1>5 DEF Next

-----------------------------------------------------------------------------
(* What eviction spares: every step.                                          *)

\* An insert before eviction: the packet's track grows at the far end, and the front
\* of the video, when the cap moves it, moves on.
LEMMA TrimmedDropped ==
    ASSUME TypeOK, TracksOrdered, NoHoles, NEW s \in Streams, NEW p \in NewPackets(s),
           Insert(s, p), NEW trimmed \in [Streams -> Seq(Packet)],
           Append(packets[s], p) \in Seq(Packet),
           IsTail(trimmed[s], Append(packets[s], p)), trimmed[s] # <<>>,
           \A q \in Streams \ {s} : trimmed[q] = packets[q],
           NEW q \in Streams \ {Video}, q = s => trimmed[s] = Append(packets[s], p),
           Dropped(packets, log, q)
    PROVE  Dropped(trimmed, log', q)
<1>1. /\ packets \in [Streams -> Seq(Packet)] /\ log \in [Streams -> Seq(Packet)]
      /\ p \in Packet /\ Video \in Streams
  BY NewPacketsType, StreamsAssumption DEF TypeOK
<1>2. log' = [log EXCEPT ![s] = Append(@, p)]
  BY DEF Insert
<1>3. /\ Len(packets[q]) \in Nat /\ Len(log[q]) \in Nat /\ Len(packets[q]) <= Len(log[q])
      /\ IsTail(packets[q], log[q])
  BY <1>1, LenProperties, HolesAndTails DEF NoHoles
<1>. DEFINE gone == Len(log[q]) - Len(packets[q])
<1>4. /\ Len(log'[q]) - Len(trimmed[q]) = gone
      /\ \A i \in 1 .. gone : log'[q][i] = log[q][i] /\ log[q][i] \in Packet
  <2>1. CASE q = s
    <3>1. /\ log'[q] = Append(log[q], p) /\ trimmed[q] = Append(packets[q], p)
      BY <1>1, <1>2, <2>1
    <3>2. /\ Len(log'[q]) = Len(log[q]) + 1 /\ Len(trimmed[q]) = Len(packets[q]) + 1
          /\ \A i \in 1 .. Len(log[q]) : log'[q][i] = log[q][i]
      BY <1>1, <3>1, AppendProperties
    <3>. QED BY <1>1, <1>3, <3>2, ElementOfSeq
  <2>2. CASE q # s
    <3>1. log'[q] = log[q] /\ trimmed[q] = packets[q]
      BY <1>1, <1>2, <2>2
    <3>. QED BY <1>1, <1>3, <3>1, ElementOfSeq
  <2>. QED BY <2>1, <2>2
<1>5. Len(log'[q]) \in Int /\ Len(trimmed[q]) \in Int
  <2>1. log'[q] \in Seq(Packet)
    BY <1>1, <1>2, AppendProperties
  <2>. QED BY <2>1, LenProperties
<1>6. CASE packets[Video] = <<>>
  <2>1. gone = 0
    BY <1>3, <1>6 DEF Dropped
  <2>2. Len(log'[q]) - Len(trimmed[q]) = 0
    BY <1>4, <2>1
  <2>. HIDE DEF gone
  <2>3. Len(trimmed[q]) = Len(log'[q])
    BY <1>5, <2>2
  <2>4. \A i \in 1 .. Len(log'[q]) - Len(trimmed[q]) : FALSE
    BY <2>2
  <2>. QED BY <2>3, <2>4 DEF Dropped
<1>7. CASE packets[Video] # <<>>
  <2>1. \A i \in 1 .. gone : Expired(log[q][i], packets[Video][1].dts)
    BY <1>7 DEF Dropped
  <2>2. /\ trimmed[Video] # <<>>
        /\ packets[Video][1].dts \in Int /\ trimmed[Video][1].dts \in Int
        /\ packets[Video][1].dts <= trimmed[Video][1].dts
    <3>1. CASE s = Video
      <4>1. Append(packets[Video], p) # <<>>
            /\ Append(packets[Video], p)[1] = packets[Video][1]
        <5>1. /\ Len(packets[Video]) \in Nat /\ Len(packets[Video]) # 0
              /\ \A i \in 1 .. Len(packets[Video]) :
                    Append(packets[Video], p)[i] = packets[Video][i]
              /\ Len(Append(packets[Video], p)) = Len(packets[Video]) + 1
          BY <1>1, <1>7, AppendProperties, EmptySeq, LenProperties
        <5>. DEFINE more == Append(packets[Video], p)
        <5>. HIDE DEF more
        <5>2. 1 \in 1 .. Len(packets[Video]) /\ Len(more) # 0
          BY <5>1 DEF more
        <5>3. more # <<>>
          BY <5>2
        <5>. QED BY <5>1, <5>2, <5>3 DEF more
      <4>2. \A i, j \in 1 .. Len(Append(packets[s], p)) : i < j =>
              Append(packets[s], p)[i].dts <= Append(packets[s], p)[j].dts
        BY TrimmedOrdered, TailReflexive
      <4>. QED BY <3>1, <4>1, <4>2, FrontMovesOn
    <3>2. CASE s # Video
      <4>1. trimmed[Video] = packets[Video]
        BY <1>1, <3>2
      <4>2. Len(packets[Video]) \in Nat /\ Len(packets[Video]) # 0
        BY <1>1, <1>7, EmptySeq, LenProperties
      <4>3. packets[Video][1].dts \in Int
        BY <1>1, <4>2, PacketTimes
      <4>. QED BY <1>7, <4>1, <4>3
    <3>. QED BY <3>1, <3>2
  <2>3. \A i \in 1 .. gone : Expired(log'[q][i], trimmed[Video][1].dts)
    BY <1>4, <2>1, <2>2, ExpiredLater
  <2>. QED BY <1>4, <2>2, <2>3 DEF Dropped
<1>. QED BY <1>6, <1>7

\* Spared: every step.
LEMMA SparedStep ==
    TypeOK /\ TracksOrdered /\ NoHoles /\ Charged /\ Spared /\ [Next]_vars => Spared'
<1>. SUFFICES ASSUME TypeOK, TracksOrdered, NoHoles, Charged, Spared, [Next]_vars,
                     replacedBytes' = 0, NEW q \in Streams \ {Video}, q \notin capped'
              PROVE  Dropped(packets', log', q)
  BY DEF Spared
<1>0. /\ packets \in [Streams -> Seq(Packet)] /\ log \in [Streams -> Seq(Packet)]
      /\ Video \in Streams /\ q \in Streams
      /\ IsTail(packets[q], log[q])
      /\ \A i, j \in 1 .. Len(packets[Video]) :
            i < j => packets[Video][i].dts <= packets[Video][j].dts
  BY StreamsAssumption, HolesAndTails DEF TypeOK, TracksOrdered
<1>1. ASSUME NEW s \in Streams, RegisterStream(s) PROVE Dropped(packets', log', q)
  <2>1. /\ packets' = [packets EXCEPT ![s] = <<>>] /\ log' = [log EXCEPT ![s] = <<>>]
        /\ replacedBytes' = replacedBytes + PayloadBytes(packets) - PayloadBytes(packets')
        /\ capped' = capped \ {s}
    BY <1>1 DEF RegisterStream
  <2>2. replacedBytes = 0 /\ packets[s] = <<>>
    <3>. DEFINE more == PayloadBytes(packets)
                less == PayloadBytes(packets')
    <3>1. /\ less \in Nat /\ less <= more /\ (less = more => packets[s] = <<>>)
      BY <1>0, <2>1, PayloadEmptied
    <3>2. more \in Nat /\ replacedBytes \in Nat
      BY <1>0, PayloadType DEF Charged, TypeOK
    <3>3. 0 = replacedBytes + (more - less)
      BY <2>1
    <3>. HIDE DEF more, less
    <3>. QED BY <3>1, <3>2, <3>3
  <2>3. packets' = packets
    BY <1>0, <2>1, <2>2
  <2>4. CASE q = s
    <3>1. packets'[q] = <<>> /\ log'[q] = <<>>
      BY <1>0, <2>1, <2>4
    <3>2. Len(log'[q]) = Len(packets'[q]) /\ \A i \in 1 .. Len(log'[q]) - Len(packets'[q]) : FALSE
      BY <3>1
    <3>. QED BY <3>2 DEF Dropped
  <2>5. CASE q # s
    <3>1. log'[q] = log[q] /\ q \notin capped
      BY <1>0, <2>1, <2>5
    <3>2. Dropped(packets, log, q)
      BY <2>2, <3>1 DEF Spared
    <3>. QED BY <2>3, <3>1, <3>2 DEF Dropped
  <2>. QED BY <2>4, <2>5
<1>2. CASE StartNewEpoch \/ StartNewEpochPreservingStreams
  <2>1. packets'[q] = <<>> /\ log'[q] = <<>> /\ packets'[Video] = <<>>
    BY <1>0, <1>2 DEF StartNewEpoch, StartNewEpochPreservingStreams, ClearPackets, NoPackets
  <2>. QED BY <2>1 DEF Dropped
<1>3. ASSUME NEW s \in Streams, NEW p \in NewPackets(s), Insert(s, p)
      PROVE  Dropped(packets', log', q)
  <2>. DEFINE more == Append(packets[s], p)
  <2>1. PICK trimmed \in [Streams -> Seq(Packet)] :
              /\ packets' = Evicted(trimmed, retention)
              /\ more \in Seq(Packet)
              /\ IsTail(trimmed[s], more) /\ trimmed[s] # <<>>
              /\ \A r \in Streams \ {s} : trimmed[r] = packets[r]
              /\ trimmed[s] # more => capped' = capped \cup {s}
              /\ trimmed[s] = more => capped' = capped
    BY <1>3, InsertParts
  <2>. HIDE DEF more
  <2>2. q = s => trimmed[s] = more
    BY <2>1
  <2>3. q \notin capped /\ replacedBytes = 0
    BY <1>3, <2>1 DEF Insert
  <2>4. Dropped(packets, log, q)
    BY <2>3 DEF Spared
  <2>5. Dropped(trimmed, log', q)
    BY <1>3, <2>1, <2>2, <2>4, TrimmedDropped DEF more
  <2>6. p \in Packet /\ log' = [log EXCEPT ![s] = Append(@, p)]
    BY <1>3, NewPacketsType DEF Insert
  <2>7. log' \in [Streams -> Seq(Packet)]
    BY <1>0, <2>6, AppendProperties
  <2>8. IsTail(trimmed[q], log'[q])
    <3>1. CASE q = s
      <4>1. trimmed[q] = Append(packets[q], p) /\ log'[q] = Append(log[q], p)
        BY <1>0, <2>2, <2>6, <3>1 DEF more
      <4>. QED BY <1>0, <2>6, <4>1, TailOfAppend
    <3>2. CASE q # s
      BY <1>0, <2>1, <2>6, <3>2
    <3>. QED BY <3>1, <3>2
  <2>9. \A i, j \in 1 .. Len(trimmed[Video]) :
            i < j => trimmed[Video][i].dts <= trimmed[Video][j].dts
    BY <1>0, <1>3, <2>1, TrimmedOrdered DEF more
  <2>10. retention \in Int
    BY DEF TypeOK
  <2>. QED BY <2>1, <2>5, <2>7, <2>8, <2>9, <2>10, EvictedDropped
<1>4. ASSUME NEW r \in Retentions, SetRetention(r) PROVE Dropped(packets', log', q)
  <2>1. /\ packets' = Evicted(packets, r) /\ log' = log /\ q \notin capped
        /\ replacedBytes = 0 /\ r \in Int
    BY <1>4, RetentionsAssumption DEF SetRetention
  <2>2. Dropped(packets, log, q)
    BY <2>1 DEF Spared
  <2>. QED BY <1>0, <2>1, <2>2, EvictedDropped
<1>5. CASE UNCHANGED vars
  <2>1. Dropped(packets, log, q)
    BY <1>5 DEF Spared, vars
  <2>. QED BY <1>5, <2>1 DEF vars, Dropped
<1>. QED BY <1>1, <1>2, <1>3, <1>4, <1>5 DEF Next

-----------------------------------------------------------------------------
(* The decodable prefix.                                                      *)

\* A video that starts with a keyframe does so after eviction.
LEMMA EvictedPrefix ==
    ASSUME NEW tracks \in [Streams -> Seq(Packet)], NEW r \in Int,
           tracks[Video] # <<>>, tracks[Video][1].key
    PROVE  Evicted(tracks, r)[Video] # <<>> /\ Evicted(tracks, r)[Video][1].key
<1>. DEFINE old == Eligible(tracks[Video], NewestVideoDts(tracks) - r)
            e == Evicted(tracks, r)
<1>. HIDE DEF e
<1>1. CASE e = tracks
  BY <1>1 DEF e
<1>2. CASE \E k \in old : k \in 1 .. Len(tracks[Video]) /\ e = AlignTo(tracks, k)
  <2>1. PICK k \in old : k \in 1 .. Len(tracks[Video]) /\ e = AlignTo(tracks, k)
    BY <1>2
  <2>2. e[Video] # <<>> /\ e[Video][1] = tracks[Video][k]
    BY <2>1, AlignedVideo
  <2>3. tracks[Video][k].key
    BY DEF Eligible
  <2>. QED BY <2>2, <2>3 DEF e
<1>. QED BY <1>1, <1>2, EvictedCases DEF e

\* The first packet of a track stays the first when another is appended.
LEMMA AppendFirst ==
    ASSUME NEW a \in Seq(Packet), NEW p \in Packet
    PROVE  /\ Append(a, p) # <<>>
           /\ Append(a, p)[1] = IF a = <<>> THEN p ELSE a[1]
<1>. DEFINE b == Append(a, p)
<1>1. /\ Len(b) = Len(a) + 1 /\ b[Len(a) + 1] = p /\ Len(a) \in Nat
      /\ \A i \in 1 .. Len(a) : b[i] = a[i]
  BY AppendProperties, LenProperties
<1>. HIDE DEF b
<1>2. Len(b) # 0
  BY <1>1
<1>3. b # <<>>
  BY <1>2
<1>4. CASE a = <<>>
  BY <1>1, <1>3, <1>4 DEF b
<1>5. CASE a # <<>>
  <2>1. 1 \in 1 .. Len(a)
    BY <1>1, <1>5, EmptySeq
  <2>. QED BY <1>1, <1>3, <1>5, <2>1 DEF b
<1>. QED BY <1>4, <1>5

\* Decodable prefix: every step.
LEMMA PrefixStep == TypeOK /\ NoHoles /\ DecodablePrefix /\ [Next]_vars => DecodablePrefix'
<1>. SUFFICES ASSUME TypeOK, NoHoles, DecodablePrefix, [Next]_vars,
                     Video \notin capped', log'[Video] # <<>>, log'[Video][1].key
              PROVE  packets'[Video] # <<>> /\ packets'[Video][1].key
  BY DEF DecodablePrefix
<1>0. /\ packets \in [Streams -> Seq(Packet)] /\ log \in [Streams -> Seq(Packet)]
      /\ Video \in Streams /\ retention \in Int
      /\ IsTail(packets[Video], log[Video])
  BY StreamsAssumption, HolesAndTails DEF TypeOK
<1>. DEFINE Goal == packets'[Video] # <<>> /\ packets'[Video][1].key
<1>1. ASSUME NEW s \in Streams, RegisterStream(s) PROVE Goal
  <2>1. /\ packets' = [packets EXCEPT ![s] = <<>>] /\ log' = [log EXCEPT ![s] = <<>>]
        /\ capped' = capped \ {s}
    BY <1>1 DEF RegisterStream
  <2>2. s # Video
    BY <1>0, <2>1
  <2>. QED BY <1>0, <2>1, <2>2 DEF DecodablePrefix
<1>2. CASE StartNewEpoch \/ StartNewEpochPreservingStreams
  BY <1>0, <1>2 DEF StartNewEpoch, StartNewEpochPreservingStreams, ClearPackets, NoPackets
<1>3. ASSUME NEW s \in Streams, NEW p \in NewPackets(s), Insert(s, p) PROVE Goal
  <2>. DEFINE more == Append(packets[s], p)
  <2>1. PICK trimmed \in [Streams -> Seq(Packet)] :
              /\ packets' = Evicted(trimmed, retention)
              /\ \A r \in Streams \ {s} : trimmed[r] = packets[r]
              /\ trimmed[s] # more => capped' = capped \cup {s}
              /\ trimmed[s] = more => capped' = capped
    BY <1>3, InsertParts
  <2>2. p \in Packet /\ log' = [log EXCEPT ![s] = Append(@, p)]
    BY <1>3, NewPacketsType DEF Insert
  <2>. HIDE DEF more
  <2>3. Video \notin capped
    BY <2>1
  <2>4. trimmed[Video] # <<>> /\ trimmed[Video][1].key
    <3>1. CASE s = Video
      <4>1. trimmed[Video] = Append(packets[Video], p) /\ log'[Video] = Append(log[Video], p)
        BY <1>0, <2>1, <2>2, <3>1 DEF more
      <4>2. CASE log[Video] = <<>>
        <5>1. packets[Video] = <<>>
          <6>1. Len(packets[Video]) \in Nat /\ Len(packets[Video]) <= Len(log[Video])
                /\ Len(log[Video]) = 0
            BY <1>0, <4>2, TailProperties
          <6>2. Len(packets[Video]) = 0
            BY <6>1
          <6>. QED BY <1>0, <6>2, EmptySeq
        <5>. QED BY <1>0, <2>2, <4>1, <4>2, <5>1, AppendFirst
      <4>3. CASE log[Video] # <<>>
        <5>1. log[Video][1].key
          BY <1>0, <2>2, <4>1, <4>3, AppendFirst
        <5>2. packets[Video] # <<>> /\ packets[Video][1].key
          BY <2>3, <4>3, <5>1 DEF DecodablePrefix
        <5>. QED BY <1>0, <2>2, <4>1, <5>2, AppendFirst
      <4>. QED BY <4>2, <4>3
    <3>2. CASE s # Video
      <4>1. trimmed[Video] = packets[Video] /\ log'[Video] = log[Video]
        BY <1>0, <2>1, <2>2, <3>2
      <4>. QED BY <2>3, <4>1 DEF DecodablePrefix
    <3>. QED BY <3>1, <3>2
  <2>. QED BY <1>0, <2>1, <2>4, EvictedPrefix
<1>4. ASSUME NEW r \in Retentions, SetRetention(r) PROVE Goal
  <2>1. packets' = Evicted(packets, r) /\ log' = log /\ capped' = capped /\ r \in Int
    BY <1>4, RetentionsAssumption DEF SetRetention
  <2>2. packets[Video] # <<>> /\ packets[Video][1].key
    BY <2>1 DEF DecodablePrefix
  <2>. QED BY <1>0, <2>1, <2>2, EvictedPrefix
<1>5. CASE UNCHANGED vars
  BY <1>5 DEF vars, DecodablePrefix
<1>. QED BY <1>1, <1>2, <1>3, <1>4, <1>5 DEF Next

-----------------------------------------------------------------------------
(* The theorems.                                                              *)

\* What this module adds to TypeOK, TracksOrdered and NoHoles.
Kept == Windowed /\ Spared /\ Presented /\ Charged /\ DecodablePrefix

\* The inductive invariant of the buffer holds in every reachable state.
THEOREM BufferInvariant == Spec => [](TypeOK /\ TracksOrdered /\ NoHoles /\ Kept)
<1>1. Init => Kept
  <2>. SUFFICES ASSUME Init PROVE Kept
    OBVIOUS
  <2>1. /\ packets = NoPackets /\ log = NoPackets /\ memoryBytes = 0 /\ replacedBytes = 0
        /\ \A s \in Streams : packets[s] = <<>> /\ log[s] = <<>>
        /\ Video \in Streams
    BY StreamsAssumption DEF Init, NoPackets
  <2>2. Windowed
    BY <2>1 DEF Windowed, Window
  <2>3. Spared
    BY <2>1 DEF Spared, Dropped
  <2>4. Presented
    BY <2>1, EmptyInTime DEF Presented
  <2>5. Charged
    BY <2>1, PayloadNone DEF Charged, MemoryAccounted
  <2>6. DecodablePrefix
    BY <2>1 DEF DecodablePrefix
  <2>. QED BY <2>2, <2>3, <2>4, <2>5, <2>6 DEF Kept
<1>2. TypeOK /\ TracksOrdered /\ NoHoles /\ Kept /\ [Next]_vars => Kept'
  <2>. SUFFICES ASSUME TypeOK, TracksOrdered, NoHoles, Kept, [Next]_vars PROVE Kept'
    OBVIOUS
  <2>1. Windowed /\ Spared /\ Presented /\ Charged /\ DecodablePrefix
    BY DEF Kept
  <2>2. Windowed'
    BY <2>1, WindowStep
  <2>3. Spared'
    BY <2>1, SparedStep
  <2>4. Presented'
    BY <2>1, PresentedStep
  <2>5. Charged'
    BY <2>1, ChargedStep
  <2>6. DecodablePrefix'
    BY <2>1, PrefixStep
  <2>. QED BY <2>2, <2>3, <2>4, <2>5, <2>6 DEF Kept
<1>. QED BY <1>1, <1>2, TypeCorrect, AlwaysOrdered, NeverHoles, PTL DEF Spec

\* The memory counter is always exactly the payload retained plus that of the tracks
\* a registration replaced; no saturating subtraction ever saturates.
THEOREM MemoryAlwaysAccounted == Spec => []MemoryAccounted
<1>1. Kept => MemoryAccounted
  BY DEF Kept, Charged
<1>. QED BY <1>1, BufferInvariant, PTL

\* Eviction always keeps what the window needs and no more: no second keyframe is old
\* enough, other streams start at a packet that reaches into the retained video, and
\* nothing that does is evicted.
THEOREM EvictionAlwaysExact == Spec => []EvictionExact
<1>1. Kept => EvictionExact
  <2>. SUFFICES ASSUME Windowed, Spared, packets[Video] # <<>> PROVE EvictionExact
    BY DEF Kept, EvictionExact
  <2>. DEFINE boundary == NewestVideoDts(packets) - retention
              front == packets[Video][1].dts
  <2>1. /\ \A i \in 2 .. Len(packets[Video]) : i \notin Eligible(packets[Video], boundary)
        /\ 1 \in Eligible(packets[Video], boundary) =>
              \A s \in Streams \ {Video} : packets[s] # <<>> => ~ Expired(packets[s][1], front)
    BY DEF Windowed, Window
  <2>2. replacedBytes = 0 =>
          \A s \in Streams \ (capped \cup {Video}) :
              \A i \in 1 .. Len(log[s]) - Len(packets[s]) :
                  log[s][i].dts + log[s][i].duration <= front
    BY DEF Spared, Dropped, Expired
  <2>. QED BY <2>1, <2>2 DEF EvictionExact
<1>. QED BY <1>1, BufferInvariant, PTL

-----------------------------------------------------------------------------
(* A primed buffer.                                                           *)

\* A family of tracks whose video spans at least r.
Spanning(tracks, r) ==
    tracks[Video] # <<>> /\ NewestVideoDts(tracks) - tracks[Video][1].dts >= r

\* Decode times of the ends of the video are numbers.
LEMMA VideoEnds ==
    ASSUME NEW tracks \in [Streams -> Seq(Packet)], tracks[Video] # <<>>
    PROVE  /\ NewestVideoDts(tracks) \in Int /\ tracks[Video][1].dts \in Int
           /\ Len(tracks[Video]) \in Nat \ {0}
           /\ 1 \in 1 .. Len(tracks[Video]) /\ Len(tracks[Video]) \in 1 .. Len(tracks[Video])
<1>1. tracks[Video] \in Seq(Packet)
  BY StreamsAssumption
<1>2. Len(tracks[Video]) \in Nat /\ Len(tracks[Video]) # 0
  BY <1>1, EmptySeq, LenProperties
<1>3. 1 \in 1 .. Len(tracks[Video]) /\ Len(tracks[Video]) \in 1 .. Len(tracks[Video])
  BY <1>2
<1>. QED BY <1>1, <1>2, <1>3, PacketTimes DEF NewestVideoDts

\* The retained duration, as the code computes it, reaches a positive retention only
\* if there is video.
LEMMA SpanReached ==
    ASSUME NEW tracks \in [Streams -> Seq(Packet)], NEW r \in Nat, r > 0
    PROVE  (IF tracks[Video] = <<>> THEN 0
            ELSE LET span == NewestVideoDts(tracks) - tracks[Video][1].dts
                 IN  IF span > 0 THEN span ELSE 0) >= r
             <=> Spanning(tracks, r)
<1>1. CASE tracks[Video] = <<>>
  BY <1>1 DEF Spanning
<1>2. CASE tracks[Video] # <<>>
  <2>. DEFINE span == NewestVideoDts(tracks) - tracks[Video][1].dts
  <2>1. span \in Int
    BY <1>2, VideoEnds
  <2>. HIDE DEF span
  <2>2. (IF span > 0 THEN span ELSE 0) >= r <=> span >= r
    BY <2>1
  <2>. QED BY <1>2, <2>2 DEF Spanning, span
<1>. QED BY <1>1, <1>2

\* Primed, said of the tracks: a retention is at least one tick, so a primed buffer
\* has video.
LEMMA PrimedSpanning ==
    ASSUME TypeOK
    PROVE  IsPrimed <=> Video \in registered /\ Spanning(packets, retention)
<1>1. retention \in Nat /\ retention > 0 /\ packets \in [Streams -> Seq(Packet)]
  BY DEF TypeOK
<1>2. DurationTicks >= retention <=> Spanning(packets, retention)
  BY <1>1, SpanReached DEF DurationTicks
<1>. QED BY <1>2 DEF IsPrimed

\* Eviction leaves the window it was asked to keep.
LEMMA EvictedSpanning ==
    ASSUME NEW tracks \in [Streams -> Seq(Packet)], NEW r \in Int, Spanning(tracks, r)
    PROVE  Spanning(Evicted(tracks, r), r)
<1>. DEFINE old == Eligible(tracks[Video], NewestVideoDts(tracks) - r)
            e == Evicted(tracks, r)
<1>. HIDE DEF e
<1>1. CASE e = tracks
  BY <1>1 DEF e
<1>2. CASE \E k \in old : k \in 1 .. Len(tracks[Video]) /\ e = AlignTo(tracks, k)
  <2>1. PICK k \in old : k \in 1 .. Len(tracks[Video]) /\ e = AlignTo(tracks, k)
    BY <1>2
  <2>2. /\ e[Video] # <<>> /\ e[Video][1] = tracks[Video][k]
        /\ NewestVideoDts(e) = NewestVideoDts(tracks)
    BY <2>1, AlignedVideo
  <2>3. tracks[Video][k].dts <= NewestVideoDts(tracks) - r
    BY DEF Eligible
  <2>4. tracks[Video][k].dts \in Int /\ NewestVideoDts(tracks) \in Int
    BY <2>1, PacketTimes, StreamsAssumption, VideoEnds DEF Spanning
  <2>. DEFINE newest == NewestVideoDts(tracks)
              front == tracks[Video][k].dts
  <2>5. newest - front >= r
    <3>1. newest \in Int /\ front \in Int /\ front <= newest - r
      BY <2>3, <2>4
    <3>. HIDE DEF newest, front
    <3>. QED BY <3>1
  <2>. QED BY <2>2, <2>5 DEF Spanning, e
<1>. QED BY <1>1, <1>2, EvictedCases DEF e, Spanning

\* A packet appended to the video makes it no shorter.
LEMMA AppendedSpanning ==
    ASSUME TypeOK, TracksOrdered, NEW p \in NewPackets(Video), Insert(Video, p),
           NEW r \in Int, Spanning(packets, r),
           NEW tracks \in [Streams -> Seq(Packet)], tracks[Video] = Append(packets[Video], p)
    PROVE  Spanning(tracks, r)
<1>1. /\ packets \in [Streams -> Seq(Packet)] /\ packets[Video] \in Seq(Packet)
      /\ p \in Packet /\ packets[Video] # <<>>
  BY StreamsAssumption, NewPacketsType DEF TypeOK, Spanning
<1>. DEFINE a == packets[Video]
            newest == NewestVideoDts(packets)
            front == packets[Video][1].dts
<1>2. newest \in Int /\ front \in Int /\ newest - front >= r /\ p.dts \in Int
  BY <1>1, VideoEnds DEF Spanning, Packet
<1>3. newest <= p.dts
  <2>1. lastDts[Video] # NoDts /\ newest <= lastDts[Video]
    BY <1>1, StreamsAssumption, VideoEnds DEF TracksOrdered, NewestVideoDts
  <2>2. lastDts[Video] \in Int /\ p.dts >= lastDts[Video]
    BY <2>1, StreamsAssumption DEF Insert, InOrder, TypeOK
  <2>. HIDE DEF newest
  <2>. QED BY <1>2, <2>1, <2>2
<1>4. Append(a, p) # <<>> /\ Append(a, p)[1] = a[1]
  BY <1>1, AppendFirst
<1>5. NewestVideoDts(tracks) = p.dts
  <2>1. Len(Append(a, p)) = Len(a) + 1 /\ Append(a, p)[Len(a) + 1] = p
    BY <1>1, AppendProperties
  <2>. QED BY <2>1 DEF NewestVideoDts
<1>6. p.dts - front >= r
  <2>. HIDE DEF newest, front
  <2>. QED BY <1>2, <1>3
<1>. QED BY <1>4, <1>5, <1>6 DEF Spanning

\* A primed buffer stays primed, except across an epoch, a change of the retention, a
\* replaced video track or a packet cap that cuts the video.
THEOREM PrimedStaysPrimed == Spec => PrimedStays
<1>1. TypeOK /\ TracksOrdered /\ NoHoles /\ TypeOK' /\ [Next]_vars =>
        [(IsPrimed /\ epoch' = epoch /\ retention' = retention
          /\ Video \notin capped' /\ Len(log'[Video]) >= Len(log[Video]))
             => IsPrimed']_vars
  <2>. SUFFICES ASSUME TypeOK, TracksOrdered, NoHoles, TypeOK', Next, IsPrimed,
                       epoch' = epoch, retention' = retention, Video \notin capped',
                       Len(log'[Video]) >= Len(log[Video])
                PROVE  IsPrimed'
    OBVIOUS
  <2>0. /\ packets \in [Streams -> Seq(Packet)] /\ log \in [Streams -> Seq(Packet)]
        /\ packets' \in [Streams -> Seq(Packet)] /\ Video \in Streams /\ retention \in Int
        /\ Video \in registered /\ Spanning(packets, retention)
        /\ packets[Video] # <<>> /\ IsTail(packets[Video], log[Video]) /\ epoch \in Nat
    BY PrimedSpanning, StreamsAssumption, HolesAndTails DEF TypeOK, Spanning
  <2>1. SUFFICES Video \in registered' /\ Spanning(packets', retention)
    <3>1. retention' \in Nat /\ retention' > 0
      BY DEF TypeOK
    <3>2. DurationTicks' >= retention' <=> Spanning(packets', retention')
      BY <2>0, <3>1, SpanReached DEF DurationTicks, NewestVideoDts
    <3>. QED BY <3>2 DEF IsPrimed
  <2>2. ASSUME NEW s \in Streams, RegisterStream(s)
        PROVE  Video \in registered' /\ Spanning(packets', retention)
    <3>1. /\ packets' = [packets EXCEPT ![s] = <<>>] /\ log' = [log EXCEPT ![s] = <<>>]
          /\ registered' = registered \cup {s}
      BY <2>2 DEF RegisterStream
    <3>2. s # Video
      <4>. SUFFICES ASSUME s = Video PROVE FALSE
        OBVIOUS
      <4>1. Len(log'[Video]) = 0
        BY <2>0, <3>1
      <4>2. Len(log[Video]) \in Nat /\ Len(packets[Video]) \in Nat \ {0}
            /\ Len(packets[Video]) <= Len(log[Video])
        BY <2>0, LenProperties, TailProperties, VideoEnds
      <4>. QED BY <4>1, <4>2
    <3>3. packets'[Video] = packets[Video]
      BY <2>0, <3>1, <3>2
    <3>. QED BY <2>0, <3>1, <3>3 DEF Spanning, NewestVideoDts
  <2>3. CASE StartNewEpoch \/ StartNewEpochPreservingStreams
    <3>1. epoch' = epoch + 1
      BY <2>3 DEF StartNewEpoch, StartNewEpochPreservingStreams, ClearPackets
    <3>. QED BY <2>0, <3>1
  <2>4. ASSUME NEW s \in Streams, NEW p \in NewPackets(s), Insert(s, p)
        PROVE  Video \in registered' /\ Spanning(packets', retention)
    <3>. DEFINE more == Append(packets[s], p)
    <3>1. PICK trimmed \in [Streams -> Seq(Packet)] :
                /\ packets' = Evicted(trimmed, retention)
                /\ \A r \in Streams \ {s} : trimmed[r] = packets[r]
                /\ trimmed[s] # more => capped' = capped \cup {s}
      BY <2>4, InsertParts
    <3>. HIDE DEF more
    <3>2. Spanning(trimmed, retention)
      <4>1. CASE s = Video
        <5>1. trimmed[Video] = Append(packets[Video], p)
          BY <3>1, <4>1 DEF more
        <5>. QED BY <2>0, <2>4, <4>1, <5>1, AppendedSpanning
      <4>2. CASE s # Video
        <5>1. trimmed[Video] = packets[Video]
          BY <2>0, <3>1, <4>2
        <5>. QED BY <2>0, <5>1 DEF Spanning, NewestVideoDts
      <4>. QED BY <4>1, <4>2
    <3>3. registered' = registered
      BY <2>4 DEF Insert
    <3>. QED BY <2>0, <3>1, <3>2, <3>3, EvictedSpanning
  <2>5. ASSUME NEW r \in Retentions, SetRetention(r)
        PROVE  Video \in registered' /\ Spanning(packets', retention)
    <3>1. packets' = Evicted(packets, retention) /\ registered' = registered
      BY <2>5 DEF SetRetention
    <3>. QED BY <2>0, <3>1, EvictedSpanning
  <2>. QED BY <2>2, <2>3, <2>4, <2>5 DEF Next
<1>2. PrimedStays <=>
        [][(IsPrimed /\ epoch' = epoch /\ retention' = retention
            /\ Video \notin capped' /\ Len(log'[Video]) >= Len(log[Video]))
               => IsPrimed']_vars
  BY DEF PrimedStays
<1>. QED BY <1>1, <1>2, TypeCorrect, AlwaysOrdered, NeverHoles, PTL DEF Spec

-----------------------------------------------------------------------------
(* Clips.                                                                     *)

\* The keyframe a snapshot starts at is a keyframe presented by the request, and the
\* clip starts no later than that.
LEMMA SnapshotStart ==
    ASSUME TypeOK, NEW requested \in Int, NEW k \in SnapshotIndex(requested)
    PROVE  /\ k \in 1 .. Len(packets[Video])
           /\ ActualStart(packets[Video][k]) \in Int
           /\ ActualStart(packets[Video][k]) <= requested
<1>1. /\ packets[Video] \in Seq(Packet)
      /\ k \in 1 .. Len(packets[Video]) /\ packets[Video][k].pts <= requested
  BY StreamsAssumption DEF TypeOK, SnapshotIndex
<1>2. packets[Video][k].pts \in Int /\ packets[Video][k].dts \in Int
  BY <1>1, PacketTimes
<1>. QED BY <1>1, <1>2 DEF ActualStart

\* When some keyframe is presented by the request, there is one to start at.
LEMMA SnapshotExists ==
    ASSUME TypeOK, NEW requested \in Int, NEW i \in 1 .. Len(packets[Video]),
           packets[Video][i].key, packets[Video][i].pts <= requested
    PROVE  \E k \in SnapshotIndex(requested) : TRUE
<1>. DEFINE n == Len(packets[Video])
            S == {j \in 1 .. n : packets[Video][j].key /\ packets[Video][j].pts <= requested}
<1>1. n \in Nat
  BY StreamsAssumption, LenProperties DEF TypeOK
<1>2. S \in SUBSET (1 .. n) /\ S # {}
  OBVIOUS
<1>3. PICK k \in S : \A j \in S : j <= k
  <2>. HIDE DEF S, n
  <2>. QED BY <1>1, <1>2, GreatestOf
<1>4. ASSUME NEW j \in k + 1 .. n
      PROVE  ~ (packets[Video][j].key /\ packets[Video][j].pts <= requested)
  <2>1. k \in 1 .. n
    OBVIOUS
  <2>2. j \in 1 .. n /\ ~ (j <= k)
    <3>. HIDE DEF n, S
    <3>. QED BY <1>1, <2>1
  <2>. QED BY <1>3, <2>2
<1>5. k \in SnapshotIndex(requested)
  BY <1>4 DEF SnapshotIndex
<1>. QED BY <1>5

\* A primed buffer's clip covers the retention window.
LEMMA PrimedCovers == TypeOK /\ NoHoles /\ Presented /\ DecodablePrefix => PrimedClipCoversWindow
<1>. SUFFICES ASSUME TypeOK, NoHoles, Presented, DecodablePrefix,
                     IsPrimed, Video \notin capped, log[Video][1].key
              PROVE  /\ RequestedStart <= NewestVideoDts(packets) - retention
                     /\ \E k \in SnapshotIndex(RequestedStart) :
                           ActualStart(packets[Video][k]) <= NewestVideoDts(packets) - retention
  BY DEF PrimedClipCoversWindow
<1>. DEFINE a == packets[Video]
            window == NewestVideoDts(packets) - retention
            keys == {i \in 1 .. Len(a) : a[i].key}
            least == CHOOSE i \in keys : \A j \in keys : i <= j
            oldest == IF keys = {} THEN 0 ELSE a[least].pts
<1>1. /\ packets \in [Streams -> Seq(Packet)] /\ a \in Seq(Packet) /\ a # <<>>
      /\ log[Video] \in Seq(Packet) /\ retention \in Nat
      /\ NewestVideoDts(packets) - a[1].dts >= retention /\ Video \in Streams
  BY StreamsAssumption, PrimedSpanning DEF TypeOK, Spanning
<1>2. log[Video] # <<>>
  <2>1. IsTail(a, log[Video])
    BY <1>1, HolesAndTails
  <2>2. Len(a) \in Nat \ {0} /\ Len(a) <= Len(log[Video])
    BY <1>1, <2>1, TailProperties, VideoEnds
  <2>3. Len(log[Video]) # 0
    <3>. HIDE DEF a
    <3>. QED BY <2>2
  <2>. QED BY <2>3
<1>3. a[1].key
  BY <1>2 DEF DecodablePrefix
<1>4. /\ 1 \in 1 .. Len(a) /\ a[1].pts \in Int /\ a[1].dts \in Int
      /\ NewestVideoDts(packets) \in Int /\ a[1].pts <= a[1].dts
  <2>1. 1 \in 1 .. Len(a) /\ NewestVideoDts(packets) \in Int
    BY <1>1, VideoEnds
  <2>2. InTime(a)
    BY <1>1 DEF Presented
  <2>. QED BY <1>1, <2>1, <2>2, PacketTimes DEF InTime
<1>5. window \in Int /\ a[1].pts <= window
  <2>. DEFINE newest == NewestVideoDts(packets)
              dts == a[1].dts
              pts == a[1].pts
  <2>1. newest \in Int /\ dts \in Int /\ pts \in Int /\ pts <= dts /\ newest - dts >= retention
    BY <1>1, <1>4
  <2>. HIDE DEF newest, dts, pts
  <2>2. newest - retention \in Int /\ pts <= newest - retention
    BY <1>1, <2>1
  <2>. QED BY <2>2 DEF newest, pts
<1>6. 1 \in keys /\ least = 1
  <2>1. 1 \in keys
    BY <1>3, <1>4
  <2>2. \A j \in keys : 1 <= j /\ j \in Int
    OBVIOUS
  <2>. HIDE DEF keys
  <2>3. least \in keys /\ \A j \in keys : least <= j
    BY <2>1, <2>2
  <2>. HIDE DEF least
  <2>4. least <= 1 /\ 1 <= least /\ least \in Int
    BY <2>1, <2>2, <2>3
  <2>5. least = 1
    BY <2>4
  <2>. QED BY <2>1, <2>5
<1>7. oldest = a[1].pts
  <2>. HIDE DEF keys, least
  <2>. QED BY <1>6
<1>8. RequestedStart = IF window >= oldest THEN window ELSE oldest
  BY DEF RequestedStart
<1>9. RequestedStart = window
  <2>. HIDE DEF window, oldest
  <2>. QED BY <1>4, <1>5, <1>7, <1>8
<1>10. PICK k \in SnapshotIndex(window) : TRUE
  <2>. HIDE DEF window
  <2>. QED BY <1>3, <1>4, <1>5, SnapshotExists
<1>11. ActualStart(packets[Video][k]) <= window
  <2>. HIDE DEF window
  <2>. QED BY <1>5, SnapshotStart
<1>12. window <= window
  <2>. HIDE DEF window
  <2>. QED BY <1>5
<1>. QED BY <1>9, <1>10, <1>11, <1>12

\* The first packet of its stream in a clip is timed no later than any packet of it.
LEMMA FirstInClip ==
    ASSUME TypeOK, TracksOrdered, Presented, NEW clip \in SUBSET Slots(packets), NEW x \in clip
    PROVE  /\ packets[x[1]][x[2]].pts \in Int /\ packets[x[1]][x[2]].dts \in Int
           /\ - MaxDts <= packets[x[1]][x[2]].pts
           /\ packets[x[1]][x[2]].pts <= packets[x[1]][x[2]].dts
           /\ \E t \in FirstTimes(clip) : t \in Int /\ t <= packets[x[1]][x[2]].pts
<1>0. PICK s \in Streams : \E i \in 1 .. Len(packets[s]) : x = <<s, i>>
  BY DEF Slots
<1>1. PICK i \in 1 .. Len(packets[s]) : x = <<s, i>>
  BY <1>0
<1>2. packets[s] \in Seq(Packet) /\ InTime(packets[s]) /\ Len(packets[s]) \in Nat
  BY LenProperties DEF TypeOK, Presented
<1>3. /\ packets[s][i].pts \in Int /\ packets[s][i].dts \in Int
      /\ - MaxDts <= packets[s][i].pts /\ packets[s][i].pts <= packets[s][i].dts
  BY <1>2, PacketTimes DEF InTime
<1>. DEFINE S == {j \in 1 .. Len(packets[s]) : <<s, j>> \in clip}
<1>4. S \in SUBSET Nat /\ i \in S
  BY <1>1, <1>2
<1>5. PICK f \in S : \A j \in S : f <= j
  <2>. HIDE DEF S
  <2>. QED BY <1>4, LeastOf
<1>6. f \in 1 .. Len(packets[s]) /\ <<s, f>> \in clip /\ f <= i
  BY <1>4, <1>5
<1>7. ASSUME NEW y \in clip, y[1] = s PROVE f <= y[2]
  <2>0. PICK q \in Streams : \E j \in 1 .. Len(packets[q]) : y = <<q, j>>
    BY DEF Slots
  <2>1. PICK j \in 1 .. Len(packets[q]) : y = <<q, j>>
    BY <2>0
  <2>2. j \in S
    BY <1>7, <2>1
  <2>. QED BY <1>5, <2>1, <2>2
<1>. DEFINE first == {z \in clip : \A y \in clip : y[1] = z[1] => z[2] <= y[2]}
<1>8. <<s, f>> \in first
  BY SMTT(30), <1>6, <1>7
<1>9. packets[s][f].pts \in FirstTimes(clip) /\ packets[s][f].dts \in FirstTimes(clip)
  BY <1>8 DEF FirstTimes, Times
<1>10. packets[s][f].pts \in Int /\ packets[s][f].dts \in Int
  BY <1>2, <1>6, PacketTimes
<1>11. CASE f = i
  BY <1>1, <1>3, <1>9, <1>11
<1>12. CASE f # i
  <2>1. f < i
    BY <1>6, <1>12
  <2>2. packets[s][f].dts <= packets[s][i].pts
    BY <1>2, <1>6, <2>1 DEF InTime
  <2>. QED BY <1>1, <1>3, <1>9, <1>10, <2>2
<1>. QED BY <1>11, <1>12

\* Every clip a save could ask for starts by the request and has its least timestamp at
\* zero after rebasing.
LEMMA ClipsFromZero == TypeOK /\ TracksOrdered /\ Presented => ClipsStartAtZero
<1>. SUFFICES ASSUME TypeOK, TracksOrdered, Presented, NEW requested \in 0 .. MaxDts,
                     NEW k \in SnapshotIndex(requested)
              PROVE  LET clip == ClipSlots(k)
                         start == ActualStart(packets[Video][k])
                         shift == NormalizeShift(clip, start)
                         times == {t - shift : t \in Times(clip)}
                     IN  /\ start <= requested
                         /\ 0 \in times
                         /\ \A t \in times : t >= 0
  BY DEF ClipsStartAtZero
<1>. DEFINE clip == ClipSlots(k)
            start == ActualStart(packets[Video][k])
            candidates == FirstTimes(clip) \cup {start}
            shift == NormalizeShift(clip, start)
<1>1. requested \in Int /\ MaxDts \in Nat
  BY BoundsAssumption
<1>2. k \in 1 .. Len(packets[Video]) /\ start \in Int /\ start <= requested
  BY <1>1, SnapshotStart
<1>3. clip \in SUBSET Slots(packets)
  BY DEF ClipSlots
<1>4. <<Video, k>> \in clip
  <2>1. k >= k
    BY <1>2
  <2>2. <<Video, k>> \in Slots(packets)
    BY SMTT(30), <1>2, StreamsAssumption DEF Slots
  <2>. QED BY <2>1, <2>2 DEF ClipSlots
<1>. HIDE DEF clip
<1>5. start \in Times(clip)
  BY <1>4 DEF ActualStart, Times
<1>6. ASSUME NEW t \in Times(clip)
      PROVE  t \in Int /\ - MaxDts <= t /\ \E u \in FirstTimes(clip) : u \in Int /\ u <= t
  <2>1. PICK x \in clip : t \in {packets[x[1]][x[2]].dts, packets[x[1]][x[2]].pts}
    BY DEF Times
  <2>2. /\ packets[x[1]][x[2]].pts \in Int /\ packets[x[1]][x[2]].dts \in Int
        /\ - MaxDts <= packets[x[1]][x[2]].pts
        /\ packets[x[1]][x[2]].pts <= packets[x[1]][x[2]].dts
    BY <1>3, FirstInClip
  <2>3. PICK u \in FirstTimes(clip) : u \in Int /\ u <= packets[x[1]][x[2]].pts
    BY <1>3, FirstInClip
  <2>. DEFINE pts == packets[x[1]][x[2]].pts
              dts == packets[x[1]][x[2]].dts
  <2>. HIDE DEF pts, dts
  <2>4. t \in Int /\ - MaxDts <= t /\ u <= t
    <3>1. t = dts \/ t = pts
      BY <2>1 DEF pts, dts
    <3>2. pts \in Int /\ dts \in Int /\ - MaxDts <= pts /\ pts <= dts /\ u \in Int /\ u <= pts
      BY <2>2, <2>3 DEF pts, dts
    <3>. QED BY <1>1, <3>1, <3>2
  <2>. QED BY <2>3, <2>4
<1>7. FirstTimes(clip) \in SUBSET Times(clip)
  BY DEF FirstTimes, Times
<1>. HIDE DEF start
<1>8. candidates \in SUBSET Int /\ candidates \in SUBSET Times(clip) /\ candidates # {}
      /\ \A m \in candidates : - MaxDts <= m
  BY <1>2, <1>5, <1>6, <1>7
<1>9. shift \in candidates /\ \A m \in candidates : shift <= m
  <2>1. shift = CHOOSE m \in candidates : \A x \in candidates : m <= x
    BY DEF NormalizeShift
  <2>. HIDE DEF candidates, shift
  <2>2. - MaxDts \in Int
    BY <1>1
  <2>3. \E m \in candidates : \A x \in candidates : m <= x
    BY <1>8, <2>2, LeastInteger
  <2>. QED BY <2>1, <2>3
<1>. HIDE DEF shift
<1>10. shift \in Times(clip) /\ shift \in Int
  BY <1>8, <1>9
<1>11. ASSUME NEW t \in Times(clip) PROVE t - shift >= 0
  <2>1. PICK u \in FirstTimes(clip) : u \in Int /\ u <= t
    BY <1>6
  <2>2. shift <= u /\ t \in Int
    BY <1>6, <1>9, <2>1
  <2>. QED BY <1>10, <2>1, <2>2
<1>12. shift - shift = 0
  BY <1>10
<1>. QED BY <1>2, <1>10, <1>11, <1>12 DEF clip, start, shift

\* Every clip a save could take in a reachable state is decodable, covers the window if
\* the buffer is primed, and is timed from zero.
THEOREM ClipAlwaysSound == Spec => []ClipSound
<1>1. TypeOK /\ TracksOrdered /\ NoHoles /\ Kept => ClipSound
  BY PrimedCovers, ClipsFromZero DEF Kept, ClipSound
<1>. QED BY <1>1, BufferInvariant, PTL
=============================================================================
