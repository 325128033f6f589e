-------------------------- MODULE SavePipelineProofs --------------------------
(* Proofs about saving a replay: for any channel bound, any clip paths and any *)
(* number of requests, renames and deaths.                                    *)
EXTENDS SavePipeline, SequenceTheorems, TLAPS

Result == [save : Saves, told : {"saved", "failed"}]

-----------------------------------------------------------------------------
(* Sequences.                                                                 *)
Distinct(seq) == \A i, j \in 1..Len(seq) : seq[i] = seq[j] => i = j

LEMMA SetOf ==
    ASSUME NEW S, NEW a \in Seq(S)
    PROVE  ToSet(a) = {a[i] : i \in 1..Len(a)} /\ ToSet(a) \subseteq S
BY LenProperties, ElementOfSeq DEF ToSet

LEMMA ConcatSet ==
    ASSUME NEW S, NEW a \in Seq(S), NEW b \in Seq(S)
    PROVE  ToSet(a \o b) = ToSet(a) \cup ToSet(b)
<1>1. /\ a \o b \in Seq(S) /\ Len(a \o b) = Len(a) + Len(b)
      /\ Len(a) \in Nat /\ Len(b) \in Nat
      /\ \A i \in 1..Len(a) + Len(b) : (a \o b)[i] = IF i <= Len(a) THEN a[i] ELSE b[i - Len(a)]
  BY ConcatProperties, LenProperties
<1>2. /\ ToSet(a \o b) = {(a \o b)[i] : i \in 1..Len(a) + Len(b)}
      /\ ToSet(a) = {a[i] : i \in 1..Len(a)} /\ ToSet(b) = {b[i] : i \in 1..Len(b)}
  BY <1>1, SetOf
<1>3. ASSUME NEW i \in 1..Len(a) + Len(b) PROVE (a \o b)[i] \in ToSet(a) \cup ToSet(b)
  <2>1. CASE i <= Len(a)
    <3>1. i \in 1..Len(a) /\ (a \o b)[i] = a[i]
      BY <1>1, <2>1
    <3>. QED BY <1>2, <3>1
  <2>2. CASE ~ (i <= Len(a))
    <3>1. i - Len(a) \in 1..Len(b) /\ (a \o b)[i] = b[i - Len(a)]
      BY <1>1, <2>2
    <3>. QED BY <1>2, <3>1
  <2>. QED BY <2>1, <2>2
<1>4. ASSUME NEW i \in 1..Len(a) PROVE a[i] \in ToSet(a \o b)
  <2>1. i \in 1..Len(a) + Len(b) /\ (a \o b)[i] = a[i]
    BY <1>1
  <2>. QED BY <1>2, <2>1
<1>5. ASSUME NEW i \in 1..Len(b) PROVE b[i] \in ToSet(a \o b)
  <2>1. i + Len(a) \in 1..Len(a) + Len(b) /\ (a \o b)[i + Len(a)] = b[i]
    BY <1>1
  <2>. QED BY <1>2, <2>1
<1>. QED BY <1>2, <1>3, <1>4, <1>5

LEMMA ConcatDistinct ==
    ASSUME NEW S, NEW a \in Seq(S), NEW b \in Seq(S), Distinct(a \o b)
    PROVE  Distinct(a) /\ Distinct(b) /\ ToSet(a) \cap ToSet(b) = {}
<1>1. /\ Len(a \o b) = Len(a) + Len(b) /\ Len(a) \in Nat /\ Len(b) \in Nat
      /\ \A i \in 1..Len(a) + Len(b) : (a \o b)[i] = IF i <= Len(a) THEN a[i] ELSE b[i - Len(a)]
  BY ConcatProperties, LenProperties
<1>2. /\ \A i \in 1..Len(a) : i \in 1..Len(a \o b) /\ (a \o b)[i] = a[i]
      /\ \A i \in 1..Len(b) : i + Len(a) \in 1..Len(a \o b) /\ (a \o b)[i + Len(a)] = b[i]
  BY <1>1
<1>3. Distinct(a)
  BY <1>1, <1>2 DEF Distinct
<1>4. ASSUME NEW i \in 1..Len(b), NEW j \in 1..Len(b), b[i] = b[j] PROVE i = j
  <2>1. i + Len(a) = j + Len(a)
    BY <1>2, <1>4 DEF Distinct
  <2>. QED BY <1>1, <2>1
<1>5. ASSUME NEW i \in 1..Len(a), NEW j \in 1..Len(b), a[i] = b[j] PROVE FALSE
  <2>1. i = j + Len(a)
    BY <1>2, <1>5 DEF Distinct
  <2>. QED BY <1>1, <2>1
<1>6. ToSet(a) \cap ToSet(b) = {}
  BY <1>5, SetOf
<1>. QED BY <1>3, <1>4, <1>6 DEF Distinct

LEMMA AppendDistinct ==
    ASSUME NEW S, NEW a \in Seq(S), NEW e \in S
    PROVE  /\ ToSet(Append(a, e)) = ToSet(a) \cup {e}
           /\ Distinct(a) /\ e \notin ToSet(a) => Distinct(Append(a, e))
<1>1. /\ Append(a, e) \in Seq(S) /\ Len(Append(a, e)) = Len(a) + 1 /\ Len(a) \in Nat
      /\ (\A i \in 1..Len(a) : Append(a, e)[i] = a[i]) /\ Append(a, e)[Len(a) + 1] = e
  BY AppendProperties, LenProperties
<1>2. ToSet(Append(a, e)) = {Append(a, e)[i] : i \in 1..Len(a) + 1} /\ ToSet(a) = {a[i] : i \in 1..Len(a)}
  BY <1>1, SetOf
<1>3. 1..Len(a) + 1 = (1..Len(a)) \cup {Len(a) + 1}
  BY <1>1
<1>4. ToSet(Append(a, e)) = ToSet(a) \cup {e}
  BY <1>1, <1>2, <1>3
<1>5. ASSUME Distinct(a), e \notin ToSet(a) PROVE Distinct(Append(a, e))
  <2>. SUFFICES ASSUME NEW i \in 1..Len(a) + 1, NEW j \in 1..Len(a) + 1, Append(a, e)[i] = Append(a, e)[j]
                PROVE  i = j
    BY <1>1 DEF Distinct
  <2>. QED BY <1>1, <1>2, <1>3, <1>5 DEF Distinct
<1>. QED BY <1>4, <1>5

LEMMA HeadTailSet ==
    ASSUME NEW S, NEW a \in Seq(S), a # <<>>
    PROVE  /\ Head(a) \in S /\ Tail(a) \in Seq(S) /\ Len(Tail(a)) = Len(a) - 1 /\ Len(a) \in Nat
           /\ ToSet(a) = {Head(a)} \cup ToSet(Tail(a))
<1>1. /\ Head(a) \in S /\ Tail(a) \in Seq(S) /\ Len(Tail(a)) = Len(a) - 1 /\ Len(a) \in Nat \ {0}
      /\ Head(a) = a[1] /\ \A i \in 1..Len(a) - 1 : Tail(a)[i] = a[i + 1]
  BY HeadTailProperties, EmptySeq, LenProperties
<1>2. ToSet(a) = {a[i] : i \in 1..Len(a)} /\ ToSet(Tail(a)) = {Tail(a)[i] : i \in 1..Len(Tail(a))}
  BY <1>1, SetOf
<1>3. ASSUME NEW i \in 1..Len(a), i # 1 PROVE a[i] \in ToSet(Tail(a))
  <2>1. i - 1 \in 1..Len(a) - 1 /\ (i - 1) + 1 = i
    BY <1>1, <1>3
  <2>2. a[i] = Tail(a)[i - 1] /\ i - 1 \in 1..Len(Tail(a))
    BY <1>1, <2>1
  <2>. QED BY <1>2, <2>2
<1>4. ASSUME NEW i \in 1..Len(Tail(a)) PROVE Tail(a)[i] \in ToSet(a)
  <2>1. i + 1 \in 1..Len(a) /\ Tail(a)[i] = a[i + 1]
    BY <1>1
  <2>. QED BY <1>2, <2>1
<1>5. Head(a) \in ToSet(a)
  <2>1. 1 \in 1..Len(a)
    BY <1>1
  <2>. QED BY <1>1, <1>2, <2>1
<1>6. \A x \in ToSet(a) : x = Head(a) \/ x \in ToSet(Tail(a))
  BY <1>1, <1>2, <1>3
<1>7. \A x \in ToSet(Tail(a)) : x \in ToSet(a)
  BY <1>2, <1>4
<1>. QED BY <1>1, <1>5, <1>6, <1>7

(* The requests of results.                                                    *)
LEMMA SavesOf ==
    ASSUME NEW rs \in Seq(Result)
    PROVE  /\ SavesIn(rs) \in Seq(Saves) /\ Len(SavesIn(rs)) = Len(rs)
           /\ \A i \in 1..Len(rs) : SavesIn(rs)[i] = rs[i].save
           /\ ToSet(SavesIn(rs)) = {rs[i].save : i \in 1..Len(rs)}
<1>1. DOMAIN rs = 1..Len(rs) /\ Len(rs) \in Nat /\ \A i \in 1..Len(rs) : rs[i] \in Result
  BY LenProperties, ElementOfSeq
<1>2. SavesIn(rs) = [i \in 1..Len(rs) |-> rs[i].save] /\ \A i \in 1..Len(rs) : rs[i].save \in Saves
  BY <1>1 DEF SavesIn, Result
<1>3. SavesIn(rs) \in Seq(Saves) /\ Len(SavesIn(rs)) = Len(rs)
  BY <1>1, <1>2
<1>4. ToSet(SavesIn(rs)) = {SavesIn(rs)[i] : i \in 1..Len(rs)}
  BY <1>3, SetOf
<1>. QED BY <1>2, <1>3, <1>4

LEMMA EmptyFacts ==
    ToSet(<<>>) = {} /\ Distinct(<<>>) /\ SavesIn(<<>>) = <<>>
<1>1. <<>> \in Seq(Result) /\ Len(<<>>) = 0 /\ 1..0 = {}
  BY EmptySeq
<1>2. SavesIn(<<>>) \in Seq(Saves) /\ Len(SavesIn(<<>>)) = 0
  BY <1>1, SavesOf
<1>3. SavesIn(<<>>) = <<>>
  BY <1>2, EmptySeq
<1>4. ToSet(<<>>) = {}
  <2>1. DOMAIN <<>> = {}
    OBVIOUS
  <2>. QED BY <2>1 DEF ToSet
<1>. QED BY <1>1, <1>3, <1>4 DEF Distinct

LEMMA SavesConcat ==
    ASSUME NEW a \in Seq(Result), NEW b \in Seq(Result)
    PROVE  SavesIn(a \o b) = SavesIn(a) \o SavesIn(b)
<1>1. a \o b \in Seq(Result) /\ Len(a \o b) = Len(a) + Len(b) /\ Len(a) \in Nat /\ Len(b) \in Nat
      /\ \A i \in 1..Len(a) + Len(b) : (a \o b)[i] = IF i <= Len(a) THEN a[i] ELSE b[i - Len(a)]
  BY ConcatProperties, LenProperties
<1>2. SavesIn(a) \o SavesIn(b) \in Seq(Saves) /\ Len(SavesIn(a) \o SavesIn(b)) = Len(a) + Len(b)
      /\ \A i \in 1..Len(a) + Len(b) : (SavesIn(a) \o SavesIn(b))[i] =
            IF i <= Len(a) THEN SavesIn(a)[i] ELSE SavesIn(b)[i - Len(a)]
  <2>1. SavesIn(a) \in Seq(Saves) /\ SavesIn(b) \in Seq(Saves)
        /\ Len(SavesIn(a)) = Len(a) /\ Len(SavesIn(b)) = Len(b)
    BY SavesOf
  <2>2. /\ SavesIn(a) \o SavesIn(b) \in Seq(Saves)
        /\ Len(SavesIn(a) \o SavesIn(b)) = Len(SavesIn(a)) + Len(SavesIn(b))
        /\ \A i \in 1..Len(SavesIn(a)) + Len(SavesIn(b)) : (SavesIn(a) \o SavesIn(b))[i] =
                IF i <= Len(SavesIn(a)) THEN SavesIn(a)[i] ELSE SavesIn(b)[i - Len(SavesIn(a))]
    BY <2>1, ConcatProperties
  <2>. QED BY <2>1, <2>2
<1>3. SavesIn(a \o b) \in Seq(Saves) /\ Len(SavesIn(a \o b)) = Len(a) + Len(b)
  BY <1>1, SavesOf
<1>4. ASSUME NEW i \in 1..Len(a) + Len(b) PROVE SavesIn(a \o b)[i] = (SavesIn(a) \o SavesIn(b))[i]
  <2>1. SavesIn(a \o b)[i] = (a \o b)[i].save
    BY <1>1, SavesOf
  <2>2. CASE i <= Len(a)
    <3>1. i \in 1..Len(a)
      BY <1>1, <2>2
    <3>. QED BY <1>1, <1>2, <2>1, <2>2, <3>1, SavesOf
  <2>3. CASE ~ (i <= Len(a))
    <3>1. i - Len(a) \in 1..Len(b)
      BY <1>1, <2>3
    <3>2. SavesIn(b)[i - Len(a)] = b[i - Len(a)].save
      BY <3>1, SavesOf
    <3>. QED BY <1>1, <1>2, <2>1, <2>3, <3>2
  <2>. QED BY <2>2, <2>3
<1>. QED BY <1>2, <1>3, <1>4, SeqEqual

LEMMA SavesAppend ==
    ASSUME NEW a \in Seq(Result), NEW e \in Result
    PROVE  SavesIn(Append(a, e)) = Append(SavesIn(a), e.save)
<1>1. Append(a, e) \in Seq(Result) /\ Len(Append(a, e)) = Len(a) + 1 /\ Len(a) \in Nat
      /\ (\A i \in 1..Len(a) : Append(a, e)[i] = a[i]) /\ Append(a, e)[Len(a) + 1] = e
  BY AppendProperties, LenProperties
<1>2. e.save \in Saves
  BY DEF Result
<1>3. Append(SavesIn(a), e.save) \in Seq(Saves) /\ Len(Append(SavesIn(a), e.save)) = Len(a) + 1
      /\ (\A i \in 1..Len(a) : Append(SavesIn(a), e.save)[i] = SavesIn(a)[i])
      /\ Append(SavesIn(a), e.save)[Len(a) + 1] = e.save
  BY <1>2, SavesOf, AppendProperties
<1>4. SavesIn(Append(a, e)) \in Seq(Saves) /\ Len(SavesIn(Append(a, e))) = Len(a) + 1
      /\ \A i \in 1..Len(a) + 1 : SavesIn(Append(a, e))[i] = Append(a, e)[i].save
  BY <1>1, SavesOf
<1>5. \A i \in 1..Len(a) + 1 : SavesIn(Append(a, e))[i] = Append(SavesIn(a), e.save)[i]
  <2>1. \A i \in 1..Len(a) + 1 : i \in 1..Len(a) \/ i = Len(a) + 1
    BY <1>1
  <2>. QED BY <1>1, <1>3, <1>4, <2>1, SavesOf
<1>. QED BY <1>3, <1>4, <1>5, SeqEqual

(* The same of requests, for any of their sequences.                           *)
LEMMA Lines ==
    \A a, b \in Seq(Saves) :
        /\ a \o b \in Seq(Saves) /\ ToSet(a \o b) = ToSet(a) \cup ToSet(b)
        /\ a \o <<>> = a /\ <<>> \o a = a
BY ConcatProperties, ConcatSet, ConcatEmptySeq

LEMMA LinesAssociate ==
    ASSUME NEW a \in Seq(Saves), NEW b \in Seq(Saves), NEW c \in Seq(Saves)
    PROVE  (a \o b) \o c = a \o (b \o c)
BY ConcatAssociative

-----------------------------------------------------------------------------
(* What a worker owes.                                                        *)
LEMMA Flowing ==
    ASSUME NEW w \in WorkerType
    PROVE  /\ w.results \in Seq(Result) /\ w.queue \in Seq(Saves) /\ w.hand \in Saves \cup {None}
           /\ SavesIn(w.results) \in Seq(Saves) /\ InHand(w) \in Seq(Saves) /\ Flow(w) \in Seq(Saves)
           /\ ToSet(InHand(w)) = {w.hand} \ {None}
           /\ ToSet(Flow(w)) = ToSet(SavesIn(w.results)) \cup ToSet(InHand(w)) \cup ToSet(w.queue)
<1>1. w.results \in Seq(Result) /\ w.queue \in Seq(Saves) /\ w.hand \in Saves \cup {None}
  BY DEF WorkerType, Result
<1>2. SavesIn(w.results) \in Seq(Saves)
  BY <1>1, SavesOf
<1>3. InHand(w) \in Seq(Saves) /\ ToSet(InHand(w)) = {w.hand} \ {None}
  <2>1. CASE w.hand = None
    BY <2>1, EmptyFacts, EmptySeq DEF InHand
  <2>2. CASE w.hand # None
    <3>1. InHand(w) = <<w.hand>> /\ w.hand \in Saves
      BY <1>1, <2>2 DEF InHand
    <3>2. <<w.hand>> \in Seq(Saves) /\ DOMAIN <<w.hand>> = {1} /\ <<w.hand>>[1] = w.hand
      BY <3>1
    <3>. QED BY <2>2, <3>1, <3>2 DEF ToSet
  <2>. QED BY <2>1, <2>2
<1>4. SavesIn(w.results) \o InHand(w) \in Seq(Saves)
      /\ ToSet(SavesIn(w.results) \o InHand(w)) = ToSet(SavesIn(w.results)) \cup ToSet(InHand(w))
  BY <1>2, <1>3, Lines
<1>5. Flow(w) \in Seq(Saves)
      /\ ToSet(Flow(w)) = ToSet(SavesIn(w.results) \o InHand(w)) \cup ToSet(w.queue)
  BY <1>1, <1>4, Lines DEF Flow
<1>. QED BY <1>1, <1>2, <1>3, <1>4, <1>5

LEMMA FlowSame ==
    ASSUME NEW w, NEW u, u.results = w.results, u.hand = w.hand, u.queue = w.queue
    PROVE  Flow(u) = Flow(w)
BY DEF Flow, InHand

(* Taking a request and delivering its result leave the line as it is, one     *)
(* more request goes to its end.                                              *)
LEMMA FlowTaken ==
    ASSUME NEW w \in WorkerType, NEW u \in WorkerType, w.hand = None, w.queue # <<>>,
           u.results = w.results, u.hand = Head(w.queue), u.queue = Tail(w.queue)
    PROVE  Flow(u) = Flow(w)
<1>1. SavesIn(w.results) \in Seq(Saves) /\ w.queue \in Seq(Saves)
  BY Flowing
<1>2. Head(w.queue) \in Saves /\ Tail(w.queue) \in Seq(Saves) /\ w.queue = <<Head(w.queue)>> \o Tail(w.queue)
  <2>1. Head(w.queue) \in Saves /\ Tail(w.queue) \in Seq(Saves)
    BY <1>1, HeadTailProperties
  <2>2. Len(w.queue) \in Nat \ {0}
    BY <1>1, EmptySeq
  <2>3. SubSeq(w.queue, 1, Len(w.queue)) = <<w.queue[1]>> \o SubSeq(w.queue, 2, Len(w.queue))
    <3>1. 1 \in 1..Len(w.queue) /\ Len(w.queue) \in 1..Len(w.queue)
      BY <2>2
    <3>2. SubSeq(w.queue, 1, Len(w.queue)) = <<w.queue[1]>> \o SubSeq(w.queue, 1 + 1, Len(w.queue))
      BY <1>1, <3>1, SubSeqRecursiveFirst
    <3>. QED BY <3>2
  <2>4. SubSeq(w.queue, 1, Len(w.queue)) = w.queue /\ Tail(w.queue) = SubSeq(w.queue, 2, Len(w.queue))
        /\ Head(w.queue) = w.queue[1]
    BY <1>1, SubSeqFull, TailIsSubSeq
  <2>. QED BY <2>1, <2>3, <2>4
<1>3. Flow(w) = SavesIn(w.results) \o w.queue
  BY <1>1, ConcatEmptySeq DEF Flow, InHand
<1>4. InHand(u) = <<Head(w.queue)>> /\ <<Head(w.queue)>> \in Seq(Saves)
  BY <1>2 DEF InHand, Saves, None
<1>5. Flow(u) = (SavesIn(w.results) \o <<Head(w.queue)>>) \o Tail(w.queue)
  BY <1>4 DEF Flow
<1>6. (SavesIn(w.results) \o <<Head(w.queue)>>) \o Tail(w.queue)
        = SavesIn(w.results) \o (<<Head(w.queue)>> \o Tail(w.queue))
  BY <1>1, <1>2, <1>4, LinesAssociate, Zenon
<1>. QED BY <1>2, <1>3, <1>5, <1>6

LEMMA FlowDelivered ==
    ASSUME NEW w \in WorkerType, NEW u \in WorkerType, NEW told \in {"saved", "failed"}, w.hand # None,
           u.results = Append(w.results, [save |-> w.hand, told |-> told]),
           u.hand = None, u.queue = w.queue
    PROVE  Flow(u) = Flow(w)
<1>1. SavesIn(w.results) \in Seq(Saves) /\ w.queue \in Seq(Saves) /\ w.hand \in Saves
      /\ w.results \in Seq(Result)
  BY Flowing
<1>2. SavesIn(u.results) = Append(SavesIn(w.results), w.hand)
  <2>. DEFINE e == [save |-> w.hand, told |-> told]
  <2>1. e \in Result /\ e.save = w.hand
    BY <1>1 DEF Result
  <2>2. SavesIn(Append(w.results, e)) = Append(SavesIn(w.results), e.save)
    BY <1>1, <2>1, SavesAppend
  <2>. QED BY <2>1, <2>2
<1>3. Append(SavesIn(w.results), w.hand) = SavesIn(w.results) \o <<w.hand>>
  BY <1>1, AppendIsConcat
<1>4. SavesIn(w.results) \o <<w.hand>> \in Seq(Saves)
  BY <1>1, <1>3, AppendProperties
<1>5. InHand(u) = <<>> /\ InHand(w) = <<w.hand>>
  BY DEF InHand
<1>6. Flow(u) = ((SavesIn(w.results) \o <<w.hand>>) \o <<>>) \o w.queue
  BY <1>2, <1>3, <1>5 DEF Flow
<1>7. (SavesIn(w.results) \o <<w.hand>>) \o <<>> = SavesIn(w.results) \o <<w.hand>>
  BY <1>4, ConcatEmptySeq
<1>. QED BY <1>5, <1>6, <1>7 DEF Flow

LEMMA FlowAsked ==
    ASSUME NEW w \in WorkerType, NEW u \in WorkerType, NEW s \in Saves,
           u.results = w.results, u.hand = w.hand, u.queue = Append(w.queue, s)
    PROVE  Flow(u) = Append(Flow(w), s)
<1>1. w.queue \in Seq(Saves) /\ Flow(w) \in Seq(Saves) /\ SavesIn(w.results) \in Seq(Saves)
      /\ InHand(w) \in Seq(Saves)
  BY Flowing
<1>2. Append(w.queue, s) = w.queue \o <<s>> /\ Append(Flow(w), s) = Flow(w) \o <<s>> /\ <<s>> \in Seq(Saves)
  BY <1>1, AppendIsConcat
<1>3. SavesIn(w.results) \o InHand(w) \in Seq(Saves)
  BY <1>1, ConcatProperties
<1>4. (SavesIn(w.results) \o InHand(w)) \o (w.queue \o <<s>>)
        = ((SavesIn(w.results) \o InHand(w)) \o w.queue) \o <<s>>
  BY <1>1, <1>2, <1>3, LinesAssociate, Zenon
<1>5. InHand(u) = InHand(w)
  BY DEF InHand
<1>. QED BY <1>2, <1>4, <1>5 DEF Flow

(* Results that were read leave it at its front.                               *)
LEMMA FlowRead ==
    ASSUME NEW w \in WorkerType, NEW u \in WorkerType,
           u.results = <<>>, u.hand = w.hand, u.queue = w.queue
    PROVE  Flow(w) = SavesIn(w.results) \o Flow(u)
<1>1. w.queue \in Seq(Saves) /\ SavesIn(w.results) \in Seq(Saves) /\ InHand(w) \in Seq(Saves)
  BY Flowing
<1>2. InHand(u) = InHand(w)
  BY DEF InHand
<1>3. Flow(u) = InHand(w) \o w.queue
  BY <1>1, <1>2, EmptyFacts, ConcatEmptySeq DEF Flow
<1>4. (SavesIn(w.results) \o InHand(w)) \o w.queue = SavesIn(w.results) \o (InHand(w) \o w.queue)
  BY <1>1, LinesAssociate, Zenon
<1>. QED BY <1>3, <1>4 DEF Flow

-----------------------------------------------------------------------------
(* The inductive invariant. Ahead is what a dropped worker still has, Line is   *)
(* every request on its way, oldest first.                                     *)
Ahead == Flow(workers["dropped"])
Line == Ahead \o Pending

(* A second worker exists while it is dropped, results are collected while a    *)
(* shutdown waits, and a thread that is gone has nothing left.                 *)
Quiet ==
    /\ pc # "replace" => workers["dropped"] = NoWorker
    /\ pc # "drain" => collected = <<>>
    /\ \A r \in Roles :
        /\ workers[r].thread # "running" => workers[r].hand = None /\ workers[r].queue = <<>>
        /\ workers[r].hand = None <=> workers[r].phase = "idle"
    /\ workers["kept"].thread # "none" => workers["kept"].heard
    /\ workers["dropped"].results = <<>> /\ ~ workers["dropped"].heard

(* A request is in one place, under a name of its own.                         *)
Named ==
    /\ Distinct(Line)
    /\ \A s \in ToSet(Line) : name[s] \in reserved
    /\ \A s, t \in ToSet(Line) : name[s] = name[t] => s = t
    /\ \A s \in ToSet(Pending) : verdict[s] = "accepted"
    /\ \A s \in ToSet(Ahead) : verdict[s] = "abandoned"

(* What lies under the name of a request is its own clip or one that was moved. *)
Filed == \A s \in ToSet(Line) : clips[name[s]] \in {None, s} \cup moved

(* Results and phases say what was written.                                    *)
Told ==
    /\ \A s \in written : verdict[s] # "unasked"
    /\ \A r \in Roles :
        /\ workers[r].phase = "saved" => workers[r].hand \in written
        /\ workers[r].phase \in {"taken", "staged", "failed"} => workers[r].hand \notin written
        /\ ToSet(workers[r].queue) \cap written = {}
    /\ \A a \in ToSet(collected) \cup ToSet(workers["kept"].results) :
        a.told = "saved" <=> a.save \in written

(* A part file that is being written is not one a killed process left.          *)
Fresh == \A r \in Roles : workers[r].phase = "staged" => name[workers[r].hand] \notin stale

(* The requests asked so far are the first ones: there is a next one.           *)
Asked == \E k \in 0..MaxSaves : \A s \in Saves : verdict[s] = "unasked" <=> s > k

IInv ==
    /\ TypeOK /\ Quiet /\ Named /\ Filed /\ Told /\ Fresh /\ Asked
    /\ VerdictsTruthful /\ PartsAccounted

-----------------------------------------------------------------------------
LEMMA Bounds == QueueBound \in Nat \ {0} /\ MaxSaves \in Nat /\ MaxMoves \in Nat /\ MaxKills \in Nat
BY QueueBoundAssumption, MaxSavesAssumption, MaxMovesAssumption, MaxKillsAssumption

LEMMA NoWorkerFacts ==
    /\ NoWorker \in WorkerType /\ FreshWorker \in WorkerType
    /\ Flow(NoWorker) = <<>> /\ Flow(FreshWorker) = <<>>
    /\ \A w \in {NoWorker, FreshWorker} :
        w.queue = <<>> /\ w.results = <<>> /\ w.hand = None /\ w.phase = "idle"
    /\ NoWorker.thread = "none" /\ ~ NoWorker.heard /\ FreshWorker.thread = "running" /\ FreshWorker.heard
<1>1. <<>> \in Seq(Saves) /\ <<>> \in Seq([save: Saves, told: {"saved", "failed"}])
  BY EmptySeq
<1>2. NoWorker \in WorkerType /\ FreshWorker \in WorkerType
  BY <1>1 DEF NoWorker, FreshWorker, WorkerType
<1>3. /\ \A w \in {NoWorker, FreshWorker} :
            w.queue = <<>> /\ w.results = <<>> /\ w.hand = None /\ w.phase = "idle"
      /\ NoWorker.thread = "none" /\ ~ NoWorker.heard /\ FreshWorker.thread = "running" /\ FreshWorker.heard
  BY DEF NoWorker, FreshWorker
<1>4. ASSUME NEW w \in {NoWorker, FreshWorker} PROVE Flow(w) = <<>>
  <2>1. SavesIn(w.results) = <<>> /\ InHand(w) = <<>> /\ w.queue = <<>>
    BY <1>3, EmptyFacts DEF InHand
  <2>. QED BY <1>1, <2>1, ConcatEmptySeq DEF Flow
<1>. QED BY <1>2, <1>3, <1>4

(* The sequences of a state.                                                   *)
LEMMA InLine ==
    ASSUME TypeOK
    PROVE  /\ collected \in Seq(Result) /\ SavesIn(collected) \in Seq(Saves)
           /\ \A r \in Roles : workers[r] \in WorkerType
           /\ Ahead \in Seq(Saves) /\ Pending \in Seq(Saves) /\ Line \in Seq(Saves)
           /\ ToSet(Pending) = ToSet(SavesIn(collected)) \cup ToSet(Flow(workers["kept"]))
           /\ ToSet(Line) = ToSet(Ahead) \cup ToSet(Pending)
           /\ ToSet(Line) \subseteq Saves /\ InFlight = ToSet(Line)
<1>1. collected \in Seq(Result) /\ SavesIn(collected) \in Seq(Saves)
  BY SavesOf DEF TypeOK, Result
<1>2. \A r \in Roles : workers[r] \in WorkerType
  BY DEF TypeOK
<1>3. Ahead \in Seq(Saves) /\ Flow(workers["kept"]) \in Seq(Saves)
  BY <1>2, Flowing DEF Ahead, Roles
<1>4. /\ Pending \in Seq(Saves)
      /\ ToSet(Pending) = ToSet(SavesIn(collected)) \cup ToSet(Flow(workers["kept"]))
  BY <1>1, <1>3, Lines DEF Pending
<1>5. Line \in Seq(Saves) /\ ToSet(Line) = ToSet(Ahead) \cup ToSet(Pending)
  BY <1>3, <1>4, Lines DEF Line
<1>6. ToSet(Line) \subseteq Saves
  BY <1>5, SetOf
<1>. QED BY <1>1, <1>2, <1>3, <1>4, <1>5, <1>6 DEF InFlight, Ahead

(* One worker changes.                                                         *)
LEMMA WorkerChanges ==
    ASSUME TypeOK, NEW r \in Roles, NEW u \in WorkerType, workers' = [workers EXCEPT ![r] = u],
           Len(u.queue) <= QueueBound, Len(u.results) <= QueueBound
    PROVE  /\ workers' \in [Roles -> WorkerType]
           /\ \A q \in Roles : Len(workers'[q].queue) <= QueueBound /\ Len(workers'[q].results) <= QueueBound
           /\ workers'[r] = u /\ \A q \in Roles : q # r => workers'[q] = workers[q]
BY DEF TypeOK

LEMMA InitInv == Init => IInv
<1>. SUFFICES ASSUME Init PROVE IInv
  OBVIOUS
<1>. USE NoWorkerFacts
<1>1. <<>> \in Seq([save: Saves, told: {"saved", "failed"}]) /\ Len(<<>>) = 0
  BY EmptySeq
<1>2. TypeOK
  <2>1. \A r \in Roles : workers[r] = NoWorker
    BY DEF Init
  <2>2. workers \in [Roles -> WorkerType]
    BY DEF Init
  <2>3. \A r \in Roles : Len(workers[r].queue) <= QueueBound /\ Len(workers[r].results) <= QueueBound
    BY <1>1, <2>1, Bounds
  <2>. QED BY <1>1, <2>2, <2>3, Bounds DEF Init, TypeOK, Commands
<1>3. workers["dropped"] = NoWorker /\ workers["kept"] = NoWorker /\ \A r \in Roles : workers[r] = NoWorker
  BY DEF Init, Roles
<1>4. Quiet
  BY <1>3 DEF Init, Quiet
<1>5. Ahead = <<>> /\ Pending = <<>> /\ Line = <<>>
  <2>1. SavesIn(collected) = <<>>
    BY EmptyFacts DEF Init
  <2>2. <<>> \o <<>> = <<>>
    BY EmptySeq, Lines
  <2>. QED BY <1>3, <2>1, <2>2 DEF Ahead, Pending, Line
<1>6. Named /\ Filed
  BY <1>5, EmptyFacts DEF Named, Filed
<1>7. Told
  BY <1>3, EmptyFacts DEF Init, Told
<1>8. VerdictsTruthful /\ PartsAccounted /\ Fresh
  BY <1>3 DEF Init, VerdictsTruthful, PartsAccounted, Fresh
<1>9. Asked
  <2>1. \A s \in Saves : verdict[s] = "unasked" /\ s > 0
    BY DEF Init, Saves
  <2>2. 0 \in 0..MaxSaves
    BY Bounds
  <2>. QED BY <2>1, <2>2 DEF Asked
<1>. QED BY <1>2, <1>4, <1>6, <1>7, <1>8, <1>9 DEF IInv

-----------------------------------------------------------------------------
(* A request in a worker's hand is nowhere else.                               *)
LEMMA FlowApart ==
    ASSUME NEW w \in WorkerType, Distinct(Flow(w)), w.hand # None
    PROVE  w.hand \in ToSet(Flow(w)) /\ w.hand \notin ToSet(w.queue) /\ w.hand \notin ToSet(SavesIn(w.results))
<1>1. /\ SavesIn(w.results) \in Seq(Saves) /\ InHand(w) \in Seq(Saves) /\ w.queue \in Seq(Saves)
      /\ ToSet(InHand(w)) = {w.hand} /\ ToSet(InHand(w)) \subseteq ToSet(Flow(w))
  BY Flowing
<1>. DEFINE a == SavesIn(w.results)
            b == InHand(w)
<1>2. a \o b \in Seq(Saves) /\ ToSet(a \o b) = ToSet(a) \cup ToSet(b)
  BY <1>1, Lines
<1>3. Distinct(a \o b) /\ ToSet(a \o b) \cap ToSet(w.queue) = {}
  <2>1. Distinct((a \o b) \o w.queue)
    BY DEF Flow
  <2>. QED BY <1>1, <1>2, <2>1, ConcatDistinct
<1>4. ToSet(a) \cap ToSet(b) = {}
  BY <1>1, <1>3, ConcatDistinct
<1>. QED BY <1>1, <1>2, <1>3, <1>4

LEMMA Apart ==
    ASSUME TypeOK, Named
    PROVE  /\ Distinct(Ahead) /\ Distinct(Pending) /\ ToSet(Ahead) \cap ToSet(Pending) = {}
           /\ \A r \in Roles : Distinct(Flow(workers[r]))
           /\ ToSet(SavesIn(collected)) \cap ToSet(Flow(workers["kept"])) = {}
<1>1. /\ Distinct(Ahead) /\ Distinct(Pending) /\ ToSet(Ahead) \cap ToSet(Pending) = {}
  <2>1. Distinct(Ahead \o Pending) /\ Ahead \in Seq(Saves) /\ Pending \in Seq(Saves)
    BY InLine DEF Named, Line
  <2>. QED BY <2>1, ConcatDistinct
<1>2. /\ Distinct(Flow(workers["kept"]))
      /\ ToSet(SavesIn(collected)) \cap ToSet(Flow(workers["kept"])) = {}
  <2>1. SavesIn(collected) \in Seq(Saves) /\ Flow(workers["kept"]) \in Seq(Saves)
        /\ Distinct(SavesIn(collected) \o Flow(workers["kept"]))
    BY <1>1, InLine, Flowing DEF Pending, Roles
  <2>. QED BY <2>1, ConcatDistinct
<1>. QED BY <1>1, <1>2 DEF Ahead, Roles

LEMMA HandApart ==
    ASSUME TypeOK, Named, NEW r \in Roles, workers[r].hand # None
    PROVE  /\ workers[r].hand \in ToSet(Line) /\ workers[r].hand \in Saves
           /\ \A q \in Roles : /\ workers[r].hand \notin ToSet(workers[q].queue)
                               /\ q # r => workers[q].hand # workers[r].hand
           /\ workers[r].hand \notin ToSet(SavesIn(collected)) \cup ToSet(SavesIn(workers["kept"].results))
<1>. DEFINE h == workers[r].hand
<1>1. \A q \in Roles :
        /\ workers[q] \in WorkerType /\ Distinct(Flow(workers[q]))
        /\ ToSet(SavesIn(workers[q].results)) \subseteq ToSet(Flow(workers[q]))
        /\ ToSet(workers[q].queue) \subseteq ToSet(Flow(workers[q]))
        /\ workers[q].hand # None => workers[q].hand \in ToSet(Flow(workers[q]))
  BY InLine, Apart, Flowing, FlowApart
<1>2. h \in ToSet(Flow(workers[r])) /\ h \notin ToSet(workers[r].queue)
      /\ h \notin ToSet(SavesIn(workers[r].results))
  BY <1>1, FlowApart
<1>3. /\ ToSet(Flow(workers["dropped"])) \cap ToSet(Flow(workers["kept"])) = {}
      /\ ToSet(SavesIn(collected)) \cap ToSet(Flow(workers["kept"])) = {}
      /\ ToSet(SavesIn(collected)) \cap ToSet(Flow(workers["dropped"])) = {}
      /\ ToSet(Flow(workers[r])) \subseteq ToSet(Line)
  BY Apart, InLine DEF Ahead, Roles
<1>4. ToSet(Line) \subseteq Saves
  BY InLine
<1>. QED BY <1>1, <1>2, <1>3, <1>4 DEF Roles

(* The line and its names, when the same requests are where they were.         *)
LEMMA LineKept ==
    ASSUME IInv, \A q \in Roles : Flow(workers'[q]) = Flow(workers[q]),
           UNCHANGED <<collected, name, reserved, verdict>>
    PROVE  Ahead' = Ahead /\ Pending' = Pending /\ Line' = Line /\ Named' /\ Asked'
<1>1. Ahead' = Ahead /\ Pending' = Pending /\ Line' = Line
  BY DEF Ahead, Pending, Line, Roles
<1>2. Asked'
  BY DEF IInv, Asked
<1>. QED BY <1>1, <1>2 DEF IInv, Named

LEMMA FiledKept ==
    ASSUME IInv, ToSet(Line') \subseteq ToSet(Line), \A s \in ToSet(Line') : name'[s] = name[s],
           UNCHANGED <<clips, moved>>
    PROVE  Filed'
BY DEF IInv, Filed

(* Part files stay accounted for while those who write them do.                *)
LEMMA PartsKept ==
    ASSUME IInv, parts' \subseteq parts, stale \cap parts' \subseteq stale',
           \A q \in Roles : workers[q].phase = "staged" =>
                \E p \in Roles : /\ workers'[p].phase = "staged"
                                /\ name'[workers'[p].hand] = name[workers[q].hand]
    PROVE  PartsAccounted'
BY DEF IInv, PartsAccounted

-----------------------------------------------------------------------------
(* The workers. A step that keeps the line, for what all of them share.        *)
LEMMA WorkerStep ==
    ASSUME IInv, NEW r \in Roles, NEW u \in WorkerType, workers' = [workers EXCEPT ![r] = u],
           UNCHANGED Controller, workers[r].thread = "running", u.heard = workers[r].heard,
           Len(u.queue) <= QueueBound, Len(u.results) <= QueueBound, ~ u.heard => u.results = <<>>,
           u.thread # "none", u.thread # "running" => u.hand = None /\ u.queue = <<>>,
           u.hand = None <=> u.phase = "idle", Flow(u) = Flow(workers[r])
    PROVE  /\ workers' \in [Roles -> WorkerType]
           /\ \A q \in Roles : Len(workers'[q].queue) <= QueueBound /\ Len(workers'[q].results) <= QueueBound
           /\ workers'[r] = u /\ \A q \in Roles : q # r => workers'[q] = workers[q]
           /\ Quiet' /\ Line' = Line /\ Pending' = Pending /\ Named' /\ Asked'
<1>1. /\ workers' \in [Roles -> WorkerType]
      /\ \A q \in Roles : Len(workers'[q].queue) <= QueueBound /\ Len(workers'[q].results) <= QueueBound
      /\ workers'[r] = u /\ \A q \in Roles : q # r => workers'[q] = workers[q]
  BY WorkerChanges DEF IInv
<1>2. Line' = Line /\ Pending' = Pending /\ Named' /\ Asked'
  <2>1. \A q \in Roles : Flow(workers'[q]) = Flow(workers[q])
    BY <1>1
  <2>. QED BY <2>1, LineKept DEF Controller
<1>3. pc # "replace" => r # "dropped"
  BY NoWorkerFacts DEF IInv, Quiet
<1>4. \A q \in Roles :
        /\ workers'[q].thread # "running" => workers'[q].hand = None /\ workers'[q].queue = <<>>
        /\ workers'[q].hand = None <=> workers'[q].phase = "idle"
  BY <1>1 DEF IInv, Quiet
<1>5. /\ workers'["kept"].thread # "none" => workers'["kept"].heard
      /\ workers'["dropped"].results = <<>> /\ ~ workers'["dropped"].heard
  BY <1>1 DEF IInv, Quiet, Roles
<1>6. Quiet'
  BY <1>1, <1>3, <1>4, <1>5 DEF IInv, Quiet, Controller, Roles
<1>. QED BY <1>1, <1>2, <1>6

LEMMA Takes == ASSUME IInv, NEW r \in Roles, Take(r) PROVE IInv' /\ Pending' = Pending
<1>. DEFINE w == workers[r]
            u == [w EXCEPT !.hand = Head(w.queue), !.queue = Tail(w.queue), !.phase = "taken"]
<1>1. /\ w \in WorkerType /\ w.queue \in Seq(Saves) /\ Len(w.queue) <= QueueBound
      /\ Len(w.results) <= QueueBound /\ w.thread = "running" /\ w.hand = None /\ w.queue # <<>>
      /\ ~ w.heard => w.results = <<>>
  BY Flowing DEF IInv, TypeOK, Take, Quiet, Roles
<1>2. /\ Head(w.queue) \in Saves /\ Tail(w.queue) \in Seq(Saves) /\ Len(Tail(w.queue)) = Len(w.queue) - 1
      /\ Len(w.queue) \in Nat /\ ToSet(w.queue) = {Head(w.queue)} \cup ToSet(Tail(w.queue))
  <2>. HIDE DEF w
  <2>. QED BY <1>1, HeadTailSet
<1>3. /\ u \in WorkerType /\ u.thread = "running" /\ u.heard = w.heard /\ u.results = w.results
      /\ u.queue = Tail(w.queue) /\ u.hand = Head(w.queue) /\ u.phase = "taken"
  BY <1>1, <1>2 DEF WorkerType
<1>4. workers' = [workers EXCEPT ![r] = u] /\ UNCHANGED <<Controller, folder>>
  BY DEF Take
<1>5. u.hand # None /\ Flow(u) = Flow(w)
  <2>1. Flow(u) = Flow(w)
    <3>. HIDE DEF u, w
    <3>. QED BY <1>1, <1>3, FlowTaken
  <2>. QED BY <1>2, <1>3, <2>1 DEF Saves, None
<1>6. Len(u.queue) <= QueueBound
  BY <1>1, <1>2, <1>3, Bounds
<1>. HIDE DEF u
<1>7. /\ workers' \in [Roles -> WorkerType]
      /\ \A q \in Roles : Len(workers'[q].queue) <= QueueBound /\ Len(workers'[q].results) <= QueueBound
      /\ workers'[r] = u /\ \A q \in Roles : q # r => workers'[q] = workers[q]
      /\ Quiet' /\ Line' = Line /\ Pending' = Pending /\ Named' /\ Asked'
  BY <1>1, <1>3, <1>4, <1>5, <1>6, WorkerStep
<1>8. TypeOK'
  BY <1>4, <1>7 DEF IInv, TypeOK, Controller, folder
<1>9. Filed'
  BY <1>4, <1>7, FiledKept DEF Controller, folder
<1>10. Told'
  <2>1. \A s \in written' : verdict'[s] # "unasked"
    BY <1>4 DEF IInv, Told, Controller, folder
  <2>2. u.hand \notin written /\ ToSet(u.queue) \cap written = {}
    BY <1>2, <1>3 DEF IInv, Told
  <2>3. \A q \in Roles :
        /\ workers'[q].phase = "saved" => workers'[q].hand \in written'
        /\ workers'[q].phase \in {"taken", "staged", "failed"} => workers'[q].hand \notin written'
        /\ ToSet(workers'[q].queue) \cap written' = {}
    BY <1>3, <1>4, <1>7, <2>2 DEF IInv, Told, folder
  <2>4. workers'["kept"].results = workers["kept"].results
    BY <1>3, <1>7 DEF Roles
  <2>. QED BY <1>4, <2>1, <2>3, <2>4 DEF IInv, Told, Controller, folder
<1>11. VerdictsTruthful' /\ PartsAccounted' /\ Fresh'
  <2>1. VerdictsTruthful'
    BY <1>4 DEF IInv, VerdictsTruthful, Controller, folder
  <2>2. w.phase = "idle"
    BY <1>1 DEF IInv, Quiet
  <2>3. ASSUME NEW q \in Roles, workers[q].phase = "staged"
        PROVE  workers'[q].phase = "staged" /\ name'[workers'[q].hand] = name[workers[q].hand]
    BY <1>4, <1>7, <2>2, <2>3 DEF Controller
  <2>4. Fresh'
    BY <1>3, <1>4, <1>7 DEF IInv, Fresh, Controller, folder
  <2>. QED BY <1>4, <2>1, <2>3, <2>4, PartsKept DEF folder
<1>. QED BY <1>7, <1>8, <1>9, <1>10, <1>11 DEF IInv
LEMMA Exits == ASSUME IInv, NEW r \in Roles, Exit(r) PROVE IInv' /\ Pending' = Pending
<1>. DEFINE w == workers[r]
            u == [w EXCEPT !.thread = "exited"]
<1>1. /\ w \in WorkerType /\ Len(w.queue) <= QueueBound /\ Len(w.results) <= QueueBound
      /\ w.thread = "running" /\ w.hand = None /\ w.queue = <<>> /\ w.phase = "idle"
      /\ ~ w.heard => w.results = <<>>
  BY DEF IInv, TypeOK, Exit, Quiet, Roles
<1>2. /\ u \in WorkerType /\ u.thread = "exited" /\ u.heard = w.heard /\ u.results = w.results
      /\ u.queue = w.queue /\ u.hand = w.hand /\ u.phase = w.phase
  BY <1>1 DEF WorkerType
<1>3. workers' = [workers EXCEPT ![r] = u] /\ UNCHANGED <<Controller, folder>>
  BY DEF Exit
<1>4. Flow(u) = Flow(w)
  <2>. HIDE DEF u, w
  <2>. QED BY <1>2, FlowSame
<1>. HIDE DEF u
<1>5. /\ workers' \in [Roles -> WorkerType]
      /\ \A q \in Roles : Len(workers'[q].queue) <= QueueBound /\ Len(workers'[q].results) <= QueueBound
      /\ workers'[r] = u /\ \A q \in Roles : q # r => workers'[q] = workers[q]
      /\ Quiet' /\ Line' = Line /\ Pending' = Pending /\ Named' /\ Asked'
  BY <1>1, <1>2, <1>3, <1>4, WorkerStep
<1>6. TypeOK'
  BY <1>3, <1>5 DEF IInv, TypeOK, Controller, folder
<1>7. Filed'
  BY <1>3, <1>5, FiledKept DEF Controller, folder
<1>8. \A q \in Roles : /\ workers'[q].phase = workers[q].phase /\ workers'[q].hand = workers[q].hand
                       /\ workers'[q].queue = workers[q].queue /\ workers'[q].results = workers[q].results
  BY <1>2, <1>5
<1>9. Told'
  BY <1>3, <1>8 DEF IInv, Told, Controller, folder, Roles
<1>10. VerdictsTruthful' /\ PartsAccounted' /\ Fresh'
  BY <1>3, <1>8, PartsKept DEF IInv, VerdictsTruthful, Fresh, Controller, folder
<1>. QED BY <1>5, <1>6, <1>7, <1>9, <1>10 DEF IInv

(* The next phase of the request in hand.                                      *)
LEMMA Phases ==
    ASSUME IInv, NEW r \in Roles, NEW phase \in {"staged", "saved", "failed"}, Outcome(r, phase),
           UNCHANGED Controller, workers[r].phase # "idle"
    PROVE  /\ workers' \in [Roles -> WorkerType]
           /\ \A q \in Roles : Len(workers'[q].queue) <= QueueBound /\ Len(workers'[q].results) <= QueueBound
           /\ \A q \in Roles : /\ workers'[q].hand = workers[q].hand /\ workers'[q].queue = workers[q].queue
                               /\ workers'[q].results = workers[q].results
                               /\ q # r => workers'[q].phase = workers[q].phase
           /\ workers'[r].phase = phase /\ workers[r].hand \in Saves /\ workers[r].hand # None
           /\ workers[r].hand \in ToSet(Line)
           /\ Quiet' /\ Line' = Line /\ Pending' = Pending /\ Named' /\ Asked'
<1>. DEFINE w == workers[r]
            u == [w EXCEPT !.phase = phase]
<1>1. /\ w \in WorkerType /\ Len(w.queue) <= QueueBound /\ Len(w.results) <= QueueBound
      /\ ~ w.heard => w.results = <<>>
      /\ w.hand # None /\ w.thread = "running"
  BY DEF IInv, TypeOK, Quiet, Roles
<1>2. /\ u \in WorkerType /\ u.thread = "running" /\ u.heard = w.heard /\ u.results = w.results
      /\ u.queue = w.queue /\ u.hand = w.hand /\ u.phase = phase
  BY <1>1 DEF WorkerType
<1>3. workers' = [workers EXCEPT ![r] = u]
  BY DEF Outcome
<1>4. Flow(u) = Flow(w)
  <2>. HIDE DEF u, w
  <2>. QED BY <1>2, FlowSame
<1>. HIDE DEF u
<1>5. /\ workers' \in [Roles -> WorkerType]
      /\ \A q \in Roles : Len(workers'[q].queue) <= QueueBound /\ Len(workers'[q].results) <= QueueBound
      /\ workers'[r] = u /\ \A q \in Roles : q # r => workers'[q] = workers[q]
      /\ Quiet' /\ Line' = Line /\ Pending' = Pending /\ Named' /\ Asked'
  BY <1>1, <1>2, <1>3, <1>4, WorkerStep
<1>6. w.hand \in Saves /\ w.hand \in ToSet(Line)
  BY <1>1, HandApart DEF IInv
<1>. QED BY <1>1, <1>2, <1>5, <1>6

LEMMA FailsUnopened == ASSUME IInv, NEW r \in Roles, FailUnopened(r) PROVE IInv' /\ Pending' = Pending
<1>1. UNCHANGED <<Controller, folder>> /\ workers[r].phase = "taken" /\ Outcome(r, "failed")
  BY DEF FailUnopened
<1>2. /\ workers' \in [Roles -> WorkerType]
      /\ \A q \in Roles : Len(workers'[q].queue) <= QueueBound /\ Len(workers'[q].results) <= QueueBound
      /\ \A q \in Roles : /\ workers'[q].hand = workers[q].hand /\ workers'[q].queue = workers[q].queue
                          /\ workers'[q].results = workers[q].results
                          /\ q # r => workers'[q].phase = workers[q].phase
      /\ workers'[r].phase = "failed" /\ Quiet' /\ Line' = Line /\ Pending' = Pending /\ Named' /\ Asked'
  BY <1>1, Phases
<1>3. TypeOK'
  BY <1>1, <1>2 DEF IInv, TypeOK, Controller, folder
<1>4. Filed'
  BY <1>1, <1>2, FiledKept DEF Controller, folder
<1>5. Told'
  BY <1>1, <1>2 DEF IInv, Told, Controller, folder, Roles
<1>6. VerdictsTruthful' /\ PartsAccounted' /\ Fresh'
  BY <1>1, <1>2, PartsKept DEF IInv, VerdictsTruthful, Fresh, Controller, folder
<1>. QED BY <1>2, <1>3, <1>4, <1>5, <1>6 DEF IInv

LEMMA Stages == ASSUME IInv, NEW r \in Roles, Stage(r) PROVE IInv' /\ Pending' = Pending
<1>. DEFINE n == name[workers[r].hand]
<1>1. /\ UNCHANGED <<Controller, clips, written, moved>> /\ workers[r].phase = "taken" /\ Outcome(r, "staged")
      /\ parts' = parts \cup {n} /\ stale' = stale \ {n}
  BY DEF Stage
<1>2. /\ workers' \in [Roles -> WorkerType]
      /\ \A q \in Roles : Len(workers'[q].queue) <= QueueBound /\ Len(workers'[q].results) <= QueueBound
      /\ \A q \in Roles : /\ workers'[q].hand = workers[q].hand /\ workers'[q].queue = workers[q].queue
                          /\ workers'[q].results = workers[q].results
                          /\ q # r => workers'[q].phase = workers[q].phase
      /\ workers'[r].phase = "staged" /\ Quiet' /\ Line' = Line /\ Pending' = Pending /\ Named' /\ Asked'
      /\ workers[r].hand \in ToSet(Line)
  BY <1>1, Phases
<1>3. n \in Names
  BY <1>2 DEF IInv, TypeOK, Named
<1>4. TypeOK'
  BY <1>1, <1>2, <1>3 DEF IInv, TypeOK, Controller
<1>5. Filed'
  BY <1>1, <1>2, FiledKept DEF Controller
<1>6. Told'
  BY <1>1, <1>2 DEF IInv, Told, Controller, Roles
<1>7. VerdictsTruthful' /\ Fresh'
  BY <1>1, <1>2 DEF IInv, VerdictsTruthful, Fresh, Controller
<1>8. PartsAccounted'
  <2>1. name'[workers'[r].hand] = n /\ workers'[r].phase = "staged"
    BY <1>1, <1>2 DEF Controller
  <2>2. ASSUME NEW q \in Roles, workers[q].phase = "staged"
        PROVE  workers'[q].phase = "staged" /\ name'[workers'[q].hand] = name[workers[q].hand]
    BY <1>1, <1>2, <2>2 DEF Controller
  <2>3. ASSUME NEW x \in parts', x # n
        PROVE  x \in stale' \/ \E q \in Roles : workers'[q].phase = "staged" /\ x = name'[workers'[q].hand]
    BY <1>1, <2>2, <2>3 DEF IInv, PartsAccounted
  <2>. QED BY <2>1, <2>3 DEF PartsAccounted
<1>. QED BY <1>2, <1>4, <1>5, <1>6, <1>7, <1>8 DEF IInv

LEMMA FailsStaged == ASSUME IInv, NEW r \in Roles, FailStaged(r) PROVE IInv' /\ Pending' = Pending
<1>. DEFINE n == name[workers[r].hand]
<1>1. /\ UNCHANGED <<Controller, clips, stale, written, moved>> /\ workers[r].phase = "staged"
      /\ Outcome(r, "failed") /\ parts' = parts \ {n}
  BY DEF FailStaged
<1>2. /\ workers' \in [Roles -> WorkerType]
      /\ \A q \in Roles : Len(workers'[q].queue) <= QueueBound /\ Len(workers'[q].results) <= QueueBound
      /\ \A q \in Roles : /\ workers'[q].hand = workers[q].hand /\ workers'[q].queue = workers[q].queue
                          /\ workers'[q].results = workers[q].results
                          /\ q # r => workers'[q].phase = workers[q].phase
      /\ workers'[r].phase = "failed" /\ Quiet' /\ Line' = Line /\ Pending' = Pending /\ Named' /\ Asked'
  BY <1>1, Phases
<1>3. stale' \subseteq parts' /\ Fresh'
  BY <1>1, <1>2 DEF IInv, TypeOK, Fresh, Controller
<1>4. TypeOK'
  BY <1>1, <1>2, <1>3 DEF IInv, TypeOK, Controller
<1>5. Filed'
  BY <1>1, <1>2, FiledKept DEF Controller
<1>6. Told'
  BY <1>1, <1>2 DEF IInv, Told, Controller, Roles
<1>7. VerdictsTruthful'
  BY <1>1 DEF IInv, VerdictsTruthful, Controller
<1>8. PartsAccounted'
  <2>1. ASSUME NEW x \in parts', x \notin stale
        PROVE  \E q \in Roles : workers'[q].phase = "staged" /\ x = name'[workers'[q].hand]
    <3>1. PICK q \in Roles : workers[q].phase = "staged" /\ x = name[workers[q].hand]
      BY <1>1, <2>1 DEF IInv, PartsAccounted
    <3>2. q # r
      BY <1>1, <2>1, <3>1
    <3>. QED BY <1>1, <1>2, <3>1, <3>2 DEF Controller
  <2>. QED BY <1>1, <2>1 DEF PartsAccounted
<1>. QED BY <1>2, <1>3, <1>4, <1>5, <1>6, <1>7, <1>8 DEF IInv

LEMMA Publishes == ASSUME IInv, NEW r \in Roles, Publish(r) PROVE IInv' /\ Pending' = Pending
<1>. DEFINE s == workers[r].hand
            n == name[s]
<1>1. /\ UNCHANGED <<Controller, stale, moved>> /\ workers[r].phase = "staged"
      /\ Outcome(r, "saved") /\ parts' = parts \ {n} /\ n \in parts
      /\ clips' = [clips EXCEPT ![n] = s] /\ written' = written \cup {s}
  BY DEF Publish
<1>2. /\ workers' \in [Roles -> WorkerType]
      /\ \A q \in Roles : Len(workers'[q].queue) <= QueueBound /\ Len(workers'[q].results) <= QueueBound
      /\ \A q \in Roles : /\ workers'[q].hand = workers[q].hand /\ workers'[q].queue = workers[q].queue
                          /\ workers'[q].results = workers[q].results
                          /\ q # r => workers'[q].phase = workers[q].phase
      /\ workers'[r].phase = "saved" /\ Quiet' /\ Line' = Line /\ Pending' = Pending /\ Named' /\ Asked'
      /\ s \in Saves /\ s # None /\ s \in ToSet(Line)
  BY <1>1, Phases
<1>3. stale' \subseteq parts' /\ Fresh'
  BY <1>1, <1>2 DEF IInv, TypeOK, Fresh, Controller
<1>4. TypeOK'
  BY <1>1, <1>2, <1>3 DEF IInv, TypeOK, Controller
<1>5. verdict[s] \in {"accepted", "abandoned"} /\ n \in Names
  BY <1>2, InLine DEF IInv, TypeOK, Named
<1>6. Filed'
  <2>1. ASSUME NEW t \in ToSet(Line) PROVE clips'[name[t]] \in {None, t} \cup moved
    <3>1. t \in Saves /\ name[t] \in Names
      BY InLine DEF IInv, TypeOK, Named
    <3>2. CASE t = s
      BY <1>1, <1>5, <3>2 DEF IInv, TypeOK
    <3>3. CASE t # s
      <4>1. name[t] # n
        BY <1>2, <3>3 DEF IInv, Named
      <4>. QED BY <1>1, <3>1, <4>1 DEF IInv, TypeOK, Filed
    <3>. QED BY <3>2, <3>3
  <2>. QED BY <1>1, <1>2, <2>1 DEF Filed, Controller
<1>7. Told'
  <2>1. \A t \in written' : verdict'[t] # "unasked"
    BY <1>1, <1>5 DEF IInv, Told, Controller
  <2>2. /\ \A q \in Roles : /\ s \notin ToSet(workers[q].queue)
                            /\ q # r => workers[q].hand # s
        /\ s \notin ToSet(SavesIn(collected)) \cup ToSet(SavesIn(workers["kept"].results))
    BY <1>2, HandApart DEF IInv
  <2>3. ASSUME NEW q \in Roles
        PROVE  /\ workers'[q].phase = "saved" => workers'[q].hand \in written'
               /\ workers'[q].phase \in {"taken", "staged", "failed"} => workers'[q].hand \notin written'
               /\ ToSet(workers'[q].queue) \cap written' = {}
    BY <1>1, <1>2, <2>2 DEF IInv, Told
  <2>4. ASSUME NEW a \in ToSet(collected) \cup ToSet(workers["kept"].results) PROVE a.save # s
    <3>1. collected \in Seq(Result) /\ workers["kept"].results \in Seq(Result)
      BY InLine, Flowing DEF IInv, Roles
    <3>2. a.save \in ToSet(SavesIn(collected)) \cup ToSet(SavesIn(workers["kept"].results))
      BY <2>4, <3>1, SavesOf, SetOf
    <3>. QED BY <2>2, <3>2
  <2>5. \A a \in ToSet(collected) \cup ToSet(workers["kept"].results) :
            a.told = "saved" <=> a.save \in written'
    BY <1>1, <2>4 DEF IInv, Told
  <2>6. collected' = collected /\ workers'["kept"].results = workers["kept"].results
    BY <1>1, <1>2 DEF Controller, Roles
  <2>. QED BY <2>1, <2>3, <2>5, <2>6 DEF Told
<1>8. VerdictsTruthful'
  BY <1>1, <1>5 DEF IInv, VerdictsTruthful, Controller
<1>9. PartsAccounted'
  <2>1. ASSUME NEW x \in parts', x \notin stale
        PROVE  \E q \in Roles : workers'[q].phase = "staged" /\ x = name'[workers'[q].hand]
    <3>1. PICK q \in Roles : workers[q].phase = "staged" /\ x = name[workers[q].hand]
      BY <1>1, <2>1 DEF IInv, PartsAccounted
    <3>2. q # r
      BY <1>1, <2>1, <3>1
    <3>. QED BY <1>1, <1>2, <3>1, <3>2 DEF Controller
  <2>. QED BY <1>1, <2>1 DEF PartsAccounted
<1>. QED BY <1>2, <1>3, <1>4, <1>6, <1>7, <1>8, <1>9 DEF IInv

(* What a worker tells is what its request came to.                            *)
LEMMA DeliversHeard ==
    ASSUME IInv, NEW r \in Roles, Deliver(r), workers[r].heard
    PROVE  IInv' /\ Pending' = Pending
<1>. DEFINE w == workers[r]
            e == [save |-> w.hand, told |-> w.phase]
            u == [w EXCEPT !.hand = None, !.phase = "idle", !.results = Append(w.results, e)]
<1>1. /\ w \in WorkerType /\ Len(w.queue) <= QueueBound /\ Len(w.results) < QueueBound
      /\ w.phase \in {"saved", "failed"} /\ w.hand # None /\ w.thread = "running" /\ w.heard /\ r = "kept"
      /\ w.results \in Seq(Result) /\ w.hand \in Saves
  BY Flowing DEF IInv, TypeOK, Deliver, Quiet, Roles
<1>2. /\ e \in Result /\ e.save = w.hand /\ e.told = w.phase
      /\ Append(w.results, e) \in Seq(Result) /\ Len(Append(w.results, e)) = Len(w.results) + 1
      /\ Len(w.results) \in Nat /\ ToSet(Append(w.results, e)) = ToSet(w.results) \cup {e}
  <2>1. e \in Result /\ e.save = w.hand /\ e.told = w.phase
    BY <1>1 DEF Result
  <2>. HIDE DEF e
  <2>. QED BY <1>1, <2>1, AppendProperties, AppendDistinct
<1>3. /\ u \in WorkerType /\ u.thread = "running" /\ u.heard = w.heard /\ u.results = Append(w.results, e)
      /\ u.queue = w.queue /\ u.hand = None /\ u.phase = "idle"
  <2>. HIDE DEF e
  <2>. QED BY <1>1, <1>2 DEF WorkerType, Result
<1>4. workers' = [workers EXCEPT ![r] = u] /\ UNCHANGED <<Controller, folder>>
  <2>1. /\ (IF w.heard THEN Append(w.results, e) ELSE w.results) = Append(w.results, e)
        /\ (IF w.heard THEN w.queue ELSE <<>>) = w.queue
        /\ (IF w.heard THEN w.thread ELSE "exited") = w.thread
    BY <1>1
  <2>2. /\ UNCHANGED <<Controller, folder>>
        /\ workers' = [workers EXCEPT ![r] =
             [w EXCEPT !.hand = None, !.phase = "idle", !.results = Append(w.results, e),
                       !.queue = w.queue, !.thread = w.thread]]
    BY <2>1 DEF Deliver
  <2>3. [w EXCEPT !.hand = None, !.phase = "idle", !.results = Append(w.results, e),
                  !.queue = w.queue, !.thread = w.thread] = u
    <3>. HIDE DEF e
    <3>. QED BY <1>1 DEF WorkerType
  <2>. HIDE DEF u
  <2>. QED BY <2>2, <2>3
<1>5. Flow(u) = Flow(w)
  <2>1. u.results = Append(w.results, [save |-> w.hand, told |-> w.phase])
    BY <1>3
  <2>. HIDE DEF u, w
  <2>. QED BY <1>1, <1>3, <2>1, FlowDelivered
<1>6. Len(u.results) <= QueueBound
  BY <1>1, <1>2, <1>3, Bounds
<1>. HIDE DEF u, e
<1>7. /\ workers' \in [Roles -> WorkerType]
      /\ \A q \in Roles : Len(workers'[q].queue) <= QueueBound /\ Len(workers'[q].results) <= QueueBound
      /\ workers'[r] = u /\ \A q \in Roles : q # r => workers'[q] = workers[q]
      /\ Quiet' /\ Line' = Line /\ Pending' = Pending /\ Named' /\ Asked'
  BY <1>1, <1>3, <1>4, <1>5, <1>6, WorkerStep
<1>8. TypeOK'
  BY <1>4, <1>7 DEF IInv, TypeOK, Controller, folder
<1>9. Filed'
  BY <1>4, <1>7, FiledKept DEF Controller, folder
<1>10. Told'
  <2>1. \A q \in Roles :
        /\ workers'[q].phase = "saved" => workers'[q].hand \in written'
        /\ workers'[q].phase \in {"taken", "staged", "failed"} => workers'[q].hand \notin written'
        /\ ToSet(workers'[q].queue) \cap written' = {}
    BY <1>3, <1>4, <1>7 DEF IInv, Told, folder
  <2>2. e.told = "saved" <=> e.save \in written
    BY <1>1, <1>2 DEF IInv, Told
  <2>3. ToSet(workers'["kept"].results) = ToSet(workers["kept"].results) \cup {e}
    BY <1>1, <1>2, <1>3, <1>7
  <2>4. \A a \in ToSet(collected') \cup ToSet(workers'["kept"].results) :
            a.told = "saved" <=> a.save \in written'
    BY <1>4, <2>2, <2>3 DEF IInv, Told, Controller, folder
  <2>. QED BY <1>4, <2>1, <2>4 DEF IInv, Told, Controller, folder
<1>11. VerdictsTruthful' /\ PartsAccounted' /\ Fresh'
  <2>1. VerdictsTruthful'
    BY <1>4 DEF IInv, VerdictsTruthful, Controller, folder
  <2>2. ASSUME NEW q \in Roles, workers[q].phase = "staged"
        PROVE  workers'[q].phase = "staged" /\ name'[workers'[q].hand] = name[workers[q].hand]
    BY <1>1, <1>4, <1>7, <2>2 DEF Controller
  <2>3. Fresh'
    BY <1>3, <1>4, <1>7 DEF IInv, Fresh, Controller, folder
  <2>. QED BY <1>4, <2>1, <2>2, <2>3, PartsKept DEF folder
<1>. QED BY <1>7, <1>8, <1>9, <1>10, <1>11 DEF IInv

(* A dropped worker finds nobody listening and ends; its line goes with it.    *)
LEMMA DeliversUnheard ==
    ASSUME IInv, NEW r \in Roles, Deliver(r), ~ workers[r].heard
    PROVE  IInv' /\ Pending' = Pending
<1>. DEFINE w == workers[r]
            u == [w EXCEPT !.hand = None, !.phase = "idle", !.queue = <<>>, !.thread = "exited"]
<1>1. /\ w \in WorkerType /\ Len(w.results) <= QueueBound
      /\ w.phase \in {"saved", "failed"} /\ w.hand # None /\ w.thread = "running" /\ r = "dropped"
      /\ w.results = <<>> /\ pc = "replace" /\ <<>> \in Seq(Saves) /\ Len(<<>>) = 0
  BY NoWorkerFacts, EmptySeq DEF IInv, TypeOK, Deliver, Quiet, Roles
<1>2. /\ u \in WorkerType /\ u.thread = "exited" /\ u.heard = w.heard /\ u.results = <<>>
      /\ u.queue = <<>> /\ u.hand = None /\ u.phase = "idle"
  BY <1>1 DEF WorkerType
<1>3. workers' = [workers EXCEPT ![r] = u] /\ UNCHANGED <<Controller, folder>>
  BY <1>1 DEF Deliver
<1>. HIDE DEF u
<1>4. /\ workers' \in [Roles -> WorkerType]
      /\ \A q \in Roles : Len(workers'[q].queue) <= QueueBound /\ Len(workers'[q].results) <= QueueBound
      /\ workers'[r] = u /\ \A q \in Roles : q # r => workers'[q] = workers[q]
  BY <1>1, <1>2, <1>3, WorkerChanges, Bounds DEF IInv
<1>5. Quiet'
  BY <1>1, <1>2, <1>3, <1>4 DEF IInv, Quiet, Controller, Roles
<1>6. Ahead' = <<>> /\ Pending' = Pending /\ Line' = Pending
  <2>1. Flow(u) = <<>>
    BY <1>2, NoWorkerFacts, FlowSame
  <2>2. Pending' = Pending
    BY <1>1, <1>3, <1>4 DEF Pending, Controller, Roles
  <2>. QED BY <1>1, <1>4, <2>1, <2>2, InLine, Lines DEF Ahead, Line, IInv
<1>7. Named'
  <2>1. Distinct(Pending) /\ ToSet(Pending) \subseteq ToSet(Line)
    BY Apart, InLine DEF IInv
  <2>. QED BY <1>3, <1>6, <2>1, EmptyFacts DEF IInv, Named, Controller
<1>8. Filed'
  <2>1. ToSet(Line') \subseteq ToSet(Line)
    BY <1>6, InLine DEF IInv
  <2>. QED BY <1>3, <2>1, FiledKept DEF Controller, folder
<1>9. TypeOK'
  BY <1>3, <1>4 DEF IInv, TypeOK, Controller, folder
<1>10. Told'
  <2>1. \A q \in Roles :
        /\ workers'[q].phase = "saved" => workers'[q].hand \in written'
        /\ workers'[q].phase \in {"taken", "staged", "failed"} => workers'[q].hand \notin written'
        /\ ToSet(workers'[q].queue) \cap written' = {}
    BY <1>2, <1>3, <1>4, EmptyFacts DEF IInv, Told, folder
  <2>2. workers'["kept"].results = workers["kept"].results
    BY <1>1, <1>4 DEF Roles
  <2>. QED BY <1>3, <2>1, <2>2 DEF IInv, Told, Controller, folder
<1>11. VerdictsTruthful' /\ PartsAccounted' /\ Fresh' /\ Asked'
  <2>1. VerdictsTruthful' /\ Asked'
    BY <1>3 DEF IInv, VerdictsTruthful, Asked, Controller, folder
  <2>2. ASSUME NEW q \in Roles, workers[q].phase = "staged"
        PROVE  workers'[q].phase = "staged" /\ name'[workers'[q].hand] = name[workers[q].hand]
    BY <1>1, <1>3, <1>4, <2>2 DEF Controller
  <2>3. Fresh'
    BY <1>2, <1>3, <1>4 DEF IInv, Fresh, Controller, folder
  <2>. QED BY <1>3, <2>1, <2>2, <2>3, PartsKept DEF folder
<1>. QED BY <1>5, <1>6, <1>7, <1>8, <1>9, <1>10, <1>11 DEF IInv

LEMMA WorkerInv ==
    ASSUME IInv, NEW r \in Roles, Worker(r)
    PROVE  IInv' /\ Pending' = Pending /\ verdict' = verdict
<1>1. IInv' /\ Pending' = Pending
  BY Takes, Exits, FailsUnopened, Stages, Publishes, FailsStaged, DeliversHeard, DeliversUnheard DEF Worker
<1>2. UNCHANGED Controller
  BY DEF Worker, Take, Exit, FailUnopened, Stage, Publish, FailStaged, Deliver
<1>. QED BY <1>1, <1>2 DEF Controller

-----------------------------------------------------------------------------
(* The controller. Reporting results frees their names and tells the truth.    *)
LEMMA Reports ==
    ASSUME IInv, NEW rs \in Seq(Result), MapResults(rs), Ahead' = Ahead, Ahead = <<>>,
           Pending = SavesIn(rs) \o Pending', Pending' \in Seq(Saves),
           \A a \in ToSet(rs) : a.told = "saved" <=> a.save \in written,
           UNCHANGED folder
    PROVE  /\ Named' /\ Filed' /\ VerdictsTruthful' /\ Asked'
           /\ name' \in [Saves -> Names \cup {None}] /\ reserved' \subseteq Names
           /\ verdict' \in [Saves -> {"unasked", "refused", "accepted", "abandoned", "saved", "failed"}]
           /\ \A s \in Saves : verdict'[s] = "unasked" <=> verdict[s] = "unasked"
           /\ \A s \in ToSet(Line') : s \in ToSet(Line) /\ name'[s] = name[s]
           /\ \A s \in Saves : IF s \in ToSet(SavesIn(rs)) THEN verdict'[s] \in {"saved", "failed"}
                                                           ELSE verdict'[s] = verdict[s]
<1>1. /\ SavesIn(rs) \in Seq(Saves) /\ ToSet(SavesIn(rs)) \subseteq Saves
      /\ \A a \in ToSet(rs) : a \in Result /\ a.save \in ToSet(SavesIn(rs))
      /\ \A s \in ToSet(SavesIn(rs)) : \E a \in ToSet(rs) : a.save = s
      /\ \A i \in DOMAIN rs : rs[i].save \in ToSet(SavesIn(rs))
  <2>1. /\ SavesIn(rs) \in Seq(Saves) /\ ToSet(SavesIn(rs)) = {rs[i].save : i \in 1..Len(rs)}
        /\ ToSet(rs) = {rs[i] : i \in 1..Len(rs)} /\ ToSet(rs) \subseteq Result /\ DOMAIN rs = 1..Len(rs)
    BY SavesOf, SetOf, LenProperties
  <2>2. ToSet(SavesIn(rs)) \subseteq Saves
    BY <2>1, SetOf
  <2>3. \A a \in ToSet(rs) : a \in Result /\ a.save \in ToSet(SavesIn(rs))
    BY <2>1
  <2>4. \A s \in ToSet(SavesIn(rs)) : \E a \in ToSet(rs) : a.save = s
    BY <2>1
  <2>. QED BY <2>1, <2>2, <2>3, <2>4
<1>2. Line = Pending /\ Line' = Pending' /\ Distinct(Pending) /\ TypeOK
  BY InLine, Lines, Apart DEF IInv, Line
<1>3. /\ Distinct(Pending') /\ ToSet(SavesIn(rs)) \cap ToSet(Pending') = {}
      /\ ToSet(Pending) = ToSet(SavesIn(rs)) \cup ToSet(Pending')
  <2>1. Distinct(SavesIn(rs) \o Pending')
    BY <1>2
  <2>. QED BY <1>1, <2>1, ConcatDistinct, ConcatSet
<1>4. ToSet(Pending') \subseteq Saves /\ ToSet(Pending) \subseteq Saves
  BY <1>2, InLine, SetOf
<1>5. name' \in [Saves -> Names \cup {None}] /\ \A s \in ToSet(Pending') : name'[s] = name[s]
  BY <1>2, <1>3, <1>4 DEF TypeOK, MapResults
<1>6. reserved' \subseteq Names /\ \A s \in ToSet(Pending') : name'[s] \in reserved'
  <2>1. \A s \in ToSet(Pending'), t \in ToSet(SavesIn(rs)) : name[s] # name[t]
    BY <1>2, <1>3 DEF IInv, Named
  <2>2. \A s \in ToSet(Pending') : name[s] \in reserved
    BY <1>2, <1>3 DEF IInv, Named
  <2>3. reserved' = reserved \ {name[rs[i].save] : i \in DOMAIN rs}
    BY DEF MapResults
  <2>4. \A s \in ToSet(Pending') : name[s] \notin {name[rs[i].save] : i \in DOMAIN rs}
    BY <1>1, <2>1
  <2>. QED BY <1>2, <1>5, <2>2, <2>3, <2>4 DEF TypeOK
<1>7. ASSUME NEW s \in Saves
      PROVE  /\ verdict'[s] \in {"unasked", "refused", "accepted", "abandoned", "saved", "failed"}
             /\ verdict'[s] = "unasked" <=> verdict[s] = "unasked"
             /\ IF s \in ToSet(SavesIn(rs)) THEN verdict'[s] \in {"saved", "failed"}
                                            ELSE verdict'[s] = verdict[s]
             /\ verdict'[s] = "saved" => s \in written
             /\ verdict'[s] = "failed" => s \notin written
  <2>1. CASE s \in ToSet(SavesIn(rs))
    <3>. DEFINE a == CHOOSE a \in ToSet(rs) : a.save = s
    <3>1. \E b \in ToSet(rs) : b.save = s
      BY <1>1, <2>1
    <3>2. a \in ToSet(rs) /\ a.save = s
      BY <3>1
    <3>3. verdict'[s] = a.told
      BY <3>1 DEF MapResults
    <3>4. a.told \in {"saved", "failed"}
      BY <1>1, <3>2 DEF Result
    <3>. HIDE DEF a
    <3>5. verdict[s] # "unasked"
      BY <1>2, <1>3, <2>1 DEF IInv, Named
    <3>. QED BY <2>1, <3>2, <3>3, <3>4, <3>5
  <2>2. CASE s \notin ToSet(SavesIn(rs))
    <3>1. ~ \E b \in ToSet(rs) : b.save = s
      BY <1>1, <2>2
    <3>2. verdict'[s] = verdict[s]
      BY <3>1 DEF MapResults
    <3>. QED BY <1>2, <2>2, <3>2 DEF IInv, TypeOK, VerdictsTruthful
  <2>. QED BY <2>1, <2>2
<1>8. verdict' \in [Saves -> {"unasked", "refused", "accepted", "abandoned", "saved", "failed"}]
  <2>1. verdict' = [s \in Saves |-> verdict'[s]]
    BY DEF MapResults
  <2>. QED BY <1>7, <2>1
<1>9. Named'
  <2>1. \A s, t \in ToSet(Line') : name'[s] = name'[t] => s = t
    BY <1>2, <1>3, <1>5 DEF IInv, Named
  <2>2. \A s \in ToSet(Pending') : verdict'[s] = "accepted"
    BY <1>2, <1>3, <1>4, <1>7 DEF IInv, Named
  <2>. QED BY <1>2, <1>3, <1>6, <2>1, <2>2, EmptyFacts DEF Named
<1>10. Filed'
  BY <1>2, <1>3, <1>5, FiledKept DEF folder
<1>11. VerdictsTruthful' /\ Asked'
  BY <1>7 DEF VerdictsTruthful, IInv, Asked, folder
<1>. QED BY <1>2, <1>3, <1>5, <1>6, <1>7, <1>8, <1>9, <1>10, <1>11

(* A poll outside a shutdown reads every result of the worker.                 *)
LEMMA Polls ==
    ASSUME IInv, PollResults, pc \notin {"drain", "replace"}, pc' \notin {"drain", "replace"},
           pc' \in {"idle", "install", "replace", "drain"} \cup Commands
    PROVE  /\ IInv'
           /\ Pending = SavesIn(workers["kept"].results) \o Pending' /\ Pending' \in Seq(Saves)
           /\ \A s \in Saves : IF s \in ToSet(SavesIn(workers["kept"].results))
                               THEN verdict'[s] \in {"saved", "failed"} ELSE verdict'[s] = verdict[s]
<1>. DEFINE w == workers["kept"]
            u == [w EXCEPT !.results = <<>>]
<1>1. /\ w \in WorkerType /\ Len(w.queue) <= QueueBound /\ w.results \in Seq(Result)
      /\ <<>> \in Seq(Result) /\ Len(<<>>) = 0
      /\ collected = <<>> /\ workers["dropped"] = NoWorker
  BY Flowing, EmptySeq DEF IInv, TypeOK, Quiet, Roles
<1>2. /\ u \in WorkerType /\ u.thread = w.thread /\ u.heard = w.heard /\ u.results = <<>>
      /\ u.queue = w.queue /\ u.hand = w.hand /\ u.phase = w.phase
  BY <1>1 DEF WorkerType, Result
<1>3. /\ workers' = [workers EXCEPT !["kept"] = u] /\ UNCHANGED <<collected, folder, kills>>
      /\ MapResults(w.results) /\ PumpEngine
  BY DEF PollResults
<1>4. Flow(w) = SavesIn(w.results) \o Flow(u)
  <2>. HIDE DEF u, w
  <2>. QED BY <1>1, <1>2, FlowRead
<1>. HIDE DEF u
<1>5. /\ workers' \in [Roles -> WorkerType]
      /\ \A q \in Roles : Len(workers'[q].queue) <= QueueBound /\ Len(workers'[q].results) <= QueueBound
      /\ workers'["kept"] = u /\ workers'["dropped"] = workers["dropped"]
  <2>1. Len(u.queue) <= QueueBound /\ Len(u.results) <= QueueBound
    BY <1>1, <1>2, Bounds
  <2>2. "kept" \in Roles /\ "dropped" \in Roles
    BY DEF Roles
  <2>3. workers' = [workers EXCEPT !["kept"] = u] /\ u \in WorkerType
    BY <1>2, <1>3
  <2>. HIDE DEF w
  <2>. QED BY <2>1, <2>2, <2>3, WorkerChanges DEF IInv
<1>6. \A q \in Roles : /\ workers'[q].phase = workers[q].phase /\ workers'[q].hand = workers[q].hand
                       /\ workers'[q].queue = workers[q].queue
  BY <1>2, <1>5 DEF Roles
<1>7. Pending = SavesIn(w.results) \o Pending' /\ Pending' \in Seq(Saves) /\ Ahead = <<>> /\ Ahead' = Ahead
  <2>1. Flow(u) \in Seq(Saves) /\ Flow(w) \in Seq(Saves)
    BY <1>1, <1>2, Flowing
  <2>2. Pending = Flow(w) /\ Pending' = Flow(u)
    BY <1>1, <1>3, <1>5, <2>1, EmptyFacts, Lines DEF Pending
  <2>. QED BY <1>1, <1>4, <1>5, <2>1, <2>2, NoWorkerFacts DEF Ahead
<1>8. \A a \in ToSet(w.results) : a.told = "saved" <=> a.save \in written
  BY DEF IInv, Told
<1>9. /\ Named' /\ Filed' /\ VerdictsTruthful' /\ Asked'
      /\ name' \in [Saves -> Names \cup {None}] /\ reserved' \subseteq Names
      /\ verdict' \in [Saves -> {"unasked", "refused", "accepted", "abandoned", "saved", "failed"}]
      /\ \A s \in Saves : verdict'[s] = "unasked" <=> verdict[s] = "unasked"
      /\ \A s \in ToSet(Line') : s \in ToSet(Line) /\ name'[s] = name[s]
      /\ \A s \in Saves : IF s \in ToSet(SavesIn(w.results)) THEN verdict'[s] \in {"saved", "failed"}
                                                            ELSE verdict'[s] = verdict[s]
  BY <1>1, <1>3, <1>7, <1>8, Reports
<1>10. TypeOK'
  <2>1. engine' \in {"none", "live", "error"}
    BY <1>3 DEF PumpEngine, IInv, TypeOK
  <2>. QED BY <1>3, <1>5, <1>9, <2>1 DEF IInv, TypeOK, folder
<1>11. Quiet'
  BY <1>1, <1>2, <1>3, <1>5, <1>6 DEF IInv, Quiet, Roles
<1>12. Told'
  <2>1. ToSet(collected') \cup ToSet(workers'["kept"].results) = {}
    BY <1>1, <1>2, <1>3, <1>5, EmptyFacts
  <2>2. \A s \in written' : verdict'[s] # "unasked"
    BY <1>3, <1>9 DEF IInv, TypeOK, Told, folder
  <2>. QED BY <1>3, <1>6, <2>1, <2>2 DEF IInv, Told, folder
<1>13. ASSUME NEW q \in Roles, workers[q].phase = "staged"
       PROVE  workers'[q].phase = "staged" /\ name'[workers'[q].hand] = name[workers[q].hand]
  <2>1. workers[q].hand # None
    BY <1>13 DEF IInv, Quiet
  <2>2. workers[q].hand \in ToSet(Line)
        /\ workers[q].hand \notin ToSet(SavesIn(w.results)) /\ workers[q].hand \in Saves
    BY <2>1, HandApart DEF IInv
  <2>. QED BY <1>3, <1>6, <1>13, <2>2 DEF MapResults
<1>14. PartsAccounted' /\ Fresh'
  <2>1. Fresh'
    BY <1>3, <1>6, <1>13 DEF IInv, Fresh, folder
  <2>. QED BY <1>3, <1>13, <2>1, PartsKept DEF folder
<1>. QED BY <1>7, <1>9, <1>10, <1>11, <1>12, <1>14 DEF IInv

(* Steps that leave the requests and the workers alone.                        *)
LEMMA Settles ==
    ASSUME IInv, UNCHANGED <<reserved, workers, collected, name, verdict, clips, written, moved, kills>>,
           pc \notin {"drain", "replace"}, pc' \in {"tail", "install"}, engine' \in {"none", "live", "error"},
           parts' \subseteq parts, stale' = stale \cap parts'
    PROVE  IInv' /\ Pending' = Pending
<1>1. TypeOK'
  BY DEF IInv, TypeOK, Commands
<1>2. Line' = Line /\ Pending' = Pending /\ Named' /\ Asked'
  BY LineKept
<1>3. Filed'
  BY <1>2, FiledKept
<1>4. Quiet'
  BY DEF IInv, Quiet
<1>5. Told' /\ VerdictsTruthful' /\ Fresh'
  BY DEF IInv, Told, VerdictsTruthful, Fresh
<1>6. PartsAccounted'
  BY PartsKept
<1>. QED BY <1>1, <1>2, <1>3, <1>4, <1>5, <1>6 DEF IInv

LEMMA Settled ==
    ASSUME IInv, SaveRefused \/ StartRejected \/ StartCleans \/ StartFails \/ StopRejected
    PROVE  IInv' /\ Pending' = Pending
<1>1. stale = stale \cap parts /\ engine \in {"none", "live", "error"}
  BY DEF IInv, TypeOK
<1>2. CASE SaveRefused
  BY <1>1, <1>2, Settles DEF SaveRefused, Unchanged, folder
<1>3. CASE StartRejected
  BY <1>1, <1>3, Settles DEF StartRejected, folder
<1>4. CASE StartCleans
  BY <1>4, Settles DEF StartCleans
<1>5. CASE StartFails
  BY <1>1, <1>5, Settles DEF StartFails, Unchanged, folder
<1>6. CASE StopRejected
  BY <1>1, <1>6, Settles DEF StopRejected, Unchanged, folder
<1>. QED BY <1>2, <1>3, <1>4, <1>5, <1>6

(* The next request is one more than those asked so far.                       *)
LEMMA NextIsUnasked ==
    ASSUME IInv, \E s \in Saves : verdict[s] = "unasked"
    PROVE  /\ NextSave \in Saves /\ verdict[NextSave] = "unasked" /\ NextSave # None
           /\ \A v : v # "unasked" => (verdict' = [verdict EXCEPT ![NextSave] = v] => Asked')
<1>1. PICK k \in 0..MaxSaves : \A s \in Saves : verdict[s] = "unasked" <=> s > k
  BY DEF IInv, Asked
<1>2. k + 1 \in Saves /\ k + 1 \in 0..MaxSaves
  BY <1>1, Bounds DEF Saves
<1>3. verdict[k + 1] = "unasked" /\ \A t \in 1..(k + 1) - 1 : verdict[t] # "unasked"
  BY <1>1, <1>2, Bounds DEF Saves
<1>4. NextSave \in Saves /\ verdict[NextSave] = "unasked" /\ \A t \in 1..NextSave - 1 : verdict[t] # "unasked"
  BY <1>2, <1>3 DEF NextSave
<1>5. NextSave = k + 1
  <2>. HIDE DEF NextSave
  <2>1. NextSave > k /\ NextSave \in Nat
    BY <1>1, <1>4 DEF Saves
  <2>2. ~ (NextSave > k + 1)
    <3>1. SUFFICES ASSUME NextSave > k + 1 PROVE FALSE
      OBVIOUS
    <3>2. k + 1 \in 1..NextSave - 1
      BY <2>1, <3>1, <1>1
    <3>. QED BY <1>3, <1>4, <3>2
  <2>. QED BY <1>1, <2>1, <2>2
<1>6. ASSUME NEW v, v # "unasked", verdict' = [verdict EXCEPT ![NextSave] = v]
      PROVE  Asked'
  <2>1. \A s \in Saves : verdict'[s] = "unasked" <=> s > k + 1
    <3>1. verdict' = [verdict EXCEPT ![k + 1] = v]
      BY <1>5, <1>6
    <3>. QED BY <1>1, <1>2, <1>6, <3>1 DEF IInv, TypeOK, Saves
  <2>. QED BY <1>2, <2>1 DEF Asked
<1>. QED BY <1>4, <1>6 DEF Saves, None

LEMMA Unasked ==
    ASSUME IInv, NEW x \in Saves, verdict[x] = "unasked"
    PROVE  x \notin ToSet(Line) /\ x \notin written
BY InLine DEF IInv, Named, Told

LEMMA Refused ==
    ASSUME IInv, pc = "save", pc' = "tail", NEW x \in Saves, verdict[x] = "unasked",
           verdict' = [verdict EXCEPT ![x] = "refused"], Asked',
           UNCHANGED <<engine, reserved, workers, collected, name, folder, kills>>
    PROVE  IInv' /\ Pending' = Pending
<1>1. TypeOK'
  BY DEF IInv, TypeOK, Commands, folder
<1>2. Line' = Line /\ Ahead' = Ahead /\ Pending' = Pending /\ \A s \in ToSet(Line) : verdict'[s] = verdict[s]
  <2>1. Line' = Line /\ Ahead' = Ahead /\ Pending' = Pending
    BY DEF Line, Ahead, Pending
  <2>. QED BY <2>1, Unasked, InLine DEF IInv, TypeOK
<1>3. Named'
  BY <1>2, InLine DEF IInv, Named
<1>4. Filed'
  BY <1>2, FiledKept DEF folder
<1>5. Quiet'
  BY DEF IInv, Quiet
<1>6. Told' /\ VerdictsTruthful' /\ Fresh'
  BY DEF IInv, TypeOK, Told, VerdictsTruthful, Fresh, folder
<1>7. PartsAccounted'
  BY PartsKept DEF folder
<1>. QED BY <1>1, <1>2, <1>3, <1>4, <1>5, <1>6, <1>7 DEF IInv

LEMMA Accepted ==
    ASSUME IInv, pc = "save", pc' = "tail", NEW x \in Saves, verdict[x] = "unasked",
           verdict' = [verdict EXCEPT ![x] = "accepted"], Asked',
           NEW n \in FreeNames, reserved' = reserved \cup {n}, name' = [name EXCEPT ![x] = n],
           NEW u \in WorkerType, workers' = [workers EXCEPT !["kept"] = u],
           u.results = workers["kept"].results, u.hand = workers["kept"].hand,
           u.queue = Append(workers["kept"].queue, x), Len(u.queue) <= QueueBound,
           workers["kept"].thread = "running", u.thread = "running", u.phase = workers["kept"].phase,
           u.heard = workers["kept"].heard,
           UNCHANGED <<engine, collected, folder, kills>>
    PROVE  IInv' /\ Pending' = Append(Pending, x)
<1>. DEFINE w == workers["kept"]
<1>1. /\ w \in WorkerType /\ w.queue \in Seq(Saves) /\ Len(w.results) <= QueueBound
      /\ collected = <<>> /\ workers["dropped"] = NoWorker /\ "kept" \in Roles /\ "dropped" \in Roles
  BY Flowing DEF IInv, TypeOK, Quiet, Roles
<1>2. /\ workers' \in [Roles -> WorkerType]
      /\ \A q \in Roles : Len(workers'[q].queue) <= QueueBound /\ Len(workers'[q].results) <= QueueBound
      /\ workers'["kept"] = u /\ workers'["dropped"] = workers["dropped"]
  BY <1>1, WorkerChanges DEF IInv
<1>3. \A q \in Roles : /\ workers'[q].phase = workers[q].phase /\ workers'[q].hand = workers[q].hand
                       /\ workers'[q].results = workers[q].results
  BY <1>2 DEF Roles
<1>4. /\ n \in Names /\ clips[n] = None /\ n \notin reserved
      /\ x \notin ToSet(Line) /\ x \notin written
  BY Unasked DEF FreeNames
<1>5. TypeOK'
  BY <1>2, <1>4 DEF IInv, TypeOK, Commands, folder
<1>6. Pending' = Append(Pending, x) /\ Ahead' = Ahead /\ Line' = Append(Line, x)
  <2>1. Flow(w) \in Seq(Saves) /\ Flow(u) \in Seq(Saves) /\ Flow(u) = Append(Flow(w), x)
    BY <1>1, Flowing, FlowAsked
  <2>2. Pending = Flow(w) /\ Pending' = Flow(u)
    BY <1>1, <1>2, <2>1, EmptyFacts, Lines DEF Pending
  <2>3. Ahead = <<>> /\ Ahead' = <<>>
    BY <1>1, <1>2, NoWorkerFacts DEF Ahead
  <2>4. Line = Pending /\ Line' = Pending'
    BY <2>1, <2>2, <2>3, Lines DEF Line
  <2>. QED BY <2>1, <2>2, <2>3, <2>4
<1>7. /\ ToSet(Line') = ToSet(Line) \cup {x} /\ ToSet(Pending') = ToSet(Pending) \cup {x} /\ Distinct(Line')
      /\ ToSet(Line) \subseteq Saves /\ ToSet(Pending) \subseteq ToSet(Line) /\ ToSet(Ahead) \subseteq ToSet(Line)
  <2>1. Line \in Seq(Saves) /\ Pending \in Seq(Saves) /\ Distinct(Line)
    BY InLine DEF IInv, Named
  <2>2. /\ ToSet(Line) \subseteq Saves /\ ToSet(Pending) \subseteq ToSet(Line)
        /\ ToSet(Ahead) \subseteq ToSet(Line)
    BY InLine DEF IInv
  <2>3. /\ ToSet(Append(Line, x)) = ToSet(Line) \cup {x} /\ Distinct(Append(Line, x))
        /\ ToSet(Append(Pending, x)) = ToSet(Pending) \cup {x}
    BY <1>4, <2>1, AppendDistinct
  <2>. QED BY <1>6, <2>2, <2>3
<1>8. /\ name'[x] = n /\ verdict'[x] = "accepted"
      /\ \A s \in ToSet(Line) : s # x /\ name'[s] = name[s] /\ verdict'[s] = verdict[s]
  BY <1>4, <1>7 DEF IInv, TypeOK
<1>9. Named'
  <2>1. \A s \in ToSet(Line') : name'[s] \in reserved'
    BY <1>7, <1>8 DEF IInv, Named
  <2>2. \A s, t \in ToSet(Line') : name'[s] = name'[t] => s = t
    <3>1. \A s \in ToSet(Line) : name[s] \in reserved
      BY DEF IInv, Named
    <3>. QED BY <1>4, <1>7, <1>8, <3>1 DEF IInv, Named
  <2>3. /\ \A s \in ToSet(Pending') : verdict'[s] = "accepted"
        /\ \A s \in ToSet(Ahead') : verdict'[s] = "abandoned"
    BY <1>6, <1>7, <1>8 DEF IInv, Named
  <2>. QED BY <1>7, <2>1, <2>2, <2>3 DEF Named
<1>10. Filed'
  BY <1>4, <1>7, <1>8 DEF IInv, Filed, folder
<1>11. Quiet'
  BY <1>1, <1>2, <1>3 DEF IInv, Quiet, Roles
<1>12. Told'
  <2>1. ToSet(u.queue) \cap written = {} /\ ToSet(NoWorker.queue) \cap written = {}
    BY <1>1, <1>4, AppendDistinct DEF IInv, Told, Roles
  <2>2. \A q \in Roles : ToSet(workers'[q].queue) \cap written = {}
    BY <1>1, <1>2, <2>1 DEF Roles
  <2>3. \A s \in written' : verdict'[s] # "unasked"
    BY <1>4 DEF IInv, TypeOK, Told, folder
  <2>. QED BY <1>1, <1>3, <2>2, <2>3 DEF IInv, Told, folder
<1>13. VerdictsTruthful'
  BY DEF IInv, TypeOK, VerdictsTruthful, folder
<1>14. ASSUME NEW q \in Roles, workers[q].phase = "staged"
       PROVE  workers'[q].phase = "staged" /\ name'[workers'[q].hand] = name[workers[q].hand]
  <2>1. workers[q].hand \in ToSet(Line)
    BY <1>14, HandApart DEF IInv, Quiet
  <2>. QED BY <1>3, <1>8, <1>14, <2>1
<1>15. PartsAccounted' /\ Fresh'
  <2>1. Fresh'
    BY <1>3, <1>14 DEF IInv, Fresh, folder
  <2>. QED BY <1>14, <2>1, PartsKept DEF folder
<1>. QED BY <1>5, <1>6, <1>9, <1>10, <1>11, <1>12, <1>13, <1>15 DEF IInv

LEMMA Submits ==
    ASSUME IInv, SaveSubmits
    PROVE  /\ IInv'
           /\ \E s \in Saves :
                /\ verdict[s] = "unasked"
                /\ \/ verdict' = [verdict EXCEPT ![s] = "refused"] /\ Pending' = Pending
                   \/ verdict' = [verdict EXCEPT ![s] = "accepted"] /\ Pending' = Append(Pending, s)
<1>. DEFINE w == workers["kept"]
            x == NextSave
            u == [w EXCEPT !.queue = Append(w.queue, x)]
<1>1. /\ x \in Saves /\ verdict[x] = "unasked" /\ x # None
      /\ \A v : v # "unasked" => (verdict' = [verdict EXCEPT ![x] = v] => Asked')
  BY NextIsUnasked DEF SaveSubmits
<1>2. /\ pc = "save" /\ pc' = "tail" /\ UNCHANGED <<engine, collected, folder, kills>>
      /\ collected = <<>> /\ workers["dropped"] = NoWorker
  BY DEF SaveSubmits, IInv, Quiet
<1>3. CASE Rejects(w)
  <2>1. verdict' = [verdict EXCEPT ![x] = "refused"] /\ UNCHANGED <<reserved, workers, name>>
    BY <1>3 DEF SaveSubmits
  <2>. HIDE DEF x
  <2>. QED BY <1>1, <1>2, <2>1, Refused
<1>4. CASE ~ Rejects(w)
  <2>1. PICK n \in FreeNames :
          /\ verdict' = [verdict EXCEPT ![x] = "accepted"] /\ reserved' = reserved \cup {n}
          /\ name' = [name EXCEPT ![x] = n]
          /\ workers' = [workers EXCEPT !["kept"].queue = Append(@, x)]
    BY <1>4 DEF SaveSubmits
  <2>2. Len(w.queue) # QueueBound /\ w.thread = "running"
    BY <1>4 DEF Rejects
  <2>3. w.queue \in Seq(Saves) /\ w \in WorkerType /\ Len(w.queue) <= QueueBound
    BY Flowing DEF IInv, TypeOK, Roles
  <2>4. Append(w.queue, x) \in Seq(Saves) /\ Len(Append(w.queue, x)) <= QueueBound
    <3>1. Append(w.queue, x) \in Seq(Saves) /\ Len(Append(w.queue, x)) = Len(w.queue) + 1 /\ Len(w.queue) \in Nat
      BY <1>1, <2>3, AppendProperties
    <3>. QED BY <2>2, <2>3, <3>1, Bounds
  <2>5. /\ u \in WorkerType /\ u.queue = Append(w.queue, x) /\ u.thread = "running" /\ u.results = w.results
        /\ u.hand = w.hand /\ u.phase = w.phase /\ u.heard = w.heard
    BY <2>2, <2>3, <2>4 DEF WorkerType
  <2>6. workers' = [workers EXCEPT !["kept"] = u]
    BY <2>1
  <2>. HIDE DEF x, u
  <2>. QED BY <1>1, <1>2, <2>1, <2>2, <2>4, <2>5, <2>6, Accepted
<1>. QED BY <1>3, <1>4

(* A replaced worker leaves with its line: what it still owed is abandoned.    *)
LEMMA Installs ==
    ASSUME IInv, StartInstalls
    PROVE  /\ IInv' /\ Pending' = <<>>
           /\ \A s \in Saves : verdict'[s] = IF s \in ToSet(Pending) THEN "abandoned" ELSE verdict[s]
<1>. DEFINE old == workers["kept"]
            u == [old EXCEPT !.open = FALSE, !.heard = FALSE, !.results = <<>>]
<1>1. /\ pc = "install" /\ pc' = "replace" /\ engine' = "live"
      /\ workers' = [kept |-> FreshWorker, dropped |-> u]
      /\ verdict' = Abandoned(ToSet(Flow(old))) /\ UNCHANGED <<reserved, collected, name, folder, kills>>
  BY DEF StartInstalls
<1>2. /\ old \in WorkerType /\ Len(old.queue) <= QueueBound /\ <<>> \in Seq(Result) /\ Len(<<>>) = 0
      /\ collected = <<>> /\ workers["dropped"] = NoWorker
  BY <1>1, EmptySeq DEF IInv, TypeOK, Quiet, Roles
<1>3. /\ u \in WorkerType /\ u.results = <<>> /\ u.queue = old.queue /\ u.hand = old.hand
      /\ u.phase = old.phase /\ u.thread = old.thread /\ ~ u.heard
  BY <1>2 DEF WorkerType, Result
<1>4. Flow(old) = SavesIn(old.results) \o Flow(u)
  <2>. HIDE DEF u, old
  <2>. QED BY <1>2, <1>3, FlowRead
<1>. HIDE DEF u
<1>5. /\ workers'["kept"] = FreshWorker /\ workers'["dropped"] = u
      /\ workers' \in [Roles -> WorkerType]
      /\ \A q \in Roles : Len(workers'[q].queue) <= QueueBound /\ Len(workers'[q].results) <= QueueBound
  <2>1. workers'["kept"] = FreshWorker /\ workers'["dropped"] = u
    BY <1>1
  <2>2. workers' = [q \in Roles |-> IF q = "kept" THEN FreshWorker ELSE u]
    BY <1>1 DEF Roles
  <2>3. workers' \in [Roles -> WorkerType]
    BY <1>3, <2>2, NoWorkerFacts
  <2>4. /\ Len(FreshWorker.queue) <= QueueBound /\ Len(FreshWorker.results) <= QueueBound
        /\ Len(u.queue) <= QueueBound /\ Len(u.results) <= QueueBound
    BY <1>2, <1>3, NoWorkerFacts, Bounds
  <2>. QED BY <2>1, <2>3, <2>4 DEF Roles
<1>6. /\ Pending' = <<>> /\ Ahead' = Flow(u) /\ Line' = Flow(u) /\ Line = Flow(old) /\ Pending = Flow(old)
      /\ Flow(u) \in Seq(Saves) /\ Flow(old) \in Seq(Saves)
  <2>1. Flow(u) \in Seq(Saves) /\ Flow(old) \in Seq(Saves)
    BY <1>2, <1>3, Flowing
  <2>2. Pending' = <<>> /\ Pending = Flow(old)
    BY <1>1, <1>2, <1>5, <2>1, NoWorkerFacts, EmptyFacts, Lines DEF Pending
  <2>3. Ahead' = Flow(u) /\ Ahead = <<>>
    BY <1>2, <1>5, NoWorkerFacts DEF Ahead
  <2>. QED BY <2>1, <2>2, <2>3, Lines DEF Line
<1>7. /\ ToSet(Flow(u)) \subseteq ToSet(Flow(old)) /\ Distinct(Flow(u)) /\ ToSet(Flow(old)) \subseteq Saves
  <2>1. SavesIn(old.results) \in Seq(Saves)
    BY <1>2, Flowing
  <2>2. Distinct(SavesIn(old.results) \o Flow(u))
    BY <1>4, <1>6 DEF IInv, Named
  <2>. QED BY <1>4, <1>6, <2>1, <2>2, ConcatDistinct, ConcatSet, SetOf
<1>8. /\ \A s \in Saves : verdict'[s] = IF s \in ToSet(Flow(old)) THEN "abandoned" ELSE verdict[s]
      /\ verdict' \in [Saves -> {"unasked", "refused", "accepted", "abandoned", "saved", "failed"}]
  BY <1>1 DEF Abandoned, IInv, TypeOK
<1>9. \A s \in ToSet(Flow(old)) : verdict[s] = "accepted"
  BY <1>6 DEF IInv, Named
<1>10. TypeOK'
  BY <1>1, <1>5, <1>8 DEF IInv, TypeOK, folder
<1>11. Quiet'
  BY <1>1, <1>2, <1>3, <1>5, NoWorkerFacts DEF IInv, Quiet, Roles
<1>12. Named' /\ Asked'
  <2>1. Asked'
    BY <1>8, <1>9 DEF IInv, Asked
  <2>. QED BY <1>1, <1>6, <1>7, <1>8, <2>1, EmptyFacts DEF IInv, Named
<1>13. Filed'
  BY <1>1, <1>6, <1>7, FiledKept DEF folder
<1>14. Told'
  <2>1. ToSet(collected') \cup ToSet(workers'["kept"].results) = {}
    BY <1>1, <1>2, <1>5, NoWorkerFacts, EmptyFacts
  <2>2. \A s \in written' : verdict'[s] # "unasked"
    BY <1>1, <1>8, <1>9 DEF IInv, TypeOK, Told, folder
  <2>. QED BY <1>1, <1>3, <1>5, <2>1, <2>2, NoWorkerFacts, EmptyFacts DEF IInv, Told, folder, Roles
<1>15. VerdictsTruthful'
  BY <1>1, <1>8 DEF IInv, VerdictsTruthful, folder
<1>16. ASSUME NEW q \in Roles, workers[q].phase = "staged"
       PROVE  q = "kept" /\ workers'["dropped"].phase = "staged" /\ workers'["dropped"].hand = workers[q].hand
  BY <1>2, <1>3, <1>5, <1>16, NoWorkerFacts DEF Roles
<1>17. PartsAccounted' /\ Fresh'
  <2>1. Fresh'
    BY <1>1, <1>3, <1>5, NoWorkerFacts DEF IInv, Fresh, folder, Roles
  <2>. QED BY <1>1, <1>16, <2>1, PartsKept DEF folder, Roles
<1>. QED BY <1>6, <1>8, <1>10, <1>11, <1>12, <1>13, <1>14, <1>15, <1>17 DEF IInv

(* A worker of which only its thread, its channels or nothing is left.         *)
LEMMA ReplacedInv == ASSUME IInv, Replaced PROVE IInv' /\ Pending' = Pending
<1>. DEFINE w == workers["dropped"]
<1>1. /\ pc = "replace" /\ pc' = "tail" /\ w.thread # "running"
      /\ workers' = [workers EXCEPT !["dropped"] = NoWorker]
      /\ UNCHANGED <<engine, reserved, collected, name, verdict, folder, kills>>
  BY DEF Replaced
<1>2. /\ w \in WorkerType /\ w.hand = None /\ w.queue = <<>> /\ w.results = <<>> /\ w.phase = "idle"
      /\ "dropped" \in Roles /\ <<>> \in Seq(Saves) /\ Len(<<>>) = 0 /\ collected = <<>>
  BY <1>1, EmptySeq DEF IInv, TypeOK, Quiet, Roles
<1>3. /\ workers' \in [Roles -> WorkerType]
      /\ \A q \in Roles : Len(workers'[q].queue) <= QueueBound /\ Len(workers'[q].results) <= QueueBound
      /\ workers'["dropped"] = NoWorker /\ workers'["kept"] = workers["kept"]
  <2>1. /\ NoWorker \in WorkerType /\ Len(NoWorker.queue) <= QueueBound /\ Len(NoWorker.results) <= QueueBound
        /\ "kept" \in Roles
    BY <1>2, NoWorkerFacts, Bounds DEF Roles
  <2>. QED BY <1>1, <1>2, <2>1, WorkerChanges DEF IInv
<1>4. \A q \in Roles : /\ workers'[q].phase = workers[q].phase /\ workers'[q].hand = workers[q].hand
                       /\ workers'[q].queue = workers[q].queue /\ workers'[q].results = workers[q].results
  BY <1>2, <1>3, NoWorkerFacts DEF Roles
<1>5. Line' = Line /\ Pending' = Pending /\ Named' /\ Asked'
  <2>1. Flow(workers'["dropped"]) = Flow(w)
    BY <1>2, <1>3, NoWorkerFacts, FlowSame
  <2>2. \A q \in Roles : Flow(workers'[q]) = Flow(workers[q])
    BY <1>3, <2>1 DEF Roles
  <2>. QED BY <1>1, <2>2, LineKept
<1>6. TypeOK'
  BY <1>1, <1>3 DEF IInv, TypeOK, Commands, folder
<1>7. Filed'
  BY <1>1, <1>5, FiledKept DEF folder
<1>8. Quiet'
  BY <1>1, <1>2, <1>3, <1>4, NoWorkerFacts DEF IInv, Quiet, Roles
<1>9. Told' /\ VerdictsTruthful' /\ Fresh'
  BY <1>1, <1>4 DEF IInv, Told, VerdictsTruthful, Fresh, folder, Roles
<1>10. PartsAccounted'
  BY <1>1, <1>4, PartsKept DEF folder
<1>. QED BY <1>5, <1>6, <1>7, <1>8, <1>9, <1>10 DEF IInv

LEMMA StopBeginsInv == ASSUME IInv, StopBegins PROVE IInv' /\ Pending' = Pending
<1>. DEFINE w == workers["kept"]
            u == [w EXCEPT !.open = FALSE]
<1>1. /\ pc = "stop" /\ pc' \in {"tail", "drain"} /\ engine' = "none"
      /\ workers' = [workers EXCEPT !["kept"] = u]
      /\ UNCHANGED <<reserved, collected, name, verdict, folder, kills>>
  BY DEF StopBegins
<1>2. /\ w \in WorkerType /\ "kept" \in Roles /\ collected = <<>> /\ workers["dropped"] = NoWorker
      /\ Len(w.queue) <= QueueBound /\ Len(w.results) <= QueueBound
  BY <1>1 DEF IInv, TypeOK, Quiet, Roles
<1>3. /\ u \in WorkerType /\ u.results = w.results /\ u.queue = w.queue /\ u.hand = w.hand
      /\ u.phase = w.phase /\ u.thread = w.thread /\ u.heard = w.heard
  BY <1>2 DEF WorkerType
<1>4. Flow(u) = Flow(w)
  <2>. HIDE DEF u, w
  <2>. QED BY <1>3, FlowSame
<1>. HIDE DEF u
<1>5. /\ workers' \in [Roles -> WorkerType]
      /\ \A q \in Roles : Len(workers'[q].queue) <= QueueBound /\ Len(workers'[q].results) <= QueueBound
      /\ workers'["kept"] = u /\ workers'["dropped"] = workers["dropped"]
  BY <1>1, <1>2, <1>3, WorkerChanges DEF IInv, Roles
<1>6. \A q \in Roles : /\ workers'[q].phase = workers[q].phase /\ workers'[q].hand = workers[q].hand
                       /\ workers'[q].queue = workers[q].queue /\ workers'[q].results = workers[q].results
                       /\ workers'[q].thread = workers[q].thread /\ workers'[q].heard = workers[q].heard
  BY <1>3, <1>5 DEF Roles
<1>7. Line' = Line /\ Pending' = Pending /\ Named' /\ Asked'
  <2>1. \A q \in Roles : Flow(workers'[q]) = Flow(workers[q])
    BY <1>4, <1>5 DEF Roles
  <2>. QED BY <1>1, <2>1, LineKept
<1>8. TypeOK'
  BY <1>1, <1>5 DEF IInv, TypeOK, Commands, folder
<1>9. Filed'
  BY <1>1, <1>7, FiledKept DEF folder
<1>10. Quiet'
  BY <1>1, <1>2, <1>5, <1>6 DEF IInv, Quiet, Roles
<1>11. Told' /\ VerdictsTruthful' /\ Fresh'
  BY <1>1, <1>6 DEF IInv, Told, VerdictsTruthful, Fresh, folder, Roles
<1>12. PartsAccounted'
  BY <1>1, <1>6, PartsKept DEF folder
<1>. QED BY <1>7, <1>8, <1>9, <1>10, <1>11, <1>12 DEF IInv

(* Reading results while waiting moves them along the line, not out of it.     *)
LEMMA Drains == ASSUME IInv, DrainWhileWaiting PROVE IInv' /\ Pending' = Pending
<1>. DEFINE w == workers["kept"]
            u == [w EXCEPT !.results = <<>>]
<1>1. /\ pc = "drain" /\ workers' = [workers EXCEPT !["kept"] = u] /\ collected' = collected \o w.results
      /\ UNCHANGED <<pc, engine, reserved, name, verdict, folder, kills>>
  BY DEF DrainWhileWaiting
<1>2. /\ w \in WorkerType /\ "kept" \in Roles /\ collected \in Seq(Result) /\ w.results \in Seq(Result)
      /\ Len(w.queue) <= QueueBound /\ <<>> \in Seq(Result) /\ Len(<<>>) = 0
      /\ SavesIn(collected) \in Seq(Saves) /\ SavesIn(w.results) \in Seq(Saves)
  BY InLine, Flowing, EmptySeq DEF IInv, TypeOK, Roles
<1>3. /\ u \in WorkerType /\ u.results = <<>> /\ u.queue = w.queue /\ u.hand = w.hand
      /\ u.phase = w.phase /\ u.thread = w.thread /\ u.heard = w.heard
  BY <1>2 DEF WorkerType, Result
<1>4. Flow(w) = SavesIn(w.results) \o Flow(u) /\ Flow(u) \in Seq(Saves)
  <2>. HIDE DEF u, w
  <2>. QED BY <1>2, <1>3, FlowRead, Flowing
<1>. HIDE DEF u
<1>5. /\ workers' \in [Roles -> WorkerType]
      /\ \A q \in Roles : Len(workers'[q].queue) <= QueueBound /\ Len(workers'[q].results) <= QueueBound
      /\ workers'["kept"] = u /\ workers'["dropped"] = workers["dropped"]
  <2>1. Len(u.queue) <= QueueBound /\ Len(u.results) <= QueueBound
    BY <1>2, <1>3, Bounds
  <2>2. "dropped" \in Roles
    BY DEF Roles
  <2>. QED BY <1>1, <1>2, <1>3, <2>1, <2>2, WorkerChanges DEF IInv
<1>6. \A q \in Roles : /\ workers'[q].phase = workers[q].phase /\ workers'[q].hand = workers[q].hand
                       /\ workers'[q].queue = workers[q].queue
                       /\ workers'[q].thread = workers[q].thread /\ workers'[q].heard = workers[q].heard
  BY <1>3, <1>5 DEF Roles
<1>7. /\ collected' \in Seq(Result) /\ SavesIn(collected') = SavesIn(collected) \o SavesIn(w.results)
      /\ ToSet(collected') = ToSet(collected) \cup ToSet(w.results)
  BY <1>1, <1>2, ConcatProperties, SavesConcat, ConcatSet
<1>8. Line' = Line /\ Pending' = Pending /\ Ahead' = Ahead
  <2>1. Pending' = (SavesIn(collected) \o SavesIn(w.results)) \o Flow(u)
    BY <1>5, <1>7 DEF Pending
  <2>2. (SavesIn(collected) \o SavesIn(w.results)) \o Flow(u) = SavesIn(collected) \o (SavesIn(w.results) \o Flow(u))
    BY <1>2, <1>4, LinesAssociate, Zenon
  <2>3. Pending' = Pending
    BY <1>4, <2>1, <2>2 DEF Pending
  <2>. QED BY <1>5, <2>3 DEF Ahead, Line
<1>9. Named' /\ Asked'
  BY <1>1, <1>8 DEF IInv, Named, Asked
<1>10. TypeOK'
  BY <1>1, <1>5, <1>7 DEF IInv, TypeOK, folder, Result
<1>11. Filed'
  BY <1>1, <1>8, FiledKept DEF folder
<1>12. Quiet'
  BY <1>1, <1>5, <1>6 DEF IInv, Quiet, Roles
<1>13. Told'
  <2>1. ToSet(collected') \cup ToSet(workers'["kept"].results) = ToSet(collected) \cup ToSet(w.results)
    BY <1>3, <1>5, <1>7, EmptyFacts
  <2>. QED BY <1>1, <1>6, <2>1 DEF IInv, Told, folder
<1>14. VerdictsTruthful' /\ Fresh' /\ PartsAccounted'
  BY <1>1, <1>6, PartsKept DEF IInv, VerdictsTruthful, Fresh, folder
<1>. QED BY <1>8, <1>9, <1>10, <1>11, <1>12, <1>13, <1>14 DEF IInv

(* The end of a shutdown reports everything that was delivered.                *)
LEMMA StopReportsInv ==
    ASSUME IInv, StopReports
    PROVE  /\ IInv' /\ Pending' = <<>>
           /\ \A s \in Saves : IF s \in ToSet(Pending) THEN verdict'[s] \in {"saved", "failed"}
                                                       ELSE verdict'[s] = verdict[s]
<1>. DEFINE w == workers["kept"]
            rs == collected \o w.results
<1>1. /\ pc = "drain" /\ pc' = "tail" /\ w.thread = "exited" /\ MapResults(rs) /\ collected' = <<>>
      /\ workers' = [workers EXCEPT !["kept"] = NoWorker] /\ UNCHANGED <<engine, folder, kills>>
  BY DEF StopReports
<1>2. /\ w \in WorkerType /\ "kept" \in Roles /\ "dropped" \in Roles
      /\ collected \in Seq(Result) /\ w.results \in Seq(Result)
      /\ w.hand = None /\ w.queue = <<>> /\ w.phase = "idle" /\ workers["dropped"] = NoWorker
      /\ SavesIn(collected) \in Seq(Saves) /\ SavesIn(w.results) \in Seq(Saves)
      /\ <<>> \in Seq(Saves) /\ <<>> \in Seq(Result) /\ Len(<<>>) = 0
  BY <1>1, InLine, Flowing, EmptySeq DEF IInv, Quiet, Roles
<1>3. /\ workers' \in [Roles -> WorkerType]
      /\ \A q \in Roles : Len(workers'[q].queue) <= QueueBound /\ Len(workers'[q].results) <= QueueBound
      /\ workers'["kept"] = NoWorker /\ workers'["dropped"] = workers["dropped"]
  <2>1. NoWorker \in WorkerType /\ Len(NoWorker.queue) <= QueueBound /\ Len(NoWorker.results) <= QueueBound
    BY <1>2, NoWorkerFacts, Bounds
  <2>. QED BY <1>1, <1>2, <2>1, WorkerChanges DEF IInv
<1>4. /\ rs \in Seq(Result) /\ SavesIn(rs) = SavesIn(collected) \o SavesIn(w.results)
      /\ ToSet(rs) = ToSet(collected) \cup ToSet(w.results)
  BY <1>2, ConcatProperties, SavesConcat, ConcatSet
<1>5. Pending = SavesIn(rs) /\ Pending' = <<>> /\ Ahead = <<>> /\ Ahead' = Ahead
      /\ Pending = SavesIn(rs) \o Pending' /\ Pending' \in Seq(Saves)
  <2>1. Flow(w) = SavesIn(w.results)
    BY <1>2, Lines DEF Flow, InHand
  <2>2. Pending = SavesIn(rs)
    BY <1>4, <2>1 DEF Pending
  <2>3. Pending' = <<>>
    BY <1>1, <1>2, <1>3, NoWorkerFacts, EmptyFacts, Lines DEF Pending
  <2>4. Ahead = <<>> /\ Ahead' = Ahead
    BY <1>2, <1>3, NoWorkerFacts DEF Ahead
  <2>5. SavesIn(rs) \in Seq(Saves)
    BY <1>4, SavesOf
  <2>. HIDE DEF rs
  <2>. QED BY <1>2, <2>2, <2>3, <2>4, <2>5, Lines
<1>6. \A a \in ToSet(rs) : a.told = "saved" <=> a.save \in written
  BY <1>4 DEF IInv, Told
<1>. HIDE DEF rs
<1>7. /\ Named' /\ Filed' /\ VerdictsTruthful' /\ Asked'
      /\ name' \in [Saves -> Names \cup {None}] /\ reserved' \subseteq Names
      /\ verdict' \in [Saves -> {"unasked", "refused", "accepted", "abandoned", "saved", "failed"}]
      /\ \A s \in Saves : verdict'[s] = "unasked" <=> verdict[s] = "unasked"
      /\ \A s \in Saves : IF s \in ToSet(SavesIn(rs)) THEN verdict'[s] \in {"saved", "failed"}
                                                      ELSE verdict'[s] = verdict[s]
  BY <1>1, <1>4, <1>5, <1>6, Reports
<1>8. TypeOK'
  BY <1>1, <1>2, <1>3, <1>7 DEF IInv, TypeOK, Commands, folder, Result
<1>9. \A q \in Roles : /\ workers[q].phase = "idle" /\ workers'[q].phase = "idle"
                       /\ workers'[q].hand = None /\ workers'[q].queue = <<>>
  BY <1>2, <1>3, NoWorkerFacts DEF Roles
<1>10. Quiet'
  BY <1>1, <1>2, <1>3, <1>9, NoWorkerFacts DEF Quiet
<1>11. Told'
  <2>1. ToSet(collected') \cup ToSet(workers'["kept"].results) = {}
    BY <1>1, <1>3, NoWorkerFacts, EmptyFacts
  <2>2. \A s \in written' : verdict'[s] # "unasked"
    BY <1>1, <1>7 DEF IInv, TypeOK, Told, folder
  <2>. QED BY <1>9, <2>1, <2>2, EmptyFacts DEF Told
<1>12. PartsAccounted' /\ Fresh'
  BY <1>1, <1>9, PartsKept DEF Fresh, folder
<1>. QED BY <1>5, <1>7, <1>8, <1>10, <1>11, <1>12 DEF IInv

-----------------------------------------------------------------------------
(* The library moves clips about, and the process dies.                        *)
LEMMA LibraryKeeps ==
    ASSUME IInv, UNCHANGED Pipeline, clips' \in [Names -> Saves \cup {None}], moved' \subseteq Saves, Filed'
    PROVE  IInv' /\ Pending' = Pending
<1>1. TypeOK'
  BY DEF IInv, TypeOK, Pipeline, Controller
<1>2. Line' = Line /\ Pending' = Pending /\ Named' /\ Asked'
  BY LineKept DEF Pipeline, Controller
<1>3. Quiet' /\ Told' /\ VerdictsTruthful' /\ Fresh' /\ PartsAccounted'
  BY DEF IInv, Quiet, Told, VerdictsTruthful, Fresh, PartsAccounted, Pipeline, Controller
<1>. QED BY <1>1, <1>2, <1>3 DEF IInv

LEMMA Renames == ASSUME IInv, NEW from \in Names, NEW to \in Names, LibraryRename(from, to)
                 PROVE  IInv' /\ Pending' = Pending
<1>1. /\ clips[from] # None /\ clips[to] = None /\ UNCHANGED Pipeline
      /\ clips' = [clips EXCEPT ![to] = clips[from], ![from] = None] /\ moved' = moved \cup {clips[from]}
  BY DEF LibraryRename
<1>2. clips' \in [Names -> Saves \cup {None}] /\ moved' \subseteq Saves
  BY <1>1 DEF IInv, TypeOK
<1>3. Line' = Line /\ name' = name
  BY <1>1, LineKept DEF Pipeline, Controller
<1>4. ASSUME NEW s \in ToSet(Line) PROVE clips'[name[s]] \in {None, s} \cup moved'
  <2>1. name[s] \in Names /\ clips[name[s]] \in {None, s} \cup moved
    BY DEF IInv, TypeOK, Named, Filed
  <2>. QED BY <1>1, <2>1 DEF IInv, TypeOK
<1>. QED BY <1>1, <1>2, <1>3, <1>4, LibraryKeeps DEF Filed

LEMMA Deletes == ASSUME IInv, NEW n \in Names, LibraryDelete(n) PROVE IInv' /\ Pending' = Pending
<1>1. UNCHANGED <<Pipeline, moved>> /\ clips' = [clips EXCEPT ![n] = None]
  BY DEF LibraryDelete
<1>2. clips' \in [Names -> Saves \cup {None}] /\ moved' \subseteq Saves
  BY <1>1 DEF IInv, TypeOK
<1>3. Line' = Line /\ name' = name
  BY <1>1, LineKept DEF Pipeline, Controller
<1>4. ASSUME NEW s \in ToSet(Line) PROVE clips'[name[s]] \in {None, s} \cup moved'
  BY <1>1 DEF IInv, TypeOK, Named, Filed
<1>. QED BY <1>1, <1>2, <1>3, <1>4, LibraryKeeps DEF Filed

LEMMA Dies ==
    ASSUME IInv, Kill
    PROVE  /\ IInv' /\ Pending' = <<>>
           /\ \A s \in Saves : verdict'[s] = IF s \in ToSet(Pending) THEN "abandoned" ELSE verdict[s]
<1>1. /\ pc' = "idle" /\ engine' = "none" /\ reserved' = {} /\ collected' = <<>>
      /\ workers' = [r \in Roles |-> NoWorker] /\ verdict' = Abandoned(InFlight)
      /\ name' = [s \in Saves |-> None] /\ stale' = parts /\ UNCHANGED <<clips, parts, written, moved>>
      /\ kills < MaxKills /\ kills' = kills + 1
  BY DEF Kill
<1>2. /\ \A r \in Roles : workers'[r] = NoWorker
      /\ workers'["kept"] = NoWorker /\ workers'["dropped"] = NoWorker
      /\ <<>> \in Seq(Result) /\ <<>> \in Seq(Saves) /\ Len(<<>>) = 0
  BY <1>1, EmptySeq DEF Roles
<1>3. Ahead' = <<>> /\ Pending' = <<>> /\ Line' = <<>>
  <2>1. Ahead' = <<>> /\ Pending' = <<>>
    BY <1>1, <1>2, NoWorkerFacts, EmptyFacts, Lines DEF Ahead, Pending
  <2>. QED BY <1>2, <2>1, Lines DEF Line
<1>4. /\ \A s \in Saves : verdict'[s] = IF s \in ToSet(Line) THEN "abandoned" ELSE verdict[s]
      /\ verdict' \in [Saves -> {"unasked", "refused", "accepted", "abandoned", "saved", "failed"}]
  BY <1>1, InLine DEF Abandoned, IInv, TypeOK
<1>5. \A s \in ToSet(Line) : verdict[s] # "unasked" /\ (s \notin ToSet(Pending) => verdict[s] = "abandoned")
  BY InLine DEF IInv, Named
<1>6. \A s \in Saves : verdict'[s] = IF s \in ToSet(Pending) THEN "abandoned" ELSE verdict[s]
  BY <1>4, <1>5, InLine DEF IInv
<1>7. TypeOK'
  <2>1. workers' \in [Roles -> WorkerType]
    BY <1>1, NoWorkerFacts
  <2>2. \A r \in Roles : Len(workers'[r].queue) <= QueueBound /\ Len(workers'[r].results) <= QueueBound
    BY <1>2, NoWorkerFacts, Bounds
  <2>3. kills' \in 0..MaxKills
    BY <1>1, Bounds DEF IInv, TypeOK
  <2>. QED BY <1>1, <1>2, <1>4, <2>1, <2>2, <2>3 DEF IInv, TypeOK, Result
<1>8. Quiet' /\ Fresh'
  BY <1>1, <1>2, NoWorkerFacts DEF Quiet, Fresh
<1>9. Named' /\ Filed'
  BY <1>3, EmptyFacts DEF Named, Filed
<1>10. Asked'
  BY <1>4, <1>5 DEF IInv, Asked
<1>11. Told'
  <2>1. \A s \in written' : verdict'[s] # "unasked"
    BY <1>1, <1>4 DEF IInv, TypeOK, Told
  <2>. QED BY <1>1, <1>2, <2>1, NoWorkerFacts, EmptyFacts DEF Told
<1>12. VerdictsTruthful' /\ PartsAccounted'
  BY <1>1, <1>4 DEF IInv, VerdictsTruthful, PartsAccounted
<1>. QED BY <1>3, <1>6, <1>7, <1>8, <1>9, <1>10, <1>11, <1>12 DEF IInv

LEMMA Stutters == ASSUME IInv, UNCHANGED vars PROVE IInv' /\ Pending' = Pending /\ verdict' = verdict
<1>1. Line' = Line /\ Pending' = Pending /\ Named' /\ Asked'
  BY LineKept DEF vars
<1>2. UNCHANGED <<pc, engine, reserved, workers, collected, name, verdict, clips, parts, stale, written, moved, kills>>
  BY DEF vars, folder
<1>3. TypeOK' /\ Quiet' /\ Filed' /\ Told'
  BY <1>1, <1>2 DEF IInv, TypeOK, Quiet, Filed, Told
<1>4. VerdictsTruthful' /\ Fresh' /\ PartsAccounted'
  BY <1>2 DEF IInv, VerdictsTruthful, Fresh, PartsAccounted
<1>. QED BY <1>1, <1>2, <1>3, <1>4 DEF IInv

LEMMA Begins == ASSUME IInv, NEW command \in Commands, Begin(command) PROVE IInv'
BY Polls DEF Begin, Commands

LEMMA Ends == ASSUME IInv, End PROVE IInv'
BY Polls DEF End

LEMMA InvStep == IInv /\ [Next]_vars => IInv'
<1>. SUFFICES ASSUME IInv, [Next]_vars PROVE IInv'
  OBVIOUS
<1>1. ASSUME NEW command \in Commands, Begin(command) PROVE IInv'
  BY <1>1, Begins
<1>2. CASE Proceed
  BY <1>2, Settled, Submits, Installs, ReplacedInv, StopBeginsInv, Drains, StopReportsInv, Ends DEF Proceed
<1>3. ASSUME NEW r \in Roles, Worker(r) PROVE IInv'
  BY <1>3, WorkerInv
<1>4. CASE Library
  BY <1>4, Renames, Deletes DEF Library
<1>5. CASE Kill
  BY <1>5, Dies
<1>6. CASE UNCHANGED vars
  BY <1>6, Stutters
<1>. QED BY <1>1, <1>2, <1>3, <1>4, <1>5, <1>6 DEF Next

LEMMA Invariance == Spec => []IInv
<1>. QED BY InitInv, InvStep, PTL DEF Spec

-----------------------------------------------------------------------------
(* The type of every variable, with both channels within their bound, whatever *)
(* their bound and however the worker, the commands and a death interleave.    *)
THEOREM SaveTypeCorrect == Spec => []TypeOK
<1>1. IInv => TypeOK
  BY DEF IInv
<1>. QED BY <1>1, Invariance, PTL

(* Two requests on their way never share a file, and both names are reserved.  *)
THEOREM NamesAlwaysExclusive == Spec => []NamesExclusive
<1>1. IInv => NamesExclusive
  BY InLine DEF IInv, Named, NamesExclusive
<1>. QED BY <1>1, Invariance, PTL

(* ClipSaved is only said of a published clip, SaveFailed of none.             *)
THEOREM VerdictsAlwaysTruthful == Spec => []VerdictsTruthful
<1>1. IInv => VerdictsTruthful
  BY DEF IInv
<1>. QED BY <1>1, Invariance, PTL

(* No failure, stop or replacement leaves a part file behind.                  *)
THEOREM PartsAlwaysAccounted == Spec => []PartsAccounted
<1>1. IInv => PartsAccounted
  BY DEF IInv
<1>. QED BY <1>1, Invariance, PTL

(* Only a clip the library renamed can be replaced on disk by a save.          *)
THEOREM ClipsNeverOverwritten == Spec => OnlyMovedReplaced
<1>. DEFINE Kept == \A n \in Names : clips[n] # None /\ clips'[n] # clips[n]
                        => clips'[n] = None \/ clips[n] \in moved
<1>1. IInv /\ [Next]_vars => [Kept]_vars
  <2>. SUFFICES ASSUME IInv, Next PROVE Kept
    OBVIOUS
  <2>1. ASSUME NEW r \in Roles, Publish(r) PROVE Kept
    <3>. DEFINE s == workers[r].hand
    <3>1. s # None /\ clips' = [clips EXCEPT ![name[s]] = s]
      BY <2>1 DEF Publish, IInv, Quiet
    <3>2. s \in ToSet(Line)
      BY <3>1, HandApart DEF IInv
    <3>3. clips[name[s]] \in {None, s} \cup moved
      BY <3>2 DEF IInv, Filed
    <3>. QED BY <3>1, <3>3 DEF IInv, TypeOK
  <2>2. ASSUME NEW from \in Names, NEW to \in Names, LibraryRename(from, to) PROVE Kept
    BY <2>2 DEF LibraryRename, IInv, TypeOK
  <2>3. ASSUME NEW n \in Names, LibraryDelete(n) PROVE Kept
    BY <2>3 DEF LibraryDelete, IInv, TypeOK
  <2>4. ASSUME clips' = clips PROVE Kept
    BY <2>4
  <2>5. ASSUME NEW r \in Roles, Worker(r), ~ Publish(r) PROVE clips' = clips
    BY <2>5 DEF Worker, Take, Exit, FailUnopened, Stage, FailStaged, Deliver, folder
  <2>6. ASSUME Proceed PROVE clips' = clips
    BY <2>6 DEF Proceed, SaveRefused, SaveSubmits, StartRejected, StartCleans, StartFails, StartInstalls,
                Replaced, StopRejected, StopBegins, DrainWhileWaiting, StopReports, End, PollResults,
                Unchanged, folder
  <2>7. ASSUME NEW command \in Commands, Begin(command) PROVE clips' = clips
    BY <2>7 DEF Begin, PollResults, folder
  <2>8. Kill => clips' = clips
    BY DEF Kill
  <2>. HIDE DEF Kept
  <2>. QED BY <2>1, <2>2, <2>3, <2>4, <2>5, <2>6, <2>7, <2>8 DEF Next, Library
<1>. QED BY <1>1, Invariance, PTL DEF Spec, OnlyMovedReplaced

-----------------------------------------------------------------------------
(* The pipeline implements the service of SaveService.                         *)
LEMMA FrontAndRest ==
    ASSUME NEW S, NEW a \in Seq(S), NEW b \in Seq(S)
    PROVE  /\ SubSeq(a \o b, 1, Len(a)) = a /\ SubSeq(a \o b, Len(a) + 1, Len(a \o b)) = b
           /\ Len(a) \in 0..Len(a \o b)
OBVIOUS

LEMMA Answers ==
    ASSUME IInv, IInv', NEW a \in Seq(Saves), Pending' \in Seq(Saves), Pending = a \o Pending',
           \A s \in Saves : IF s \in ToSet(a) THEN verdict'[s] \in {"saved", "failed"}
                                              ELSE verdict'[s] = verdict[s]
    PROVE  Service!Next \/ UNCHANGED Service!svars
<1>1. /\ Pending' \in Seq(Saves) /\ Len(a) \in 0..Len(Pending)
      /\ SubSeq(Pending, 1, Len(a)) = a /\ SubSeq(Pending, Len(a) + 1, Len(Pending)) = Pending'
  BY FrontAndRest
<1>2. /\ verdict \in [Saves -> {"unasked", "refused", "accepted", "abandoned", "saved", "failed"}]
      /\ verdict' \in [Saves -> {"unasked", "refused", "accepted", "abandoned", "saved", "failed"}]
  BY DEF IInv, TypeOK
<1>3. CASE Len(a) = 0
  <2>1. a = <<>> /\ Pending' = Pending
    BY <1>1, <1>3, Lines, EmptySeq
  <2>2. verdict' = verdict
    BY <1>2, <2>1, EmptyFacts
  <2>. QED BY <2>1, <2>2 DEF Service!svars
<1>4. CASE Len(a) # 0
  <2>1. Len(a) \in 1..Len(Pending)
    BY <1>1, <1>4
  <2>2. /\ verdict' \in [Saves -> Service!Verdicts]
        /\ \A s \in Saves : IF s \in ToSet(a) THEN verdict'[s] \in Service!Answers
                                              ELSE verdict'[s] = verdict[s]
    BY <1>2 DEF Service!Verdicts, Service!Answers
  <2>3. Service!ToSet(SubSeq(Pending, 1, Len(a))) = ToSet(a)
    <3>1. Service!ToSet(a) = ToSet(a)
      BY DEF ToSet, Service!ToSet
    <3>. QED BY <1>1, <3>1
  <2>4. Service!Report(Len(a))
    BY <1>1, <2>2, <2>3 DEF Service!Report
  <2>. QED BY <2>1, <2>4 DEF Service!Next
<1>. QED BY <1>3, <1>4

(* Everything pending is abandoned, or there was nothing.                      *)
LEMMA Abandons ==
    ASSUME IInv, IInv', Pending' = <<>>,
           \A s \in Saves : verdict'[s] = IF s \in ToSet(Pending) THEN "abandoned" ELSE verdict[s]
    PROVE  Service!Next \/ UNCHANGED Service!svars
<1>1. /\ verdict \in [Saves -> {"unasked", "refused", "accepted", "abandoned", "saved", "failed"}]
      /\ verdict' \in [Saves -> {"unasked", "refused", "accepted", "abandoned", "saved", "failed"}]
  BY DEF IInv, TypeOK
<1>2. CASE Pending = <<>>
  <2>1. verdict' = verdict
    BY <1>1, <1>2, EmptyFacts
  <2>. QED BY <1>2, <2>1 DEF Service!svars
<1>3. CASE Pending # <<>>
  <2>1. verdict' = [s \in Saves |-> IF s \in ToSet(Pending) THEN "abandoned" ELSE verdict[s]]
    BY <1>1
  <2>2. Service!Abandon
    BY <1>3, <2>1 DEF Service!Abandon, ToSet, Service!ToSet
  <2>. QED BY <2>2 DEF Service!Next
<1>. QED BY <1>2, <1>3

LEMMA ServiceStep == IInv /\ [Next]_vars => [Service!Next]_(Service!svars)
<1>. SUFFICES ASSUME IInv, [Next]_vars PROVE Service!Next \/ UNCHANGED Service!svars
  OBVIOUS
<1>1. IInv'
  BY InvStep
<1>2. ASSUME verdict' = verdict, Pending' = Pending PROVE UNCHANGED Service!svars
  BY <1>2 DEF Service!svars
<1>3. ASSUME PollResults, pc \notin {"drain", "replace"}, pc' \notin {"drain", "replace"},
             pc' \in {"idle", "install", "replace", "drain"} \cup Commands
      PROVE  Service!Next \/ UNCHANGED Service!svars
  <2>1. SavesIn(workers["kept"].results) \in Seq(Saves)
    BY Flowing, InLine DEF IInv, Roles
  <2>. QED BY <1>1, <1>3, <2>1, Polls, Answers
<1>4. ASSUME NEW command \in Commands, Begin(command) PROVE Service!Next \/ UNCHANGED Service!svars
  BY <1>3, <1>4 DEF Begin, Commands
<1>5. CASE End
  BY <1>3, <1>5 DEF End
<1>6. CASE SaveRefused \/ StartRejected \/ StartCleans \/ StartFails \/ StopRejected
  <2>1. verdict' = verdict
    BY <1>6 DEF SaveRefused, StartRejected, StartCleans, StartFails, StopRejected, Unchanged
  <2>. QED BY <1>2, <1>6, <2>1, Settled
<1>7. CASE SaveSubmits
  <2>1. PICK s \in Saves :
          /\ verdict[s] = "unasked"
          /\ \/ verdict' = [verdict EXCEPT ![s] = "refused"] /\ Pending' = Pending
             \/ verdict' = [verdict EXCEPT ![s] = "accepted"] /\ Pending' = Append(Pending, s)
    BY <1>7, Submits
  <2>2. Service!Refuse(s) \/ Service!Accept(s)
    BY <2>1 DEF Service!Refuse, Service!Accept
  <2>. QED BY <2>2 DEF Service!Next
<1>8. CASE StartInstalls
  <2>. QED BY <1>1, <1>8, Installs, Abandons
<1>9. CASE Replaced \/ StopBegins \/ DrainWhileWaiting
  <2>1. verdict' = verdict
    BY <1>9 DEF Replaced, StopBegins, DrainWhileWaiting
  <2>. QED BY <1>2, <1>9, <2>1, ReplacedInv, StopBeginsInv, Drains
<1>10. CASE StopReports
  <2>1. Pending \in Seq(Saves) /\ Pending' = <<>> /\ Pending = Pending \o Pending'
    BY <1>10, StopReportsInv, InLine, Lines DEF IInv
  <2>. QED BY <1>1, <1>10, <2>1, StopReportsInv, Answers
<1>11. ASSUME NEW r \in Roles, Worker(r) PROVE UNCHANGED Service!svars
  BY <1>2, <1>11, WorkerInv
<1>12. CASE Library
  <2>1. verdict' = verdict
    BY <1>12 DEF Library, LibraryRename, LibraryDelete, Pipeline, Controller
  <2>. QED BY <1>2, <1>12, <2>1, Renames, Deletes DEF Library
<1>13. CASE Kill
  BY <1>1, <1>13, Dies, Abandons
<1>14. CASE UNCHANGED vars
  BY <1>2, <1>14, Stutters
<1>. QED BY <1>4, <1>5, <1>6, <1>7, <1>8, <1>9, <1>10, <1>11, <1>12, <1>13, <1>14 DEF Next, Proceed

(* A request is refused or accepted, and the accepted ones are answered once,   *)
(* in order, or given up all together.                                        *)
THEOREM PipelineServes == Spec => ServiceKept
<1>1. Init => Service!Init
  <2>. SUFFICES ASSUME Init PROVE Service!Init
    OBVIOUS
  <2>1. Pending = <<>>
    BY NoWorkerFacts, EmptyFacts, EmptySeq, Lines DEF Init, Pending, Roles
  <2>. QED BY <2>1 DEF Init, Service!Init
<1>. QED BY <1>1, ServiceStep, Invariance, PTL DEF Spec, ServiceKept, Service!Spec
=============================================================================
