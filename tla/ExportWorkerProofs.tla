-------------------------- MODULE ExportWorkerProofs --------------------------
(* Proofs about the export queue and its worker: for any queue limit and any   *)
(* number of jobs, workers and panics.                                         *)
EXTENDS ExportWorker, SequenceTheorems, FiniteSetTheorems, TLAPS

-----------------------------------------------------------------------------
(* Sequences.                                                                  *)

LEMMA Elements ==
    ASSUME NEW S, NEW a \in Seq(S)
    PROVE  /\ DOMAIN a = 1..Len(a) /\ Len(a) \in Nat
           /\ ToSet(a) = {a[i] : i \in 1..Len(a)} /\ ToSet(a) \subseteq S
           /\ \A i \in 1..Len(a) : a[i] \in S
BY LenProperties, ElementOfSeq DEF ToSet

\* Taking out the one place where an element stands closes the gap behind it.
LEMMA RemoveFirstOf ==
    ASSUME NEW S, NEW a \in Seq(S), NEW p \in 1..Len(a),
           \A i \in 1..Len(a) : a[i] = a[p] => i = p
    PROVE  /\ RemoveFirst(a, a[p]) \in Seq(S)
           /\ Len(RemoveFirst(a, a[p])) = Len(a) - 1
           /\ \A i \in 1..Len(a) - 1 : RemoveFirst(a, a[p])[i] = IF i < p THEN a[i] ELSE a[i + 1]
<1>. DEFINE left == SubSeq(a, 1, p - 1)
            right == SubSeq(a, p + 1, Len(a))
<1>1. Len(a) \in Nat /\ DOMAIN a = 1..Len(a) /\ \A i \in 1..Len(a) : a[i] \in S
  BY Elements
<1>2. {i \in 1..Len(a) : a[i] = a[p]} = {p}
  OBVIOUS
<1>3. Min({p}) = p
  BY <1>1 DEF Min
<1>4. RemoveFirst(a, a[p]) = left \o right
  BY <1>2, <1>3 DEF RemoveFirst, RemoveAt, SelectInSeq
<1>5. left \in Seq(S) /\ Len(left) = p - 1 /\ \A i \in 1..p - 1 : left[i] = a[i]
  BY <1>1, SubSeqProperties
<1>6. right \in Seq(S) /\ Len(right) = Len(a) - p /\ \A i \in 1..Len(a) - p : right[i] = a[p + i]
  <2>1. p + 1 \in Int /\ Len(a) \in Int /\ \A i \in p + 1..Len(a) : a[i] \in S
    BY <1>1
  <2>2. /\ right \in Seq(S) /\ Len(right) = IF p + 1 <= Len(a) THEN Len(a) - (p + 1) + 1 ELSE 0
        /\ \A i \in 1..Len(a) - (p + 1) + 1 : right[i] = a[p + 1 + i - 1]
    BY <2>1, SubSeqProperties
  <2>3. Len(a) - (p + 1) + 1 = Len(a) - p /\ \A i \in 1..Len(a) - p : p + 1 + i - 1 = p + i
    BY <1>1
  <2>. HIDE DEF right
  <2>4. Len(right) = Len(a) - p
    <3>1. Len(right) = IF p + 1 <= Len(a) THEN Len(a) - (p + 1) + 1 ELSE 0
      BY <2>2
    <3>2. p \in Int /\ p <= Len(a) /\ Len(a) \in Int
      BY <1>1
    <3>3. CASE p + 1 <= Len(a)
      BY <3>1, <3>2, <3>3
    <3>4. CASE ~ (p + 1 <= Len(a))
      <4>1. Len(right) = 0 /\ p = Len(a)
        BY <3>1, <3>2, <3>4
      <4>. QED BY <3>2, <4>1
    <3>. QED BY <3>3, <3>4
  <2>. QED BY <2>2, <2>3, <2>4
<1>. HIDE DEF left, right
<1>7. /\ left \o right \in Seq(S) /\ Len(left \o right) = Len(left) + Len(right)
      /\ \A i \in 1..Len(left) + Len(right) : (left \o right)[i] =
             IF i <= Len(left) THEN left[i] ELSE right[i - Len(left)]
  BY <1>5, <1>6, ConcatProperties
<1>8. ASSUME NEW i \in 1..Len(a) - 1
      PROVE  (left \o right)[i] = IF i < p THEN a[i] ELSE a[i + 1]
  <2>1. CASE i < p
    BY <1>1, <1>5, <1>6, <1>7, <2>1
  <2>2. CASE ~ (i < p)
    <3>1. i - Len(left) \in 1..Len(a) - p /\ i - Len(left) = i - p + 1
      BY <1>1, <1>5, <2>2
    <3>2. (left \o right)[i] = right[i - Len(left)]
      BY <1>1, <1>5, <1>6, <1>7, <2>2
    <3>3. p + (i - Len(left)) = i + 1
      BY <1>1, <1>5
    <3>. QED BY <1>6, <2>2, <3>1, <3>2, <3>3
  <2>. QED BY <2>1, <2>2
<1>. QED BY <1>1, <1>4, <1>5, <1>6, <1>7, <1>8

-----------------------------------------------------------------------------
(* The queue.                                                                  *)

Rising(a) == \A i, k \in 1..Len(a) : i < k => a[i] < a[k]

\* QueueSound without the concatenation of States.
Sound(s) ==
    /\ s \in QueueType
    /\ s.active = None => s.pending = <<>>
    /\ Len(s.pending) <= PendingLimit
    /\ Live(s) = ToSet(s.pending) \cup ({s.active} \ {None})
    /\ Rising(s.pending)
    /\ \A i \in 1..Len(s.pending) : s.active < s.pending[i]

\* Ids are handed out from 1 upwards, and whoever is pending when he is asked to
\* stop is over at once.
Orderly(s) ==
    /\ \E n \in 0..MaxJobs : \A j \in Jobs : s.outcome[j] = "none" <=> n < j
    /\ \A j \in s.tokens : s.outcome[j] \in Ends \/ s.active = j

LEMMA RiseTogether ==
    ASSUME NEW a \in Seq(Jobs), Rising(a), NEW i \in 1..Len(a), NEW k \in 1..Len(a), a[i] = a[k]
    PROVE  i = k
<1>1. a[i] \in Nat /\ a[k] \in Nat /\ i \in Nat /\ k \in Nat
  <2>1. Len(a) \in Nat /\ a[i] \in Jobs /\ a[k] \in Jobs
    BY Elements
  <2>. QED BY <2>1, MaxJobsAssumption DEF Jobs
<1>2. (i < k => a[i] < a[k]) /\ (k < i => a[k] < a[i])
  BY DEF Rising
<1>. QED BY <1>1, <1>2

LEMMA StatesOf ==
    ASSUME NEW s, s \in QueueType
    PROVE  /\ States(s) \in Seq(Jobs)
           /\ s.active = None => States(s) = s.pending
           /\ s.active # None =>
                /\ Len(States(s)) = Len(s.pending) + 1
                /\ States(s)[1] = s.active
                /\ \A i \in 1..Len(s.pending) : States(s)[i + 1] = s.pending[i]
                /\ ToSet(States(s)) = ToSet(s.pending) \cup {s.active}
<1>1. s.pending \in Seq(Jobs) /\ s.active \in Jobs \cup {None} /\ Len(s.pending) \in Nat
  BY Elements DEF QueueType
<1>2. CASE s.active = None
  BY <1>1, <1>2, ConcatEmptySeq DEF States
<1>3. CASE s.active # None
  <2>1. /\ States(s) = <<s.active>> \o s.pending /\ <<s.active>> \in Seq(Jobs)
        /\ Len(<<s.active>>) = 1 /\ <<s.active>>[1] = s.active
    BY <1>1, <1>3 DEF States
  <2>. DEFINE a == <<s.active>>
  <2>. HIDE DEF a
  <2>2. /\ a \o s.pending \in Seq(Jobs) /\ Len(a \o s.pending) = Len(a) + Len(s.pending)
        /\ \A i \in 1..Len(a) + Len(s.pending) :
             (a \o s.pending)[i] = IF i <= Len(a) THEN a[i] ELSE s.pending[i - Len(a)]
    BY <1>1, <2>1, ConcatProperties DEF a
  <2>3. /\ States(s) \in Seq(Jobs) /\ Len(States(s)) = Len(s.pending) + 1
        /\ \A i \in 1..Len(s.pending) + 1 :
             States(s)[i] = IF i <= 1 THEN s.active ELSE s.pending[i - 1]
    BY <1>1, <2>1, <2>2 DEF a
  <2>4. States(s)[1] = s.active /\ \A i \in 1..Len(s.pending) : States(s)[i + 1] = s.pending[i]
    BY <1>1, <2>3
  <2>5. /\ ToSet(States(s)) = {States(s)[i] : i \in 1..Len(s.pending) + 1}
        /\ ToSet(s.pending) = {s.pending[i] : i \in 1..Len(s.pending)}
    BY <1>1, <2>3, Elements
  <2>6. ASSUME NEW i \in 1..Len(s.pending) + 1 PROVE States(s)[i] \in ToSet(s.pending) \cup {s.active}
    <3>1. CASE i = 1
      BY <2>4, <3>1
    <3>2. CASE i # 1
      <4>1. i - 1 \in 1..Len(s.pending) /\ States(s)[i] = s.pending[i - 1]
        BY <1>1, <2>3, <3>2
      <4>. QED BY <2>5, <4>1
    <3>. QED BY <3>1, <3>2
  <2>7. ASSUME NEW i \in 1..Len(s.pending) PROVE s.pending[i] \in ToSet(States(s))
    <3>1. i + 1 \in 1..Len(s.pending) + 1
      BY <1>1
    <3>. QED BY <2>4, <2>5, <3>1
  <2>8. s.active \in ToSet(States(s))
    <3>1. 1 \in 1..Len(s.pending) + 1
      BY <1>1
    <3>. QED BY <2>4, <2>5, <3>1
  <2>9. ToSet(States(s)) = ToSet(s.pending) \cup {s.active}
    BY <2>5, <2>6, <2>7, <2>8
  <2>. QED BY <1>3, <2>3, <2>4, <2>9
<1>. QED BY <1>2, <1>3

LEMMA SoundIsQueueSound ==
    ASSUME NEW s
    PROVE  QueueSound(s) <=> Sound(s)
<1>. SUFFICES ASSUME s \in QueueType, s.active = None => s.pending = <<>>
              PROVE  (ToSet(States(s)) = Live(s) /\ Rising(States(s))) <=>
                     /\ Live(s) = ToSet(s.pending) \cup ({s.active} \ {None})
                     /\ Rising(s.pending)
                     /\ \A i \in 1..Len(s.pending) : s.active < s.pending[i]
  <2>1. s \in QueueType => DOMAIN States(s) = 1..Len(States(s))
    BY StatesOf, Elements
  <2>. QED BY <2>1 DEF QueueSound, Sound, Rising
<1>1. s.pending \in Seq(Jobs) /\ s.active \in Jobs \cup {None} /\ Len(s.pending) \in Nat
  BY Elements DEF QueueType
<1>2. CASE s.active = None
  <2>1. States(s) = s.pending /\ Len(s.pending) = 0
    BY <1>2, StatesOf
  <2>2. \A i \in 1..Len(s.pending) : FALSE
    BY <2>1
  <2>. QED BY <1>2, <2>1, <2>2
<1>3. CASE s.active # None
  <2>1. ToSet(States(s)) = ToSet(s.pending) \cup ({s.active} \ {None})
    BY <1>3, StatesOf
  <2>2. /\ Len(States(s)) = Len(s.pending) + 1 /\ States(s)[1] = s.active
        /\ \A i \in 1..Len(s.pending) : States(s)[i + 1] = s.pending[i]
    BY <1>3, StatesOf
  <2>3. ASSUME Rising(States(s)) PROVE Rising(s.pending)
    <3>. SUFFICES ASSUME NEW i \in 1..Len(s.pending), NEW k \in 1..Len(s.pending), i < k
                  PROVE  s.pending[i] < s.pending[k]
      BY DEF Rising
    <3>1. i + 1 \in 1..Len(States(s)) /\ k + 1 \in 1..Len(States(s)) /\ i + 1 < k + 1
      BY <1>1, <2>2
    <3>. QED BY <2>2, <2>3, <3>1 DEF Rising
  <2>4. ASSUME Rising(States(s)), NEW i \in 1..Len(s.pending) PROVE s.active < s.pending[i]
    <3>1. 1 \in 1..Len(States(s)) /\ i + 1 \in 1..Len(States(s)) /\ 1 < i + 1
      BY <1>1, <2>2
    <3>. QED BY <2>2, <2>4, <3>1 DEF Rising
  <2>5. ASSUME Rising(s.pending), \A i \in 1..Len(s.pending) : s.active < s.pending[i]
        PROVE  Rising(States(s))
    <3>. SUFFICES ASSUME NEW i \in 1..Len(States(s)), NEW k \in 1..Len(States(s)), i < k
                  PROVE  States(s)[i] < States(s)[k]
      BY DEF Rising
    <3>1. k - 1 \in 1..Len(s.pending) /\ (k - 1) + 1 = k
      BY <1>1, <2>2
    <3>2. States(s)[k] = s.pending[k - 1]
      BY <2>2, <3>1
    <3>3. CASE i = 1
      BY <2>2, <2>5, <3>1, <3>2, <3>3
    <3>4. CASE i # 1
      <4>1. i - 1 \in 1..Len(s.pending) /\ (i - 1) + 1 = i /\ i - 1 < k - 1
        BY <1>1, <2>2, <3>4
      <4>2. States(s)[i] = s.pending[i - 1]
        BY <2>2, <4>1
      <4>. QED BY <2>5, <3>1, <3>2, <4>1, <4>2 DEF Rising
    <3>. QED BY <3>3, <3>4
  <2>. QED BY <2>1, <2>3, <2>4, <2>5
<1>. QED BY <1>2, <1>3

\* What no operator undoes: requests stand, and what is over stays over as it is.
Advance(s, r) ==
    /\ Sound(r) /\ Orderly(r)
    /\ s.tokens \subseteq r.tokens
    /\ \A j \in Jobs : s.outcome[j] \in Ends => r.outcome[j] = s.outcome[j]
    /\ \A j \in Jobs : s.outcome[j] = "accepted" => r.outcome[j] \in {"accepted"} \cup Ends

LEMMA QueueParts ==
    ASSUME NEW s, Sound(s)
    PROVE  /\ s = [active |-> s.active, pending |-> s.pending, tokens |-> s.tokens, outcome |-> s.outcome]
           /\ s.active \in Jobs \cup {None} /\ s.pending \in Seq(Jobs) /\ s.tokens \subseteq Jobs
           /\ s.outcome \in [Jobs -> {"none", "accepted"} \cup Ends]
           /\ Len(s.pending) \in Nat /\ \A i \in 1..Len(s.pending) : s.pending[i] \in Jobs
           /\ \A j \in Jobs : s.outcome[j] = "accepted" <=> j \in ToSet(s.pending) \/ j = s.active
           /\ \A i \in 1..Len(s.pending) : s.pending[i] # s.active /\ s.pending[i] \in ToSet(s.pending)
           /\ None \notin Jobs
<1>1. s \in QueueType /\ Live(s) = ToSet(s.pending) \cup ({s.active} \ {None})
  BY DEF Sound
<1>2. /\ s = [active |-> s.active, pending |-> s.pending, tokens |-> s.tokens, outcome |-> s.outcome]
      /\ s.active \in Jobs \cup {None} /\ s.pending \in Seq(Jobs) /\ s.tokens \subseteq Jobs
      /\ s.outcome \in [Jobs -> {"none", "accepted"} \cup Ends]
  BY <1>1 DEF QueueType
<1>3. /\ Len(s.pending) \in Nat /\ \A i \in 1..Len(s.pending) : s.pending[i] \in Jobs
      /\ ToSet(s.pending) = {s.pending[i] : i \in 1..Len(s.pending)}
  BY <1>2, Elements
<1>4. None \notin Jobs
  BY MaxJobsAssumption DEF None, Jobs
<1>5. \A j \in Jobs : s.outcome[j] = "accepted" <=> j \in ToSet(s.pending) \/ j = s.active
  BY <1>1, <1>4 DEF Live
<1>6. ASSUME NEW i \in 1..Len(s.pending) PROVE s.pending[i] # s.active
  <2>1. s.active < s.pending[i] /\ s.pending[i] \in Int
    BY <1>3, MaxJobsAssumption DEF Sound, Jobs
  <2>. QED BY <2>1
<1>. QED BY <1>2, <1>3, <1>4, <1>5, <1>6

LEMMA SubmittedSound ==
    ASSUME NEW s, Sound(s), Orderly(s), Accepts(s)
    PROVE  /\ Advance(s, Submitted(s))
           /\ NextId(s) \in Jobs /\ s.outcome[NextId(s)] = "none"
           /\ Submitted(s).tokens = s.tokens
           /\ Submitted(s).active = IF s.active = None THEN NextId(s) ELSE s.active
           /\ Submitted(s).outcome = [s.outcome EXCEPT ![NextId(s)] = "accepted"]
<1>. DEFINE n == NextId(s)
            r == Submitted(s)
<1>1. PICK m \in 0..MaxJobs : \A j \in Jobs : s.outcome[j] = "none" <=> m < j
  BY DEF Orderly
<1>2. m + 1 \in Jobs /\ m \in Nat /\ MaxJobs \in Nat
  BY <1>1, MaxJobsAssumption DEF Accepts, Jobs
<1>3. n = m + 1
  <2>1. s.outcome[m + 1] = "none" /\ \A k \in 1..(m + 1) - 1 : s.outcome[k] # "none"
    BY <1>1, <1>2 DEF Jobs
  <2>2. ASSUME NEW j \in Jobs, s.outcome[j] = "none", \A k \in 1..j - 1 : s.outcome[k] # "none"
        PROVE  j = m + 1
    <3>1. j \in Nat /\ m < j
      BY <1>1, <1>2, <2>2 DEF Jobs
    <3>2. m + 1 < j => m + 1 \in 1..j - 1
      BY <1>2, <3>1
    <3>. QED BY <1>2, <2>1, <2>2, <3>1, <3>2
  <2>. QED BY <1>2, <2>1, <2>2 DEF NextId
<1>4. n \in Jobs /\ s.outcome[n] = "none" /\ n # None
  BY <1>1, <1>2, <1>3 DEF None
<1>. HIDE DEF n
<1>5. r = [active |-> IF s.active = None THEN n ELSE s.active,
           pending |-> IF s.active = None THEN s.pending ELSE Append(s.pending, n),
           tokens |-> s.tokens, outcome |-> [s.outcome EXCEPT ![n] = "accepted"]]
  <2>1. /\ s = [active |-> s.active, pending |-> s.pending, tokens |-> s.tokens, outcome |-> s.outcome]
        /\ s.outcome \in [Jobs -> {"none", "accepted"} \cup Ends]
    BY QueueParts
  <2>2. r = [s EXCEPT !.outcome = [s.outcome EXCEPT ![n] = "accepted"],
                      !.active = IF s.active = None THEN n ELSE s.active,
                      !.pending = IF s.active = None THEN s.pending ELSE Append(s.pending, n)]
    BY <2>1 DEF Submitted, n
  <2>. QED BY <2>1, <2>2
<1>. HIDE DEF r
<1>6. \A j \in Jobs : r.outcome[j] = IF j = n THEN "accepted" ELSE s.outcome[j]
  BY <1>5, QueueParts
<1>7. Live(r) = Live(s) \cup {n} /\ n \notin Live(s)
  BY <1>4, <1>6 DEF Live
<1>8. \A j \in Live(s) : j < n
  BY <1>1, <1>2, <1>3 DEF Live, Jobs
<1>9. Orderly(r)
  <2>1. \A j \in Jobs : r.outcome[j] = "none" <=> m + 1 < j
    BY <1>1, <1>2, <1>3, <1>6 DEF Jobs
  <2>2. m + 1 \in 0..MaxJobs
    BY <1>2 DEF Jobs
  <2>3. \A j \in r.tokens : r.outcome[j] \in Ends \/ r.active = j
    BY <1>4, <1>5, <1>6, QueueParts DEF Orderly, Ends
  <2>. QED BY <2>1, <2>2, <2>3 DEF Orderly
<1>10. Sound(r)
  <2>1. CASE s.active = None
    <3>1. s.pending = <<>> /\ Live(s) = ToSet(s.pending) /\ r.pending = s.pending /\ r.active = n
      BY <1>5, <2>1 DEF Sound
    <3>2. Len(r.pending) = 0
      BY <3>1
    <3>3. r \in QueueType
      BY <1>4, <1>5, <2>1, QueueParts DEF QueueType, Ends
    <3>4. Rising(r.pending) /\ \A i \in 1..Len(r.pending) : r.active < r.pending[i]
      BY <3>2 DEF Rising
    <3>5. Live(r) = ToSet(r.pending) \cup ({r.active} \ {None})
      BY <1>4, <1>7, <3>1
    <3>. QED BY <3>1, <3>2, <3>3, <3>4, <3>5, PendingLimitAssumption DEF Sound
  <2>2. CASE s.active # None
    <3>. DEFINE a == s.pending
                b == Append(a, n)
    <3>1. a \in Seq(Jobs) /\ Len(a) \in Nat /\ s.active \in Jobs
      BY <2>2, QueueParts
    <3>2. /\ b \in Seq(Jobs) /\ Len(b) = Len(a) + 1
          /\ (\A i \in 1..Len(a) : b[i] = a[i]) /\ b[Len(a) + 1] = n
      BY <1>4, <3>1, AppendProperties
    <3>3. r.pending = b /\ r.active = s.active
      BY <1>5, <2>2
    <3>. HIDE DEF b
    <3>4. r \in QueueType
      BY <1>4, <1>5, <2>2, <3>2, <3>3, QueueParts DEF QueueType, Ends
    <3>5. 1..Len(b) = (1..Len(a)) \cup {Len(a) + 1}
      BY <3>1, <3>2
    <3>6. ToSet(b) = {b[i] : i \in 1..Len(b)} /\ ToSet(a) = {a[i] : i \in 1..Len(a)}
      BY <3>1, <3>2, Elements
    <3>7. ToSet(b) = ToSet(a) \cup {n}
      BY SMTT(30), <3>2, <3>5, <3>6
    <3>8. Live(r) = ToSet(r.pending) \cup ({r.active} \ {None})
      BY <1>7, <3>3, <3>7 DEF Sound
    <3>9. Len(r.pending) <= PendingLimit
      BY <2>2, <3>1, <3>2, <3>3, PendingLimitAssumption DEF Accepts
    <3>10. \A i \in 1..Len(a) : a[i] < n
      BY <1>8, QueueParts DEF Sound
    <3>11. s.active < n
      BY <1>8, <2>2 DEF Sound
    <3>12. Rising(b)
      <4>. SUFFICES ASSUME NEW i \in 1..Len(b), NEW k \in 1..Len(b), i < k
                    PROVE  b[i] < b[k]
        BY DEF Rising
      <4>1. i \in 1..Len(a) /\ b[i] = a[i]
        BY <3>1, <3>2
      <4>2. CASE k = Len(a) + 1
        BY <3>2, <3>10, <4>1, <4>2
      <4>3. CASE k # Len(a) + 1
        <5>1. k \in 1..Len(a) /\ b[k] = a[k]
          BY <3>1, <3>2, <4>3
        <5>. QED BY <4>1, <5>1 DEF Sound, Rising
      <4>. QED BY <4>2, <4>3
    <3>13. \A i \in 1..Len(b) : s.active < b[i]
      BY <3>2, <3>5, <3>11 DEF Sound
    <3>. QED BY <2>2, <3>3, <3>4, <3>8, <3>9, <3>12, <3>13 DEF Sound
  <2>. QED BY <2>1, <2>2
<1>11. r.tokens = s.tokens
  BY <1>5
<1>12. \A j \in Jobs : /\ s.outcome[j] \in Ends => r.outcome[j] = s.outcome[j]
                       /\ s.outcome[j] = "accepted" => r.outcome[j] = "accepted"
  BY <1>4, <1>6 DEF Ends
<1>13. Advance(s, r)
  BY <1>9, <1>10, <1>11, <1>12 DEF Advance
<1>. QED BY <1>4, <1>5, <1>13 DEF n, r

LEMMA EndedSound ==
    ASSUME NEW s, Sound(s), Orderly(s), NEW j \in Jobs, s.active = j, NEW end \in Ends
    PROVE  /\ Advance(s, Ended(s, j, end))
           /\ Ended(s, j, end).tokens = s.tokens
           /\ Ended(s, j, end).outcome = [s.outcome EXCEPT ![j] = end]
<1>. DEFINE r == Ended(s, j, end)
            a == s.pending
<1>1. r = [active |-> IF a = <<>> THEN None ELSE Head(a), pending |-> IF a = <<>> THEN <<>> ELSE Tail(a),
           tokens |-> s.tokens, outcome |-> [s.outcome EXCEPT ![j] = end]]
  <2>1. /\ s = [active |-> s.active, pending |-> s.pending, tokens |-> s.tokens, outcome |-> s.outcome]
        /\ s.outcome \in [Jobs -> {"none", "accepted"} \cup Ends]
    BY QueueParts
  <2>2. r = [s EXCEPT !.outcome = [s.outcome EXCEPT ![j] = end],
                      !.active = IF a = <<>> THEN None ELSE Head(a),
                      !.pending = IF a = <<>> THEN <<>> ELSE Tail(a)]
    BY <2>1 DEF Ended
  <2>. QED BY <2>1, <2>2
<1>. HIDE DEF r
<1>2. \A k \in Jobs : r.outcome[k] = IF k = j THEN end ELSE s.outcome[k]
  BY <1>1, QueueParts
<1>3. s.outcome[j] = "accepted" /\ j # None
  BY QueueParts
<1>4. Live(r) = Live(s) \ {j}
  BY <1>2, <1>3 DEF Live, Ends
<1>5. Live(s) = ToSet(a) \cup {j} /\ j \notin ToSet(a)
  <2>1. ToSet(a) = {a[i] : i \in 1..Len(a)}
    BY QueueParts, Elements
  <2>. QED BY <1>3, <2>1, QueueParts DEF Sound
<1>6. Orderly(r)
  <2>1. PICK m \in 0..MaxJobs : \A k \in Jobs : s.outcome[k] = "none" <=> m < k
    BY DEF Orderly
  <2>2. \A k \in Jobs : r.outcome[k] = "none" <=> m < k
    BY <1>2, <1>3, <2>1 DEF Ends
  <2>3. \A k \in r.tokens : r.outcome[k] \in Ends
    BY <1>1, <1>2, QueueParts DEF Orderly
  <2>. QED BY <2>1, <2>2, <2>3 DEF Orderly
<1>7. Sound(r)
  <2>1. CASE a = <<>>
    <3>1. r.active = None /\ r.pending = <<>> /\ Len(r.pending) = 0
      BY <1>1, <2>1
    <3>2. r \in QueueType
      BY <1>1, <2>1, QueueParts DEF QueueType
    <3>3. Rising(r.pending) /\ \A i \in 1..Len(r.pending) : r.active < r.pending[i]
      BY <3>1 DEF Rising
    <3>4. Live(r) = ToSet(r.pending) \cup ({r.active} \ {None})
      BY <1>4, <1>5, <2>1, <3>1
    <3>. QED BY <3>1, <3>2, <3>3, <3>4, PendingLimitAssumption DEF Sound
  <2>2. CASE a # <<>>
    <3>. DEFINE b == Tail(a)
    <3>1. /\ a \in Seq(Jobs) /\ Len(a) \in Nat /\ a # <<>> /\ Rising(a) /\ Len(a) <= PendingLimit
          /\ Len(a) # 0
      BY <2>2, QueueParts, EmptySeq DEF Sound
    <3>2. /\ Head(a) \in Jobs /\ b \in Seq(Jobs) /\ Len(b) = Len(a) - 1 /\ Head(a) = a[1]
          /\ \A i \in 1..Len(b) : b[i] = a[i + 1]
      BY <3>1, HeadTailProperties
    <3>3. r.active = a[1] /\ r.pending = b
      BY <1>1, <2>2, <3>2
    <3>4. r \in QueueType
      BY <1>1, <2>2, <3>2, QueueParts DEF QueueType
    <3>. HIDE DEF b
    <3>5. ToSet(b) = {b[i] : i \in 1..Len(b)} /\ ToSet(a) = {a[i] : i \in 1..Len(a)}
      BY <3>1, <3>2, Elements
    <3>6. ASSUME NEW i \in 1..Len(a) PROVE a[i] \in ToSet(b) \cup {a[1]}
      <4>1. CASE i = 1
        BY <4>1
      <4>2. CASE i # 1
        <5>1. i - 1 \in 1..Len(b) /\ (i - 1) + 1 = i
          BY <3>1, <3>2, <4>2
        <5>2. a[i] = b[i - 1]
          BY <3>2, <5>1
        <5>. QED BY <3>5, <5>1, <5>2
      <4>. QED BY <4>1, <4>2
    <3>7. ASSUME NEW i \in 1..Len(b) PROVE b[i] \in ToSet(a) /\ a[1] < b[i]
      <4>1. i + 1 \in 1..Len(a) /\ 1 \in 1..Len(a) /\ 1 < i + 1 /\ b[i] = a[i + 1]
        BY <3>1, <3>2
      <4>. QED BY <3>1, <3>5, <4>1 DEF Rising
    <3>8. a[1] \in ToSet(a)
      <4>1. 1 \in 1..Len(a)
        BY <3>1
      <4>. QED BY <3>5, <4>1
    <3>9. ToSet(a) = ToSet(b) \cup {a[1]}
      BY <3>5, <3>6, <3>7, <3>8
    <3>10. Live(r) = ToSet(r.pending) \cup ({r.active} \ {None})
      BY <1>4, <1>5, <3>2, <3>3, <3>9, QueueParts
    <3>11. Rising(b)
      <4>. SUFFICES ASSUME NEW i \in 1..Len(b), NEW k \in 1..Len(b), i < k
                    PROVE  b[i] < b[k]
        BY DEF Rising
      <4>1. i + 1 \in 1..Len(a) /\ k + 1 \in 1..Len(a) /\ i + 1 < k + 1
        BY <3>1, <3>2
      <4>. QED BY <3>1, <3>2, <4>1 DEF Rising
    <3>12. Len(b) <= PendingLimit /\ r.active # None
      BY <3>1, <3>2, <3>3, QueueParts, PendingLimitAssumption
    <3>. QED BY <3>3, <3>4, <3>7, <3>10, <3>11, <3>12 DEF Sound
  <2>. QED BY <2>1, <2>2
<1>8. \A k \in Jobs : s.outcome[k] \in Ends => r.outcome[k] = s.outcome[k]
  BY <1>2, <1>3 DEF Ends
<1>9. \A k \in Jobs : s.outcome[k] = "accepted" => r.outcome[k] \in {"accepted"} \cup Ends
  BY <1>2
<1>10. Advance(s, r)
  BY <1>1, <1>6, <1>7, <1>8, <1>9 DEF Advance
<1>. QED BY <1>1, <1>10 DEF r

LEMMA Staying ==
    ASSUME NEW s, Sound(s), Orderly(s)
    PROVE  Advance(s, s)
BY DEF Advance

LEMMA CompletedSound ==
    ASSUME NEW s, Sound(s), Orderly(s), NEW j \in Jobs
    PROVE  /\ Advance(s, Completed(s, j)) /\ Completed(s, j).tokens = s.tokens
           /\ IF s.active = j /\ j \notin s.tokens
              THEN Completed(s, j).outcome = [s.outcome EXCEPT ![j] = "completed"]
              ELSE Completed(s, j) = s
<1>1. CASE s.active = j /\ j \notin s.tokens
  BY <1>1, EndedSound DEF Completed, Requested, Ends
<1>2. CASE ~ (s.active = j /\ j \notin s.tokens)
  BY <1>2, Staying DEF Completed, Requested
<1>. QED BY <1>1, <1>2

LEMMA FailedSound ==
    ASSUME NEW s, Sound(s), Orderly(s), NEW j \in Jobs
    PROVE  /\ Advance(s, Failed(s, j)) /\ Failed(s, j).tokens = s.tokens
           /\ IF s.active = j /\ j \notin s.tokens
              THEN Failed(s, j).outcome = [s.outcome EXCEPT ![j] = "failed"]
              ELSE Failed(s, j) = s
<1>1. CASE s.active = j /\ j \notin s.tokens
  BY <1>1, EndedSound DEF Failed, Requested, Ends
<1>2. CASE ~ (s.active = j /\ j \notin s.tokens)
  BY <1>2, Staying DEF Failed, Requested
<1>. QED BY <1>1, <1>2

LEMMA FinishedCancelledSound ==
    ASSUME NEW s, Sound(s), Orderly(s), NEW j \in Jobs
    PROVE  /\ Advance(s, FinishedCancelled(s, j)) /\ FinishedCancelled(s, j).tokens = s.tokens
           /\ IF s.active = j /\ j \in s.tokens
              THEN FinishedCancelled(s, j).outcome = [s.outcome EXCEPT ![j] = "cancelled"]
              ELSE FinishedCancelled(s, j) = s
<1>1. CASE s.active = j /\ j \in s.tokens
  BY <1>1, EndedSound DEF FinishedCancelled, Requested, Ends
<1>2. CASE ~ (s.active = j /\ j \in s.tokens)
  BY <1>2, Staying DEF FinishedCancelled, Requested
<1>. QED BY <1>1, <1>2

LEMMA CancelledSound ==
    ASSUME NEW s, Sound(s), Orderly(s), NEW j \in Jobs
    PROVE  /\ Advance(s, Cancelled(s, j))
           /\ Cancelled(s, j).active = s.active
           /\ Cancelled(s, j).tokens \subseteq s.tokens \cup {j}
           /\ \A k \in Jobs : k # j => Cancelled(s, j).outcome[k] = s.outcome[k]
           /\ s.outcome[j] = "accepted" => j \in Cancelled(s, j).tokens
           /\ s.outcome[j] # "accepted" => Cancelled(s, j) = s
           /\ s.outcome[j] = "accepted" /\ j # s.active => Cancelled(s, j).outcome[j] = "cancelled"
           /\ j = s.active => Cancelled(s, j).outcome = s.outcome
<1>. DEFINE r == Cancelled(s, j)
            a == s.pending
<1>1. CASE s.active = j
  <2>1. r = [active |-> s.active, pending |-> s.pending, tokens |-> s.tokens \cup {j}, outcome |-> s.outcome]
    <3>1. s = [active |-> s.active, pending |-> s.pending, tokens |-> s.tokens, outcome |-> s.outcome]
      BY QueueParts
    <3>2. j \notin ToSet(a)
      <4>1. ToSet(a) = {a[i] : i \in 1..Len(a)}
        BY QueueParts, Elements
      <4>. QED BY <1>1, <4>1, QueueParts
    <3>3. r = [s EXCEPT !.tokens = @ \cup {j}]
      BY <1>1, <3>2 DEF Cancelled
    <3>. QED BY <3>1, <3>3
  <2>. HIDE DEF r
  <2>2. Live(r) = Live(s) /\ r \in QueueType
    BY <2>1, QueueParts DEF Live, QueueType
  <2>3. Sound(r)
    BY <2>1, <2>2 DEF Sound
  <2>4. Orderly(r)
    BY <1>1, <2>1 DEF Orderly
  <2>5. Advance(s, r)
    BY <2>1, <2>3, <2>4 DEF Advance
  <2>6. s.outcome[j] = "accepted"
    BY <1>1, QueueParts
  <2>. QED BY <1>1, <2>1, <2>5, <2>6 DEF r
<1>2. CASE s.active # j /\ j \in ToSet(a)
  <2>1. /\ a \in Seq(Jobs) /\ Len(a) \in Nat /\ Rising(a) /\ Len(a) <= PendingLimit
        /\ ToSet(a) = {a[i] : i \in 1..Len(a)}
    BY QueueParts, Elements DEF Sound
  <2>2. PICK p \in 1..Len(a) : a[p] = j
    BY <1>2, <2>1
  <2>3. \A i \in 1..Len(a) : a[i] = a[p] => i = p
    BY <2>1, RiseTogether
  <2>. DEFINE b == RemoveFirst(a, j)
  <2>4. /\ b \in Seq(Jobs) /\ Len(b) = Len(a) - 1
        /\ \A i \in 1..Len(a) - 1 : b[i] = IF i < p THEN a[i] ELSE a[i + 1]
    BY <2>1, <2>2, <2>3, RemoveFirstOf
  <2>. HIDE DEF b
  <2>5. r = [active |-> s.active, pending |-> b, tokens |-> s.tokens \cup {j},
             outcome |-> [s.outcome EXCEPT ![j] = "cancelled"]]
    <3>1. /\ s = [active |-> s.active, pending |-> s.pending, tokens |-> s.tokens, outcome |-> s.outcome]
          /\ s.outcome \in [Jobs -> {"none", "accepted"} \cup Ends]
      BY QueueParts
    <3>2. r = [s EXCEPT !.tokens = s.tokens \cup {j}, !.pending = b,
                        !.outcome = [s.outcome EXCEPT ![j] = "cancelled"]]
      BY <1>2, <3>1 DEF Cancelled, b
    <3>. QED BY <3>1, <3>2
  <2>. HIDE DEF r
  <2>6. \A k \in Jobs : r.outcome[k] = IF k = j THEN "cancelled" ELSE s.outcome[k]
    BY <2>5, QueueParts
  <2>7. s.outcome[j] = "accepted"
    BY <1>2, QueueParts
  <2>8. Live(r) = Live(s) \ {j}
    BY <2>6 DEF Live
  <2>9. Orderly(r)
    <3>1. PICK m \in 0..MaxJobs : \A k \in Jobs : s.outcome[k] = "none" <=> m < k
      BY DEF Orderly
    <3>2. \A k \in Jobs : r.outcome[k] = "none" <=> m < k
      BY <2>6, <2>7, <3>1
    <3>3. \A k \in r.tokens : r.outcome[k] \in Ends \/ r.active = k
      BY <2>5, <2>6, QueueParts DEF Orderly, Ends
    <3>. QED BY <3>1, <3>2, <3>3 DEF Orderly
  <2>10. ToSet(b) = {b[i] : i \in 1..Len(b)}
    BY <2>4, Elements
  <2>11. ASSUME NEW i \in 1..Len(b)
         PROVE  /\ b[i] \in ToSet(a) \ {j} /\ s.active < b[i]
                /\ \E e \in 1..Len(a) : b[i] = a[e] /\ e = IF i < p THEN i ELSE i + 1
    <3>. DEFINE e == IF i < p THEN i ELSE i + 1
    <3>1. e \in 1..Len(a) /\ e # p /\ b[i] = a[e]
      BY <2>1, <2>4
    <3>2. a[e] # j
      BY <2>2, <2>3, <3>1
    <3>3. s.active < a[e] /\ a[e] \in ToSet(a)
      BY <2>1, <3>1 DEF Sound
    <3>. QED BY <3>1, <3>2, <3>3
  <2>12. ASSUME NEW e \in 1..Len(a), a[e] # j PROVE a[e] \in ToSet(b)
    <3>1. CASE e < p
      <4>1. e \in 1..Len(b) /\ b[e] = a[e]
        BY <2>1, <2>4, <3>1
      <4>. QED BY <2>10, <4>1
    <3>2. CASE ~ (e < p)
      <4>1. e - 1 \in 1..Len(b) /\ ~ (e - 1 < p) /\ (e - 1) + 1 = e
        BY <2>1, <2>2, <2>4, <2>12, <3>2
      <4>2. b[e - 1] = a[e]
        BY <2>4, <4>1
      <4>. QED BY <2>10, <4>1, <4>2
    <3>. QED BY <3>1, <3>2
  <2>13. ToSet(b) = ToSet(a) \ {j}
    BY <2>1, <2>10, <2>11, <2>12
  <2>14. Rising(b)
    <3>. SUFFICES ASSUME NEW i \in 1..Len(b), NEW k \in 1..Len(b), i < k
                  PROVE  b[i] < b[k]
      BY DEF Rising
    <3>1. PICK e \in 1..Len(a) : b[i] = a[e] /\ e = IF i < p THEN i ELSE i + 1
      BY <2>11
    <3>2. PICK f \in 1..Len(a) : b[k] = a[f] /\ f = IF k < p THEN k ELSE k + 1
      BY <2>11
    <3>3. e < f
      BY <2>1, <2>4, <3>1, <3>2
    <3>. QED BY <2>1, <3>1, <3>2, <3>3 DEF Rising
  <2>15. r \in QueueType
    BY <2>4, <2>5, QueueParts DEF QueueType, Ends
  <2>16. Live(r) = ToSet(r.pending) \cup ({r.active} \ {None})
    BY <1>2, <2>5, <2>8, <2>13 DEF Sound
  <2>17. r.active # None /\ Len(r.pending) <= PendingLimit
    <3>1. a # <<>>
      BY <2>1, <2>2
    <3>. QED BY <2>1, <2>4, <2>5, <3>1, PendingLimitAssumption DEF Sound
  <2>18. Sound(r)
    BY <2>5, <2>11, <2>14, <2>15, <2>16, <2>17 DEF Sound
  <2>19. \A k \in Jobs : /\ s.outcome[k] \in Ends => r.outcome[k] = s.outcome[k]
                         /\ s.outcome[k] = "accepted" => r.outcome[k] \in {"accepted"} \cup Ends
    BY <2>6, <2>7 DEF Ends
  <2>20. Advance(s, r)
    BY <2>5, <2>9, <2>18, <2>19 DEF Advance
  <2>. QED BY <1>2, <2>5, <2>6, <2>7, <2>20 DEF r
<1>3. CASE s.active # j /\ j \notin ToSet(a)
  <2>1. r = s /\ s.outcome[j] # "accepted"
    BY <1>3, QueueParts DEF Cancelled
  <2>. QED BY <1>3, <2>1, Staying
<1>. QED BY <1>1, <1>2, <1>3

-----------------------------------------------------------------------------
(* The inductive invariant.                                                    *)

Holding == {"export", "publish", "published", "withdraw", "failed", "cancelled"}
Sweeping == {"stop", "sweep", "joining"}

\* Where a worker is says what its owner has left to do and whether there is a thread.
PhaseOf(s) ==
    /\ s.pc \in {"none", "claimed", "running"} => s.passes = 0
    /\ s.pc \in Sweeping \cup {"finish"} => s.passes \in {1, 2}
    /\ s.pc \in {"released", "again"} => s.passes = 1
    /\ s.pc \in {"none", "claimed", "finish", "released", "again"} => s.thread = "none"
    /\ s.pc \notin {"sweep", "finish", "again"} => s.todo = <<>>
    /\ s.pc = "sweep" => \A i \in DOMAIN s.todo : s.todo[i].how = "cancel"
    /\ s.thread \in Holding \cup {"dead"} => s.job \in Jobs

TInv ==
    /\ Sound(q) /\ Orderly(q)
    /\ lease \in BOOLEAN
    /\ worker \in [Workers -> WorkerType]
    /\ calls \in [Workers -> [Jobs -> {"none", "wake", "cancel", "finish"}]]
    /\ file \in [Jobs -> {"none", "published", "left"}]
    /\ owed \in [Workers -> SUBSET Jobs]
    /\ rejected \subseteq Jobs
    /\ starts \in 0 .. MaxWorkers /\ panics \in 0 .. MaxPanics
    /\ \A w \in Workers : PhaseOf(worker[w])

\* One worker at a time, which holds the lease until it has let go of its thread.
Alone ==
    /\ \A v, w \in Workers : worker[v].pc # "none" /\ worker[w].pc # "none" => v = w
    /\ \A w \in Workers : worker[w].pc \notin {"none", "released", "again"} => lease

\* A submit under way keeps its worker from being stopped, and takes a job back only
\* from a dead thread.
Calling ==
    \A w \in Workers, j \in Jobs : calls[w][j] # "none" =>
        /\ worker[w].pc = "running" /\ q.outcome[j] # "none"
        /\ calls[w][j] \in {"cancel", "finish"} => worker[w].thread = "dead"

\* A thread works on the active job and nobody takes it away, unless it has died.
Kept == \A w \in Workers : worker[w].thread \in Holding => q.active = worker[w].job

\* A worker whose thread has died and that is not yet released.
Deserted(w) ==
    \/ worker[w].thread = "dead" /\ worker[w].pc \in Sweeping \cup {"running"}
    \/ worker[w].pc = "finish"

\* A job whose submit failed after all is over before another thread comes to it:
\* its worker has no thread any more, and owes the job an end once it is stopped.
Refused ==
    \A j \in rejected : q.outcome[j] \in Ends \/
        /\ q.outcome[j] = "accepted"
        /\ \E w \in Workers : Deserted(w) /\ (worker[w].pc = "running" \/ j \in owed[w])

\* What lies at the destinations.
Files ==
    /\ \A j \in Jobs : file[j] = "published" =>
         \/ q.outcome[j] = "completed"
         \/ \E w \in Workers : worker[w].thread \in {"published", "withdraw"} /\ worker[w].job = j
    /\ \A w \in Workers : worker[w].thread = "published" => file[worker[w].job] = "published"
    /\ \A j \in Jobs : q.outcome[j] = "completed" => file[j] = "published" /\ j \notin q.tokens

\* How far a stop has come with what it owes: nothing seen yet, on the list, asked
\* to stop and therefore active, first of the last round.
Answered(w, s, j) ==
    \/ q.outcome[j] \in Ends
    \/ /\ q.outcome[j] = "accepted"
       /\ \/ s.pc = "stop"
          \/ s.pc = "sweep" /\ \E i \in DOMAIN s.todo : s.todo[i].job = j
          \/ s.pc \in {"sweep", "joining"} /\ j \in q.tokens
          \/ /\ s.pc = "finish" /\ j \in q.tokens
             /\ s.rounds > 0 \/ (s.todo # <<>> /\ s.todo[1] = [job |-> j, how |-> "finish"])
Owing == \A w \in Workers : \A j \in owed[w] : Answered(w, worker[w], j)

-----------------------------------------------------------------------------
(* Types.                                                                      *)

Entry == [job : Jobs, how : {"cancel", "finish", "fail"}]

LEMMA ToDoOf ==
    ASSUME NEW jobs \in Seq(Jobs), NEW how \in [Jobs -> {"cancel", "finish", "fail"}]
    PROVE  /\ ToDo(jobs, how) \in Seq(Entry) /\ Len(ToDo(jobs, how)) = Len(jobs)
           /\ \A i \in 1..Len(jobs) : /\ ToDo(jobs, how)[i].job = jobs[i]
                                      /\ ToDo(jobs, how)[i].how = how[jobs[i]]
                                      /\ ToDo(jobs, how)[i] = [job |-> jobs[i], how |-> how[jobs[i]]]
<1>1. DOMAIN jobs = 1..Len(jobs) /\ Len(jobs) \in Nat /\ \A i \in 1..Len(jobs) : jobs[i] \in Jobs
  BY Elements
<1>2. ToDo(jobs, how) = [i \in 1..Len(jobs) |-> [job |-> jobs[i], how |-> how[jobs[i]]]]
  BY <1>1 DEF ToDo
<1>3. \A i \in 1..Len(jobs) : [job |-> jobs[i], how |-> how[jobs[i]]] \in Entry
  BY <1>1 DEF Entry
<1>4. ToDo(jobs, how) \in Seq(Entry) /\ Len(ToDo(jobs, how)) = Len(jobs)
  BY <1>1, <1>2, <1>3
<1>. QED BY <1>2, <1>4

LEMMA WorkerParts ==
    ASSUME NEW s, s \in WorkerType
    PROVE  /\ s.todo \in Seq(Entry) /\ s.passes \in 0..2 /\ s.rounds \in 0..2 /\ s.sweep \in Seq(Jobs)
           /\ s.job \in Jobs \cup {None}
           /\ s = [pc |-> s.pc, passes |-> s.passes, todo |-> s.todo, rounds |-> s.rounds,
                   thread |-> s.thread, job |-> s.job, sweep |-> s.sweep]
BY DEF WorkerType, Entry

\* The worker moves on, everything else is typed: the worker part of TInv.
LEMMA WorkerMoves ==
    ASSUME TInv, NEW w \in Workers, NEW s \in WorkerType, PhaseOf(s), Step(w, s)
    PROVE  /\ worker' \in [Workers -> WorkerType]
           /\ \A v \in Workers : PhaseOf(worker'[v])
           /\ \A v \in Workers : worker'[v] = IF v = w THEN s ELSE worker[v]
<1>1. worker \in [Workers -> WorkerType] /\ worker' = [worker EXCEPT ![w] = s]
  BY DEF TInv, Step
<1>2. \A v \in Workers : worker'[v] = IF v = w THEN s ELSE worker[v]
  BY <1>1
<1>. QED BY <1>1, <1>2 DEF TInv

LEMMA NoWorkerFacts ==
    /\ NoWorker \in WorkerType /\ PhaseOf(NoWorker)
    /\ NoWorker.pc = "none" /\ NoWorker.passes = 0 /\ NoWorker.todo = <<>> /\ NoWorker.rounds = 0
    /\ NoWorker.thread = "none" /\ NoWorker.job = None /\ NoWorker.sweep = <<>>
<1>1. NoWorker \in WorkerType
  BY DEF NoWorker, WorkerType, Gone, None
<1>2. PhaseOf(NoWorker)
  BY DEF NoWorker, PhaseOf, Sweeping, Holding
<1>. QED BY <1>1, <1>2 DEF NoWorker

LEMMA TypeInit == Init => TInv
<1>. SUFFICES ASSUME Init PROVE TInv
  OBVIOUS
<1>1. NoWorker \in WorkerType /\ PhaseOf(NoWorker)
  BY NoWorkerFacts
<1>2. /\ q = [active |-> None, pending |-> <<>>, tokens |-> {}, outcome |-> [j \in Jobs |-> "none"]]
      /\ <<>> \in Seq(Jobs) /\ Len(<<>>) = 0
  BY EmptySeq DEF Init, EmptyQueue
<1>3. q \in QueueType /\ Live(q) = {} /\ Rising(q.pending)
  BY <1>2 DEF QueueType, Live, Rising
<1>4. ToSet(q.pending) = {} /\ 1..Len(q.pending) = {}
  <2>1. q.pending \in Seq(Jobs) /\ 1..Len(q.pending) = {}
    BY <1>2
  <2>2. ToSet(q.pending) = {q.pending[i] : i \in 1..Len(q.pending)}
    BY <2>1, Elements
  <2>. QED BY <2>1, <2>2
<1>5. Sound(q)
  <2>1. q.active = None /\ q.pending = <<>> /\ Len(q.pending) <= PendingLimit
    BY <1>2, PendingLimitAssumption
  <2>. QED BY <1>3, <1>4, <2>1 DEF Sound
<1>6. Orderly(q)
  <2>1. \A j \in Jobs : q.outcome[j] = "none" <=> 0 < j
    BY <1>2, MaxJobsAssumption DEF Jobs
  <2>2. 0 \in 0..MaxJobs
    BY MaxJobsAssumption
  <2>. QED BY <1>2, <2>1, <2>2 DEF Orderly
<1>7. starts \in 0..MaxWorkers /\ panics \in 0..MaxPanics
  BY MaxWorkersAssumption, MaxPanicsAssumption DEF Init
<1>. QED BY <1>1, <1>5, <1>6, <1>7 DEF Init, TInv

\* Actions of a worker that leave the queue and the files alone.
LEMMA TypeOwner ==
    ASSUME TInv, NEW w \in Workers,
           Claim(w) \/ Spawn(w) \/ Stop(w) \/ StopSnapshot(w) \/ HangUp(w) \/ Joined(w)
           \/ OrphanSnapshot(w) \/ Release(w) \/ SecondPass(w)
    PROVE  TInv'
<1>. DEFINE s == worker[w]
<1>1. s \in WorkerType /\ PhaseOf(s)
  BY DEF TInv
<1>2. /\ s.todo \in Seq(Entry) /\ s.passes \in 0..2 /\ s.rounds \in 0..2 /\ s.sweep \in Seq(Jobs)
      /\ s.job \in Jobs \cup {None}
      /\ s = [pc |-> s.pc, passes |-> s.passes, todo |-> s.todo, rounds |-> s.rounds,
              thread |-> s.thread, job |-> s.job, sweep |-> s.sweep]
      /\ s.thread \in Gone \cup {"top", "look", "check", "idle", "export", "publish", "published",
                                 "withdraw", "failed", "cancelled"}
  BY <1>1, WorkerParts DEF WorkerType
<1>s. s = [pc |-> s.pc, passes |-> s.passes, todo |-> s.todo, rounds |-> s.rounds,
           thread |-> s.thread, job |-> s.job, sweep |-> s.sweep]
  BY <1>2
<1>3. States(q) \in Seq(Jobs)
  BY StatesOf DEF TInv, Sound
<1>4. ASSUME NEW t \in WorkerType, PhaseOf(t), Step(w, t), OwnerOnly,
             lease' \in BOOLEAN, owed' \in [Workers -> SUBSET Jobs], starts' \in 0..MaxWorkers
      PROVE  TInv'
  <2>1. worker' \in [Workers -> WorkerType] /\ \A v \in Workers : PhaseOf(worker'[v])
    BY <1>4, WorkerMoves
  <2>2. UNCHANGED <<q, calls, file, rejected, panics>>
    BY <1>4 DEF OwnerOnly
  <2>. QED BY <1>4, <2>1, <2>2 DEF TInv
<1>5. /\ lease \in BOOLEAN /\ owed \in [Workers -> SUBSET Jobs] /\ starts \in 0..MaxWorkers
      /\ starts \in Nat /\ \A v \in Workers : v \in 1..MaxWorkers
  BY MaxWorkersAssumption DEF TInv, Workers
<1>. HIDE DEF s
<1>6. CASE Claim(w)
  <2>. DEFINE t == [NoWorker EXCEPT !.pc = "claimed"]
  <2>0. /\ t \in WorkerType
        /\ t.pc = "claimed" /\ t.passes = 0 /\ t.todo = <<>> /\ t.rounds = 0
        /\ t.thread = "none" /\ t.job = None /\ t.sweep = <<>>
    BY NoWorkerFacts DEF WorkerType, Gone
  <2>. HIDE DEF t
  <2>1. t \in WorkerType /\ PhaseOf(t)
    <3>2. PhaseOf(t)
      BY <2>0 DEF PhaseOf, Sweeping, Holding
    <3>. QED BY <2>0, <3>2
  <2>2. starts' \in 0..MaxWorkers
    BY <1>5, <1>6, MaxWorkersAssumption DEF Claim
  <2>. QED BY <1>4, <1>5, <1>6, <2>1, <2>2 DEF Claim, t
<1>7. CASE Spawn(w)
  <2>. DEFINE t == [NoWorker EXCEPT !.pc = "running", !.thread = "top"]
  <2>0. /\ t \in WorkerType
        /\ t.pc = "running" /\ t.passes = 0 /\ t.todo = <<>> /\ t.rounds = 0
        /\ t.thread = "top" /\ t.job = None /\ t.sweep = <<>>
    BY NoWorkerFacts DEF WorkerType, Gone
  <2>. HIDE DEF t
  <2>1. t \in WorkerType /\ PhaseOf(t)
    <3>2. PhaseOf(t)
      BY <2>0 DEF PhaseOf, Sweeping, Holding
    <3>. QED BY <2>0, <3>2
  <2>2. NoWorker \in WorkerType /\ PhaseOf(NoWorker)
    BY NoWorkerFacts
  <2>. QED BY <1>4, <1>5, <1>7, <2>1, <2>2 DEF Spawn, t
<1>8. CASE Stop(w)
  <2>1. PICK passes \in {1, 2} : Step(w, [worker[w] EXCEPT !.pc = "stop", !.passes = passes])
    BY <1>8 DEF Stop
  <2>. DEFINE t == [s EXCEPT !.pc = "stop", !.passes = passes]
  <2>3. passes \in 0..2
    OBVIOUS
  <2>2. /\ t \in WorkerType
        /\ t.pc = "stop" /\ t.passes = passes /\ t.todo = s.todo /\ t.rounds = s.rounds
        /\ t.thread = s.thread /\ t.job = s.job /\ t.sweep = s.sweep
    BY <1>1, <1>2, <2>3 DEF WorkerType, Gone, Entry
  <2>. HIDE DEF t
  <2>4. PhaseOf(t)
    BY <1>1, <1>8, <2>2 DEF PhaseOf, Stop, Sweeping, s
  <2>5. owed' \in [Workers -> SUBSET Jobs]
    BY <1>5, <1>8 DEF Stop, Live
  <2>. QED BY <1>4, <1>5, <1>8, <2>1, <2>2, <2>4, <2>5 DEF Stop, t, s
<1>9. CASE StopSnapshot(w)
  <2>. DEFINE d == ToDo(Sweep, ByCancelling)
              t == [s EXCEPT !.pc = "sweep", !.todo = d]
  <2>1. ByCancelling \in [Jobs -> {"cancel", "finish", "fail"}] /\ \A j \in Jobs : ByCancelling[j] = "cancel"
    BY DEF ByCancelling
  <2>2. /\ d \in Seq(Entry) /\ \A i \in DOMAIN d : d[i].how = "cancel"
    <3>1. /\ d \in Seq(Entry) /\ Len(d) = Len(States(q))
          /\ \A i \in 1..Len(States(q)) : d[i].how = ByCancelling[States(q)[i]]
      BY <1>3, <2>1, ToDoOf DEF Sweep
    <3>2. \A i \in 1..Len(States(q)) : States(q)[i] \in Jobs
      BY <1>3, Elements
    <3>. HIDE DEF d
    <3>3. DOMAIN d = 1..Len(States(q))
      BY <3>1, Elements
    <3>. QED BY <2>1, <3>1, <3>2, <3>3
  <2>. HIDE DEF d
  <2>3. /\ t \in WorkerType
        /\ t.pc = "sweep" /\ t.passes = s.passes /\ t.todo = d /\ t.rounds = s.rounds
        /\ t.thread = s.thread /\ t.job = s.job /\ t.sweep = s.sweep
    BY <1>1, <1>2, <2>2 DEF WorkerType, Gone, Entry
  <2>. HIDE DEF t
  <2>5. PhaseOf(t)
    BY <1>1, <1>9, <2>2, <2>3 DEF PhaseOf, StopSnapshot, Sweeping, s
  <2>. QED BY <1>4, <1>5, <1>9, <2>3, <2>5 DEF StopSnapshot, t, s, d
<1>10. CASE HangUp(w)
  <2>. DEFINE t == [s EXCEPT !.pc = "joining"]
  <2>1. /\ t \in WorkerType
        /\ t.pc = "joining" /\ t.passes = s.passes /\ t.todo = s.todo /\ t.rounds = s.rounds
        /\ t.thread = s.thread /\ t.job = s.job /\ t.sweep = s.sweep
    BY <1>1, <1>2 DEF WorkerType, Gone, Entry
  <2>. HIDE DEF t
  <2>3. PhaseOf(t)
    BY <1>1, <1>10, <2>1 DEF PhaseOf, HangUp, Sweeping, s
  <2>. QED BY <1>4, <1>5, <1>10, <2>1, <2>3 DEF HangUp, t, s
<1>11. CASE Joined(w)
  <2>. DEFINE n == OrphanRounds(worker[w].thread)
              t == [s EXCEPT !.pc = "finish", !.thread = "none", !.job = None, !.rounds = n]
  <2>1. n \in 0..2
    BY DEF OrphanRounds
  <2>. HIDE DEF n
  <2>2. /\ t \in WorkerType
        /\ t.pc = "finish" /\ t.passes = s.passes /\ t.todo = s.todo /\ t.rounds = n
        /\ t.thread = "none" /\ t.job = None /\ t.sweep = s.sweep
    BY <1>1, <1>2, <2>1 DEF WorkerType, Gone, Entry, None
  <2>. HIDE DEF t
  <2>4. PhaseOf(t)
    BY <1>1, <1>11, <2>2 DEF PhaseOf, Joined, Sweeping, Holding, s
  <2>. QED BY <1>4, <1>5, <1>11, <2>2, <2>4 DEF Joined, t, s, n
<1>12. CASE OrphanSnapshot(w)
  <2>. DEFINE d == ToDo(States(q), ByFinishing)
              t == [s EXCEPT !.todo = d, !.rounds = @ - 1]
  <2>1. d \in Seq(Entry)
    BY <1>3, ToDoOf DEF ByFinishing
  <2>. HIDE DEF d
  <2>3. s.rounds - 1 \in 0..2 /\ s.pc \in {"finish", "again"}
    BY <1>2, <1>12 DEF OrphanSnapshot, s
  <2>2. /\ t \in WorkerType
        /\ t.pc = s.pc /\ t.passes = s.passes /\ t.todo = d /\ t.rounds = s.rounds - 1
        /\ t.thread = s.thread /\ t.job = s.job /\ t.sweep = s.sweep
    BY <1>1, <1>2, <2>1, <2>3 DEF WorkerType, Gone, Entry
  <2>. HIDE DEF t
  <2>5. PhaseOf(t)
    BY <1>1, <2>2, <2>3 DEF PhaseOf, Sweeping
  <2>. QED BY <1>4, <1>5, <1>12, <2>2, <2>5 DEF OrphanSnapshot, t, s, d
<1>13. CASE Release(w)
  <2>. DEFINE pc == IF s.passes = 2 THEN "released" ELSE "none"
              t == [s EXCEPT !.pc = pc, !.passes = @ - 1]
  <2>2. /\ s.pc \in {"finish", "again"} /\ s.passes \in {1, 2} /\ s.todo = <<>>
        /\ s.thread = "none"
    BY <1>1, <1>13 DEF Release, PhaseOf, s
  <2>3. s.passes - 1 = (IF s.passes = 2 THEN 1 ELSE 0) /\ s.passes - 1 \in 0..2
    BY <2>2
  <2>1. /\ t \in WorkerType
        /\ t.pc = pc /\ t.passes = s.passes - 1 /\ t.todo = s.todo /\ t.rounds = s.rounds
        /\ t.thread = s.thread /\ t.job = s.job /\ t.sweep = s.sweep
    BY <1>1, <1>2, <2>2, <2>3 DEF WorkerType, Gone, Entry
  <2>. HIDE DEF t
  <2>5. PhaseOf(t)
    BY <2>1, <2>2, <2>3 DEF PhaseOf, Sweeping, Holding
  <2>. QED BY <1>4, <1>5, <1>13, <2>1, <2>5 DEF Release, t, s
<1>14. CASE SecondPass(w)
  <2>. DEFINE t == [s EXCEPT !.pc = "again", !.rounds = 1]
  <2>2. 1 \in 0..2
    OBVIOUS
  <2>1. /\ t \in WorkerType
        /\ t.pc = "again" /\ t.passes = s.passes /\ t.todo = s.todo /\ t.rounds = 1
        /\ t.thread = s.thread /\ t.job = s.job /\ t.sweep = s.sweep
    BY <1>1, <1>2, <2>2 DEF WorkerType, Gone, Entry
  <2>. HIDE DEF t
  <2>3. PhaseOf(t)
    BY <1>1, <1>14, <2>1 DEF PhaseOf, SecondPass, Sweeping, s
  <2>. QED BY <1>4, <1>5, <1>14, <2>1, <2>3 DEF SecondPass, t, s
<1>. QED BY <1>6, <1>7, <1>8, <1>9, <1>10, <1>11, <1>12, <1>13, <1>14

\* What the thread does to its own record: it goes on, and may take or leave a job.
LEMMA TypeThread ==
    ASSUME TInv, NEW w \in Workers, Encoder(w) \/ Thread(w)
    PROVE  TInv'
<1>. DEFINE s == worker[w]
<1>1. s \in WorkerType /\ PhaseOf(s)
  BY DEF TInv
<1>2. /\ s.todo \in Seq(Entry) /\ s.passes \in 0..2 /\ s.rounds \in 0..2 /\ s.sweep \in Seq(Jobs)
      /\ s.job \in Jobs \cup {None}
      /\ s.thread \in Gone \cup {"top", "look", "check", "idle", "export", "publish", "published",
                                 "withdraw", "failed", "cancelled"}
  BY <1>1, WorkerParts DEF WorkerType
<1>3. States(q) \in Seq(Jobs) /\ Sound(q) /\ Orderly(q) /\ <<>> \in Seq(Jobs)
  BY StatesOf DEF TInv, Sound
<1>4. ASSUME NEW t \in WorkerType, PhaseOf(t), Step(w, t), ThreadOnly, Sound(q'), Orderly(q'),
             file' \in [Jobs -> {"none", "published", "left"}], panics' \in 0..MaxPanics
      PROVE  TInv'
  <2>1. worker' \in [Workers -> WorkerType] /\ \A v \in Workers : PhaseOf(worker'[v])
    BY <1>4, WorkerMoves
  <2>2. UNCHANGED <<lease, calls, owed, rejected, starts>>
    BY <1>4 DEF ThreadOnly
  <2>. QED BY <1>4, <2>1, <2>2 DEF TInv
<1>5. file \in [Jobs -> {"none", "published", "left"}] /\ panics \in 0..MaxPanics
  BY DEF TInv
<1>. HIDE DEF s
<1>6. ASSUME NEW pc \in Gone \cup Holding \cup {"top", "look", "check", "idle"}, s.thread # "none",
             pc \in Holding \cup {"dead"} => s.job \in Jobs, pc # "none"
      PROVE  [s EXCEPT !.thread = pc] \in WorkerType /\ PhaseOf([s EXCEPT !.thread = pc])
  <2>. DEFINE t == [s EXCEPT !.thread = pc]
  <2>1. t \in WorkerType /\ t.thread = pc
        /\ t.pc = s.pc /\ t.passes = s.passes /\ t.todo = s.todo /\ t.job = s.job
    BY <1>1, <1>2, <1>6 DEF WorkerType, Gone, Holding, Entry
  <2>. HIDE DEF t
  <2>2. PhaseOf(t)
    BY <1>1, <1>6, <2>1 DEF PhaseOf
  <2>. QED BY <2>1, <2>2 DEF t
\* The thread goes on to pc.
<1>7. ASSUME NEW pc \in Gone \cup Holding \cup {"top", "look", "check", "idle"}, s.thread # "none",
             pc \in Holding \cup {"dead"} => s.job \in Jobs, pc # "none", Go(w, pc), ThreadOnly,
             Sound(q'), Orderly(q'),
             file' \in [Jobs -> {"none", "published", "left"}], panics' \in 0..MaxPanics
      PROVE  TInv'
  BY <1>4, <1>6, <1>7 DEF Go, s
<1>8. s.thread \in Holding => s.job \in Jobs
  BY <1>1 DEF PhaseOf
<1>9. CASE Top(w)
  <2>. DEFINE d == IF ShutDown(w) THEN Sweep ELSE <<>>
              t == [s EXCEPT !.thread = "look", !.sweep = d]
  <2>1. d \in Seq(Jobs)
    BY <1>3 DEF Sweep
  <2>. HIDE DEF d
  <2>2. /\ t \in WorkerType /\ t.thread = "look"
        /\ t.pc = s.pc /\ t.passes = s.passes /\ t.todo = s.todo /\ t.job = s.job
    BY <1>1, <1>2, <2>1 DEF WorkerType, Gone, Entry
  <2>. HIDE DEF t
  <2>3. PhaseOf(t)
    BY <1>1, <1>9, <2>2 DEF PhaseOf, Holding, Top, s
  <2>. QED BY <1>3, <1>4, <1>5, <1>9, <2>2, <2>3 DEF Top, t, s, d
<1>10. CASE ThreadSweep(w)
  <2>. DEFINE t == [s EXCEPT !.sweep = Tail(@)]
  <2>1. s.sweep # <<>> /\ Head(s.sweep) \in Jobs /\ Tail(s.sweep) \in Seq(Jobs)
    BY <1>2, <1>10, HeadTailProperties DEF ThreadSweep, s
  <2>2. /\ t \in WorkerType /\ t.thread = s.thread
        /\ t.pc = s.pc /\ t.passes = s.passes /\ t.todo = s.todo /\ t.job = s.job
    BY <1>1, <1>2, <2>1 DEF WorkerType, Gone, Entry
  <2>. HIDE DEF t
  <2>3. PhaseOf(t)
    BY <1>1, <2>2 DEF PhaseOf
  <2>4. Sound(q') /\ Orderly(q')
    BY <1>3, <1>10, <2>1, CancelledSound DEF ThreadSweep, Advance, s
  <2>. QED BY <1>4, <1>5, <1>10, <2>2, <2>3, <2>4 DEF ThreadSweep, t, s
<1>11. CASE Look(w)
  <2>. DEFINE j == q.active
              t == IF q.active = None THEN [s EXCEPT !.thread = "check", !.job = None]
                   ELSE [s EXCEPT !.thread = "export", !.job = q.active]
  <2>1. j \in Jobs \cup {None} /\ (j # None => j \in Jobs)
    BY <1>3, QueueParts
  <2>2. /\ t \in WorkerType /\ t.pc = s.pc /\ t.passes = s.passes /\ t.todo = s.todo
        /\ IF j = None THEN t.thread = "check" ELSE t.thread = "export" /\ t.job = j
    <3>1. CASE j = None
      BY <1>1, <1>2, <3>1 DEF WorkerType, Gone, Entry
    <3>2. CASE j # None
      BY <1>1, <1>2, <2>1, <3>2 DEF WorkerType, Gone, Entry
    <3>. QED BY <3>1, <3>2
  <2>. HIDE DEF t
  <2>3. PhaseOf(t)
    BY <1>1, <1>11, <2>1, <2>2 DEF PhaseOf, Holding, Look, s
  <2>. QED BY <1>3, <1>4, <1>5, <1>11, <2>2, <2>3 DEF Look, t, s
<1>12. CASE Check(w)
  BY <1>3, <1>5, <1>7, <1>12 DEF Check, Holding, Gone, s
<1>13. CASE Wake(w) \/ Disconnect(w)
  BY <1>3, <1>5, <1>7, <1>13 DEF Wake, Disconnect, Holding, Gone, s
<1>14. CASE ExportFails(w) \/ ExportReady(w) \/ ExportCancelled(w)
  BY <1>3, <1>5, <1>7, <1>8, <1>14 DEF ExportFails, ExportReady, ExportCancelled, Holding, s
<1>15. CASE ExportPanics(w)
  <2>1. panics + 1 \in 0..MaxPanics
    BY <1>5, <1>15, MaxPanicsAssumption DEF ExportPanics
  <2>. QED BY <1>3, <1>5, <1>7, <1>8, <1>15, <2>1 DEF ExportPanics, Holding, Gone, s
<1>16. CASE Publish(w)
  <2>1. [file EXCEPT ![worker[w].job] = "published"] \in [Jobs -> {"none", "published", "left"}]
    BY <1>5
  <2>. QED BY <1>3, <1>5, <1>7, <1>8, <1>16, <2>1 DEF Publish, Holding, s
<1>17. CASE Withdraw(w)
  <2>1. \A left \in {"none", "left"} :
           [file EXCEPT ![worker[w].job] = left] \in [Jobs -> {"none", "published", "left"}]
    BY <1>5
  <2>. QED BY <1>3, <1>5, <1>7, <1>8, <1>17, <2>1 DEF Withdraw, Holding, s
<1>18. CASE Finish(w)
  <2>1. s.job \in Jobs /\ s.thread = "published"
    BY <1>8, <1>18 DEF Finish, Holding, s
  <2>2. Sound(q') /\ Orderly(q')
    BY <1>3, <1>18, <2>1, CompletedSound DEF Finish, Advance, s
  <2>. QED BY <1>5, <1>7, <1>18, <2>1, <2>2 DEF Finish, Holding, Gone, s
<1>19. CASE Fail(w)
  <2>1. s.job \in Jobs /\ s.thread = "failed"
    BY <1>8, <1>19 DEF Fail, Holding, s
  <2>2. Sound(q') /\ Orderly(q')
    BY <1>3, <1>19, <2>1, FailedSound DEF Fail, Advance, s
  <2>. QED BY <1>5, <1>7, <1>19, <2>1, <2>2 DEF Fail, Holding, Gone, s
<1>20. CASE FinishCancelled(w)
  <2>1. s.job \in Jobs /\ s.thread = "cancelled"
    BY <1>8, <1>20 DEF FinishCancelled, Holding, s
  <2>2. Sound(q') /\ Orderly(q')
    BY <1>3, <1>20, <2>1, FailedSound, FinishedCancelledSound DEF FinishCancelled, Advance, s
  <2>. QED BY <1>5, <1>7, <1>20, <2>1, <2>2 DEF FinishCancelled, Holding, Gone, s
<1>. QED BY <1>9, <1>10, <1>11, <1>12, <1>13, <1>14, <1>15, <1>16, <1>17, <1>18, <1>19, <1>20
         DEF Encoder, Thread

\* What settling an entry does to the queue, whichever way it is settled.
LEMMA SettleMoves ==
    ASSUME TInv, NEW w \in Workers, Settle(w)
    PROVE  /\ worker[w].todo \in Seq(Entry) /\ worker[w].todo # <<>>
           /\ Head(worker[w].todo) \in Entry /\ Tail(worker[w].todo) \in Seq(Entry)
           /\ Head(worker[w].todo) = worker[w].todo[1]
           /\ Advance(q, q')
           /\ LET e == Head(worker[w].todo) IN
                \/ e.how = "cancel" /\ q' = Cancelled(q, e.job)
                \/ e.how = "finish" /\ q' = FinishedCancelled(q, e.job)
                \/ e.how = "fail" /\ q' = Failed(q, e.job)
<1>. DEFINE e == Head(worker[w].todo)
<1>1. worker[w].todo \in Seq(Entry) /\ worker[w].todo # <<>> /\ Sound(q) /\ Orderly(q)
  BY WorkerParts DEF TInv, Settle
<1>2. e \in Entry /\ Tail(worker[w].todo) \in Seq(Entry) /\ e = worker[w].todo[1]
  BY <1>1, HeadTailProperties
<1>. HIDE DEF e
<1>3. e.job \in Jobs /\ e.how \in {"cancel", "finish", "fail"}
  BY <1>2 DEF Entry
<1>4. q' = CASE e.how = "cancel" -> Cancelled(q, e.job)
             [] e.how = "finish" -> FinishedCancelled(q, e.job)
             [] e.how = "fail"   -> Failed(q, e.job)
  BY DEF Settle, e
<1>5. \/ e.how = "cancel" /\ q' = Cancelled(q, e.job)
      \/ e.how = "finish" /\ q' = FinishedCancelled(q, e.job)
      \/ e.how = "fail" /\ q' = Failed(q, e.job)
  BY <1>3, <1>4
<1>6. Advance(q, q')
  <2>1. Advance(q, Cancelled(q, e.job))
    BY <1>1, <1>3, CancelledSound
  <2>2. Advance(q, FinishedCancelled(q, e.job))
    BY <1>1, <1>3, FinishedCancelledSound
  <2>3. Advance(q, Failed(q, e.job))
    BY <1>1, <1>3, FailedSound
  <2>. QED BY <1>5, <2>1, <2>2, <2>3
<1>. QED BY <1>1, <1>2, <1>5, <1>6 DEF e

LEMMA TypeSettle ==
    ASSUME TInv, NEW w \in Workers, Settle(w)
    PROVE  TInv'
<1>. DEFINE s == worker[w]
            t == [s EXCEPT !.todo = Tail(@)]
<1>1. s \in WorkerType /\ PhaseOf(s)
  BY DEF TInv
<1>2. /\ s.todo \in Seq(Entry) /\ s.todo # <<>> /\ Tail(s.todo) \in Seq(Entry)
      /\ Sound(q') /\ Orderly(q')
  BY SettleMoves DEF Advance
<1>. HIDE DEF s
<1>3. /\ t \in WorkerType /\ t.todo = Tail(s.todo) /\ t.pc = s.pc /\ t.passes = s.passes
      /\ t.thread = s.thread /\ t.job = s.job
  BY <1>1, <1>2 DEF WorkerType, Gone, Entry
<1>. HIDE DEF t
<1>4. s.pc = "sweep" => \A i \in DOMAIN t.todo : t.todo[i].how = "cancel"
  <2>1. /\ Len(Tail(s.todo)) = Len(s.todo) - 1 /\ Len(s.todo) \in Nat
        /\ \A i \in 1..Len(Tail(s.todo)) : Tail(s.todo)[i] = s.todo[i + 1]
        /\ DOMAIN s.todo = 1..Len(s.todo) /\ DOMAIN Tail(s.todo) = 1..Len(Tail(s.todo))
    BY <1>2, HeadTailProperties, Elements
  <2>2. ASSUME NEW i \in 1..Len(Tail(s.todo)) PROVE i + 1 \in 1..Len(s.todo)
    BY <2>1
  <2>. QED BY <1>1, <1>3, <2>1, <2>2 DEF PhaseOf
<1>5. PhaseOf(t)
  BY <1>1, <1>2, <1>3, <1>4 DEF PhaseOf
<1>6. Step(w, t) /\ UNCHANGED <<lease, calls, file, owed, rejected, starts, panics>>
  BY DEF Settle, t, s
<1>7. worker' \in [Workers -> WorkerType] /\ \A v \in Workers : PhaseOf(worker'[v])
  BY <1>3, <1>5, <1>6, WorkerMoves
<1>. QED BY <1>2, <1>6, <1>7 DEF TInv

\* Whatever a client does: a call on the queue, or a step of a submit through a worker.
Called == Client \/ \E w \in Workers, j \in Jobs : Call(w, j)

\* A client touches the queue, its call, and the list of those who were refused.
LEMMA CalledFields ==
    ASSUME Called
    PROVE  UNCHANGED <<lease, worker, file, owed, starts, panics>>
BY DEF Called, Client, Call, Submit, Cancel, SubmitThrough, Heard, Unheard, TakeBack, FinishTakenBack

LEMMA CalledQueue ==
    ASSUME Called
    PROVE  \/ q' = q
           \/ Accepts(q) /\ q' = Submitted(q)
           \/ \E j \in Jobs : q' = Cancelled(q, j)
           \/ \E w \in Workers, j \in Jobs : calls[w][j] = "finish" /\ q' = FinishedCancelled(q, j)
<1>1. CASE Client
  BY <1>1 DEF Client, Submit, Cancel, SubmitThrough
<1>2. ASSUME NEW w \in Workers, NEW j \in Jobs, Call(w, j)
      PROVE  q' = q \/ q' = Cancelled(q, j) \/ (calls[w][j] = "finish" /\ q' = FinishedCancelled(q, j))
  BY <1>2 DEF Call, Heard, Unheard, TakeBack, FinishTakenBack
<1>. QED BY <1>1, <1>2 DEF Called

LEMMA CallAtFacts ==
    ASSUME TInv, NEW w \in Workers, NEW j \in Jobs, NEW step \in {"none", "wake", "cancel", "finish"},
           CallAt(w, j, step)
    PROVE  /\ calls' \in [Workers -> [Jobs -> {"none", "wake", "cancel", "finish"}]]
           /\ \A v \in Workers, k \in Jobs :
                calls'[v][k] = IF v = w /\ k = j THEN step ELSE calls[v][k]
<1>1. calls \in [Workers -> [Jobs -> {"none", "wake", "cancel", "finish"}]]
  BY DEF TInv
<1>2. calls' = [calls EXCEPT ![w][j] = step]
  BY DEF CallAt
<1>. QED BY <1>1, <1>2

\* How each step of a call moves it on.
LEMMA CallMoves ==
    ASSUME TInv, NEW w \in Workers, NEW j \in Jobs, Call(w, j)
    PROVE  \E step \in {"none", "cancel", "finish"} :
             /\ CallAt(w, j, step) /\ calls[w][j] # "none"
             /\ step = "cancel" => worker[w].thread = "dead"
             /\ step = "finish" => calls[w][j] = "cancel"
<1>1. CASE Heard(w, j) \/ FinishTakenBack(w, j)
  BY <1>1 DEF Heard, FinishTakenBack
<1>2. CASE Unheard(w, j)
  BY <1>2 DEF Unheard
<1>3. CASE TakeBack(w, j)
  BY <1>3 DEF TakeBack
<1>. QED BY <1>1, <1>2, <1>3 DEF Call

LEMMA TypeCalled ==
    ASSUME TInv, Called
    PROVE  TInv'
<1>1. Sound(q) /\ Orderly(q) /\ rejected \subseteq Jobs
  BY DEF TInv
<1>2. Sound(q') /\ Orderly(q')
  <2>1. ASSUME Accepts(q), q' = Submitted(q) PROVE Sound(q') /\ Orderly(q')
    BY <1>1, <2>1, SubmittedSound DEF Advance
  <2>2. ASSUME NEW j \in Jobs, q' = Cancelled(q, j) PROVE Sound(q') /\ Orderly(q')
    BY <1>1, <2>2, CancelledSound DEF Advance
  <2>3. ASSUME NEW j \in Jobs, q' = FinishedCancelled(q, j) PROVE Sound(q') /\ Orderly(q')
    BY <1>1, <2>3, FinishedCancelledSound DEF Advance
  <2>. QED BY <1>1, <2>1, <2>2, <2>3, CalledQueue
<1>3. calls' \in [Workers -> [Jobs -> {"none", "wake", "cancel", "finish"}]]
  <2>1. CASE Submit \/ \E j \in Jobs : Cancel(j)
    BY <2>1 DEF Submit, Cancel, TInv
  <2>2. ASSUME NEW w \in Workers, SubmitThrough(w)
        PROVE  calls' \in [Workers -> [Jobs -> {"none", "wake", "cancel", "finish"}]]
    <3>1. NextId(q) \in Jobs /\ CallAt(w, NextId(q), "wake")
      BY <1>1, <2>2, SubmittedSound DEF SubmitThrough
    <3>. QED BY <3>1, CallAtFacts
  <2>3. ASSUME NEW w \in Workers, NEW j \in Jobs, Call(w, j)
        PROVE  calls' \in [Workers -> [Jobs -> {"none", "wake", "cancel", "finish"}]]
    BY <2>3, CallMoves, CallAtFacts
  <2>. QED BY <2>1, <2>2, <2>3 DEF Called, Client
<1>4. rejected' \subseteq Jobs
  BY <1>1 DEF Called, Client, Call, Submit, Cancel, SubmitThrough, Heard, Unheard, TakeBack, FinishTakenBack
<1>. QED BY <1>2, <1>3, <1>4, CalledFields DEF TInv

LEMMA TypeStep == TInv /\ [Next]_vars => TInv'
<1>. SUFFICES ASSUME TInv, [Next]_vars PROVE TInv'
  OBVIOUS
<1>1. CASE UNCHANGED vars
  BY <1>1 DEF vars, TInv
<1>2. CASE Called
  BY <1>2, TypeCalled
<1>3. ASSUME NEW w \in Workers, Owner(w) \/ Encoder(w) \/ Thread(w) PROVE TInv'
  <2>1. CASE Settle(w)
    BY <2>1, TypeSettle
  <2>2. CASE Encoder(w) \/ Thread(w)
    BY <2>2, TypeThread
  <2>. QED BY <1>3, <2>1, <2>2, TypeOwner DEF Owner, Stopping
<1>. QED BY <1>1, <1>2, <1>3 DEF Next, Called

\* The type of the export worker and the shape of its queue: what is not over is
\* active or pending once and in the order of submission, nobody waits behind an
\* empty slot.  For every interleaving, whether or not a worker is started while
\* another is still returning.
THEOREM WorkerTypeCorrect == Spec => []TypeOK
<1>1. TInv => TypeOK
  BY SoundIsQueueSound DEF TInv, TypeOK
<1>. QED BY <1>1, TypeInit, TypeStep, PTL DEF Spec

-----------------------------------------------------------------------------
(* What each step does to the fields of its worker; the others stand still.    *)

OthersStand(w) == \A v \in Workers \ {w} : worker'[v] = worker[v]
\* The thread is at pc, with the job it had.
At(w, pc) ==
    /\ OthersStand(w)
    /\ worker'[w].thread = pc /\ worker'[w].job = worker[w].job
    /\ worker'[w].pc = worker[w].pc /\ worker'[w].todo = worker[w].todo
    /\ worker'[w].rounds = worker[w].rounds
\* The owner is at pc, and has left the thread alone.
OwnerAt(w, pc) ==
    /\ OthersStand(w)
    /\ worker'[w].thread = worker[w].thread /\ worker'[w].job = worker[w].job
    /\ worker'[w].pc = pc

LEMMA StepFields ==
    ASSUME TInv, NEW w \in Workers, NEW s, Step(w, s)
    PROVE  OthersStand(w) /\ worker'[w] = s
BY DEF TInv, Step, OthersStand

LEMMA OwnerFields ==
    ASSUME TInv, NEW w \in Workers
    PROVE  /\ Claim(w) =>
                /\ OthersStand(w) /\ worker'[w].pc = "claimed" /\ worker'[w].thread = "none"
                /\ worker'[w].todo = <<>>
           /\ Spawn(w) =>
                /\ OthersStand(w)
                /\ \/ /\ worker'[w].pc = "running" /\ worker'[w].thread = "top" /\ lease' = lease
                      /\ worker'[w].todo = <<>>
                   \/ /\ worker'[w].pc = "none" /\ worker'[w].thread = "none" /\ lease' = FALSE
                      /\ worker'[w].todo = <<>>
           /\ Stop(w) => OwnerAt(w, "stop") /\ worker'[w].todo = worker[w].todo
           /\ StopSnapshot(w) => OwnerAt(w, "sweep") /\ worker'[w].todo = ToDo(Sweep, ByCancelling)
           /\ Settle(w) =>
                /\ OwnerAt(w, worker[w].pc) /\ worker'[w].todo = Tail(worker[w].todo)
                /\ worker'[w].rounds = worker[w].rounds
           /\ HangUp(w) => OwnerAt(w, "joining") /\ worker'[w].todo = worker[w].todo
           /\ Joined(w) =>
                /\ OthersStand(w) /\ worker'[w].pc = "finish" /\ worker'[w].thread = "none"
                /\ worker'[w].todo = worker[w].todo /\ worker'[w].rounds \in {1, 2}
           /\ OrphanSnapshot(w) =>
                /\ OwnerAt(w, worker[w].pc) /\ worker'[w].todo = ToDo(States(q), ByFinishing)
                /\ worker'[w].rounds = worker[w].rounds - 1
           /\ Release(w) =>
                /\ OwnerAt(w, IF worker[w].passes = 2 THEN "released" ELSE "none")
                /\ worker'[w].todo = worker[w].todo
           /\ SecondPass(w) => OwnerAt(w, "again") /\ worker'[w].todo = worker[w].todo
<1>. DEFINE s == worker[w]
<1>1. s \in WorkerType
  BY DEF TInv
<1>2. ASSUME Claim(w)
      PROVE  /\ OthersStand(w) /\ worker'[w].pc = "claimed" /\ worker'[w].thread = "none"
             /\ worker'[w].todo = <<>>
  BY <1>2, StepFields, NoWorkerFacts DEF Claim, WorkerType
<1>3. ASSUME Spawn(w)
      PROVE  /\ OthersStand(w)
             /\ \/ /\ worker'[w].pc = "running" /\ worker'[w].thread = "top" /\ lease' = lease
                   /\ worker'[w].todo = <<>>
                \/ /\ worker'[w].pc = "none" /\ worker'[w].thread = "none" /\ lease' = FALSE
                   /\ worker'[w].todo = <<>>
  <2>1. CASE lease' = lease /\ Step(w, [NoWorker EXCEPT !.pc = "running", !.thread = "top"])
    <3>. DEFINE t == [NoWorker EXCEPT !.pc = "running", !.thread = "top"]
    <3>1. t.pc = "running" /\ t.todo = NoWorker.todo /\ t.rounds = NoWorker.rounds /\ t.thread = "top" /\ t.job = NoWorker.job
      BY NoWorkerFacts DEF WorkerType
    <3>2. Step(w, t)
      BY <2>1
    <3>. HIDE DEF t
    <3>3. OthersStand(w) /\ worker'[w] = t
      BY <3>2, StepFields
    <3>. QED BY <2>1, NoWorkerFacts, <3>1, <3>3
  <2>2. CASE lease' = FALSE /\ Step(w, NoWorker)
    BY <2>2, StepFields, NoWorkerFacts DEF WorkerType
  <2>. QED BY <1>3, <2>1, <2>2 DEF Spawn
<1>4. ASSUME Stop(w) PROVE OwnerAt(w, "stop") /\ worker'[w].todo = worker[w].todo
  <2>1. PICK passes \in {1, 2} : Step(w, [worker[w] EXCEPT !.pc = "stop", !.passes = passes])
    BY <1>4 DEF Stop
  <2>. DEFINE t == [worker[w] EXCEPT !.pc = "stop", !.passes = passes]
  <2>2. t.pc = "stop" /\ t.todo = worker[w].todo /\ t.rounds = worker[w].rounds /\ t.thread = worker[w].thread /\ t.job = worker[w].job
    BY <1>1 DEF WorkerType
  <2>3. Step(w, t)
    BY <2>1
  <2>. HIDE DEF t
  <2>4. OthersStand(w) /\ worker'[w] = t
    BY <2>3, StepFields
  <2>. QED BY <2>2, <2>4 DEF OwnerAt
<1>5. ASSUME StopSnapshot(w)
      PROVE  OwnerAt(w, "sweep") /\ worker'[w].todo = ToDo(Sweep, ByCancelling)
  <2>. DEFINE d == ToDo(Sweep, ByCancelling)
  <2>. DEFINE t == [worker[w] EXCEPT !.pc = "sweep", !.todo = d]
  <2>1. t.pc = "sweep" /\ t.todo = d /\ t.rounds = worker[w].rounds /\ t.thread = worker[w].thread /\ t.job = worker[w].job
    BY <1>1 DEF WorkerType
  <2>2. Step(w, t)
    BY <1>5 DEF StopSnapshot
  <2>. HIDE DEF t
  <2>3. OthersStand(w) /\ worker'[w] = t
    BY <2>2, StepFields
  <2>. QED BY <2>1, <2>3 DEF OwnerAt
<1>6. ASSUME Settle(w)
      PROVE  /\ OwnerAt(w, worker[w].pc) /\ worker'[w].todo = Tail(worker[w].todo)
             /\ worker'[w].rounds = worker[w].rounds
  <2>. DEFINE t == [worker[w] EXCEPT !.todo = Tail(@)]
  <2>1. t.pc = worker[w].pc /\ t.todo = Tail(worker[w].todo) /\ t.rounds = worker[w].rounds /\ t.thread = worker[w].thread /\ t.job = worker[w].job
    BY <1>1 DEF WorkerType
  <2>2. Step(w, t)
    BY <1>6 DEF Settle
  <2>. HIDE DEF t
  <2>3. OthersStand(w) /\ worker'[w] = t
    BY <2>2, StepFields
  <2>. QED BY <2>1, <2>3 DEF OwnerAt
<1>7. ASSUME HangUp(w) PROVE OwnerAt(w, "joining") /\ worker'[w].todo = worker[w].todo
  BY <1>1, <1>7, StepFields DEF HangUp, WorkerType, OwnerAt
<1>8. ASSUME Joined(w)
      PROVE  /\ OthersStand(w) /\ worker'[w].pc = "finish" /\ worker'[w].thread = "none"
             /\ worker'[w].todo = worker[w].todo /\ worker'[w].rounds \in {1, 2}
  <2>. DEFINE n == OrphanRounds(worker[w].thread)
  <2>1. n \in {1, 2}
    BY DEF OrphanRounds
  <2>. DEFINE t == [worker[w] EXCEPT !.pc = "finish", !.thread = "none", !.job = None, !.rounds = n]
  <2>2. t.pc = "finish" /\ t.todo = worker[w].todo /\ t.rounds = n /\ t.thread = "none" /\ t.job = None
    BY <1>1 DEF WorkerType
  <2>3. Step(w, t)
    BY <1>8 DEF Joined
  <2>. HIDE DEF t
  <2>4. OthersStand(w) /\ worker'[w] = t
    BY <2>3, StepFields
  <2>. QED BY <2>2, <2>4, <2>1
<1>9. ASSUME OrphanSnapshot(w)
      PROVE  /\ OwnerAt(w, worker[w].pc) /\ worker'[w].todo = ToDo(States(q), ByFinishing)
             /\ worker'[w].rounds = worker[w].rounds - 1
  <2>. DEFINE d == ToDo(States(q), ByFinishing)
  <2>. DEFINE t == [worker[w] EXCEPT !.todo = d, !.rounds = @ - 1]
  <2>1. t.pc = worker[w].pc /\ t.todo = d /\ t.rounds = worker[w].rounds - 1 /\ t.thread = worker[w].thread /\ t.job = worker[w].job
    BY <1>1 DEF WorkerType
  <2>2. Step(w, t)
    BY <1>9 DEF OrphanSnapshot
  <2>. HIDE DEF t
  <2>3. OthersStand(w) /\ worker'[w] = t
    BY <2>2, StepFields
  <2>. QED BY <2>1, <2>3 DEF OwnerAt
<1>10. ASSUME Release(w)
       PROVE  /\ OwnerAt(w, IF worker[w].passes = 2 THEN "released" ELSE "none")
              /\ worker'[w].todo = worker[w].todo
  <2>. DEFINE pc == IF worker[w].passes = 2 THEN "released" ELSE "none"
  <2>. DEFINE t == [worker[w] EXCEPT !.pc = pc, !.passes = @ - 1]
  <2>1. t.pc = pc /\ t.todo = worker[w].todo /\ t.rounds = worker[w].rounds /\ t.thread = worker[w].thread /\ t.job = worker[w].job
    BY <1>1 DEF WorkerType
  <2>2. Step(w, t)
    BY <1>10 DEF Release
  <2>. HIDE DEF t
  <2>3. OthersStand(w) /\ worker'[w] = t
    BY <2>2, StepFields
  <2>. QED BY <2>1, <2>3 DEF OwnerAt
<1>11. ASSUME SecondPass(w) PROVE OwnerAt(w, "again") /\ worker'[w].todo = worker[w].todo
  <2>. DEFINE t == [worker[w] EXCEPT !.pc = "again", !.rounds = 1]
  <2>1. t.pc = "again" /\ t.todo = worker[w].todo /\ t.rounds = 1 /\ t.thread = worker[w].thread /\ t.job = worker[w].job
    BY <1>1 DEF WorkerType
  <2>2. Step(w, t)
    BY <1>11 DEF SecondPass
  <2>. HIDE DEF t
  <2>3. OthersStand(w) /\ worker'[w] = t
    BY <2>2, StepFields
  <2>. QED BY <2>1, <2>3 DEF OwnerAt
<1>. QED BY <1>2, <1>3, <1>4, <1>5, <1>6, <1>7, <1>8, <1>9, <1>10, <1>11

LEMMA ThreadFields ==
    ASSUME TInv, NEW w \in Workers
    PROVE  /\ \A pc : Go(w, pc) => At(w, pc)
           /\ Top(w) => At(w, "look")
           /\ ThreadSweep(w) => At(w, "look")
           /\ Look(w) =>
                /\ OthersStand(w)
                /\ worker'[w].pc = worker[w].pc /\ worker'[w].todo = worker[w].todo
                /\ worker'[w].rounds = worker[w].rounds
                /\ IF q.active = None THEN worker'[w].thread = "check"
                   ELSE worker'[w].thread = "export" /\ worker'[w].job = q.active
<1>. DEFINE s == worker[w]
<1>1. s \in WorkerType
  BY DEF TInv
<1>2. ASSUME NEW pc, Go(w, pc) PROVE At(w, pc)
  BY <1>1, <1>2, StepFields DEF Go, WorkerType, At
<1>3. ASSUME Top(w) PROVE At(w, "look")
  <2>. DEFINE d == IF ShutDown(w) THEN Sweep ELSE <<>>
  <2>. DEFINE t == [worker[w] EXCEPT !.thread = "look", !.sweep = d]
  <2>1. t.pc = worker[w].pc /\ t.todo = worker[w].todo /\ t.rounds = worker[w].rounds /\ t.thread = "look" /\ t.job = worker[w].job
    BY <1>1 DEF WorkerType
  <2>2. Step(w, t)
    BY <1>3 DEF Top
  <2>. HIDE DEF t
  <2>3. OthersStand(w) /\ worker'[w] = t
    BY <2>2, StepFields
  <2>. QED BY <2>1, <2>3 DEF At
<1>4. ASSUME ThreadSweep(w) PROVE At(w, "look")
  BY <1>1, <1>4, StepFields DEF ThreadSweep, WorkerType, At
<1>5. ASSUME Look(w)
      PROVE  /\ OthersStand(w)
             /\ worker'[w].pc = worker[w].pc /\ worker'[w].todo = worker[w].todo
             /\ worker'[w].rounds = worker[w].rounds
             /\ IF q.active = None THEN worker'[w].thread = "check"
                ELSE worker'[w].thread = "export" /\ worker'[w].job = q.active
  <2>1. CASE q.active = None
    <3>. DEFINE t == [worker[w] EXCEPT !.thread = "check", !.job = None]
    <3>1. t.pc = worker[w].pc /\ t.todo = worker[w].todo /\ t.rounds = worker[w].rounds /\ t.thread = "check" /\ t.job = None
      BY <1>1 DEF WorkerType
    <3>2. Step(w, t)
      BY <1>5, <2>1 DEF Look
    <3>. HIDE DEF t
    <3>3. OthersStand(w) /\ worker'[w] = t
      BY <3>2, StepFields
    <3>. QED BY <3>1, <3>3, <2>1
  <2>2. CASE q.active # None
    <3>. DEFINE t == [worker[w] EXCEPT !.thread = "export", !.job = q.active]
    <3>1. t.pc = worker[w].pc /\ t.todo = worker[w].todo /\ t.rounds = worker[w].rounds /\ t.thread = "export" /\ t.job = q.active
      BY <1>1 DEF WorkerType
    <3>2. Step(w, t)
      BY <1>5, <2>2 DEF Look
    <3>. HIDE DEF t
    <3>3. OthersStand(w) /\ worker'[w] = t
      BY <3>2, StepFields
    <3>. QED BY <3>1, <3>3, <2>2
  <2>. QED BY <2>1, <2>2
<1>. QED BY <1>2, <1>3, <1>4, <1>5

-----------------------------------------------------------------------------
(* The lease.                                                                  *)

LEMMA ThreadKeeps ==
    ASSUME TInv, NEW w \in Workers, Encoder(w) \/ Thread(w)
    PROVE  /\ OthersStand(w)
           /\ worker'[w].pc = worker[w].pc /\ worker'[w].todo = worker[w].todo
           /\ worker'[w].rounds = worker[w].rounds
           /\ worker[w].thread \notin Gone
           /\ UNCHANGED <<lease, calls, owed, rejected, starts>>
<1>1. ASSUME NEW pc, Go(w, pc) PROVE At(w, pc)
  BY SMTT(30), <1>1, ThreadFields
<1>2. CASE Top(w)
  BY <1>2, ThreadFields DEF At, Top, ThreadOnly, Gone
<1>3. CASE ThreadSweep(w)
  BY SMTT(30), <1>3, ThreadFields DEF At, ThreadSweep, ThreadOnly, Gone
<1>4. CASE Look(w)
  BY <1>4, ThreadFields DEF Look, ThreadOnly, Gone
<1>5. CASE Check(w) \/ Wake(w) \/ Disconnect(w)
  BY <1>1, <1>5 DEF At, Check, Wake, Disconnect, ThreadOnly, Gone
<1>6. CASE ExportFails(w) \/ ExportReady(w) \/ ExportPanics(w) \/ ExportCancelled(w)
  BY <1>1, <1>6 DEF At, ExportFails, ExportReady, ExportPanics, ExportCancelled, ThreadOnly, Gone
<1>7. CASE Publish(w) \/ Withdraw(w)
  BY <1>1, <1>7 DEF At, Publish, Withdraw, ThreadOnly, Gone
<1>8. CASE Finish(w) \/ Fail(w) \/ FinishCancelled(w)
  BY <1>1, <1>8 DEF At, Finish, Fail, FinishCancelled, ThreadOnly, Gone
<1>. QED BY <1>2, <1>3, <1>4, <1>5, <1>6, <1>7, <1>8 DEF Encoder, Thread

LEMMA AloneInit == Init => Alone
<1>. SUFFICES ASSUME Init PROVE Alone
  OBVIOUS
<1>1. \A w \in Workers : worker[w].pc = "none"
  BY NoWorkerFacts DEF Init
<1>. QED BY <1>1 DEF Alone

Out == {"none", "released", "again"}

\* A worker is claimed only when every other one is gone, for whoever is there
\* holds the lease or is returning.
LEMMA AloneStep ==
    ASSUME Overlap = FALSE, TInv, Alone, [Next]_vars
    PROVE  Alone'
<1>1. ASSUME NEW w \in Workers, OthersStand(w), lease' = lease,
             worker'[w].pc # "none" => worker[w].pc # "none",
             worker'[w].pc \notin Out => worker[w].pc \notin Out
      PROVE  Alone'
  <2>1. \A v \in Workers : /\ worker'[v].pc # "none" => worker[v].pc # "none"
                           /\ worker'[v].pc \notin Out => worker[v].pc \notin Out
    BY <1>1 DEF OthersStand
  <2>. QED BY <1>1, <2>1 DEF Alone, Out
<1>2. CASE UNCHANGED <<worker, lease>>
  BY <1>2 DEF Alone
<1>3. ASSUME NEW w \in Workers, Claim(w) PROVE Alone'
  <2>1. \A v \in Workers : worker[v].pc = "none"
    BY <1>3 DEF Claim, Alone, Returning
  <2>2. OthersStand(w) /\ lease' = TRUE
    BY <1>3, OwnerFields DEF Claim
  <2>3. \A v \in Workers : v # w => worker'[v].pc = "none"
    BY <2>1, <2>2 DEF OthersStand
  <2>. QED BY <2>2, <2>3 DEF Alone
<1>4. ASSUME NEW w \in Workers, worker[w].pc # "none", OthersStand(w), worker'[w].pc \in Out PROVE Alone'
  <2>1. \A v \in Workers : v # w => worker'[v].pc = "none"
    BY <1>4 DEF OthersStand, Alone
  <2>. QED BY <1>4, <2>1 DEF Alone, Out
<1>5. ASSUME NEW w \in Workers, Spawn(w) PROVE Alone'
  <2>1. worker[w].pc = "claimed" /\ OthersStand(w)
    BY <1>5, OwnerFields DEF Spawn
  <2>2. worker'[w].pc = "none" \/ (worker'[w].pc = "running" /\ lease' = lease)
    BY <1>5, OwnerFields
  <2>. QED BY <1>1, <1>4, <2>1, <2>2 DEF Out
<1>6. ASSUME NEW w \in Workers, Release(w) PROVE Alone'
  BY ZenonT(60), <1>4, <1>6, OwnerFields DEF Release, OwnerAt, Out
<1>7. ASSUME NEW w \in Workers, Stop(w) \/ Settle(w) \/ StopSnapshot(w) \/ HangUp(w) PROVE Alone'
  <2>1. worker[w].pc \notin Out \/ worker'[w].pc = worker[w].pc
    BY ZenonT(60), <1>7, OwnerFields DEF Stop, StopSnapshot, HangUp, OwnerAt, Out
  <2>2. OthersStand(w) /\ lease' = lease
    BY <1>7, OwnerFields DEF Stop, Settle, StopSnapshot, HangUp, OwnerAt
  <2>. QED BY <1>1, <2>1, <2>2 DEF Out
<1>8. ASSUME NEW w \in Workers, Joined(w) \/ OrphanSnapshot(w) \/ SecondPass(w) PROVE Alone'
  <2>1. worker[w].pc \notin Out \/ worker'[w].pc = worker[w].pc
        \/ (worker[w].pc \in {"released"} /\ worker'[w].pc = "again")
    BY ZenonT(60), <1>8, OwnerFields DEF Joined, SecondPass, OwnerAt, Out
  <2>2. OthersStand(w) /\ lease' = lease
    BY <1>8, OwnerFields DEF Joined, OrphanSnapshot, SecondPass, OwnerAt
  <2>. QED BY SMTT(30), <1>1, <2>1, <2>2 DEF Out
<1>9. ASSUME NEW w \in Workers, Encoder(w) \/ Thread(w) PROVE Alone'
  BY <1>1, <1>9, ThreadKeeps
<1>10. CASE Called
  BY <1>2, <1>10, CalledFields
<1>11. CASE UNCHANGED vars
  BY <1>2, <1>11 DEF vars
<1>. QED BY <1>3, <1>5, <1>6, <1>7, <1>8, <1>9, <1>10, <1>11 DEF Next, Called, Owner, Stopping

LEMMA OthersGone ==
    ASSUME TInv, Alone, NEW w \in Workers, worker[w].pc # "none", NEW v \in Workers, v # w
    PROVE  worker[v].pc = "none" /\ worker[v].thread = "none"
BY DEF TInv, PhaseOf, Alone

\* Never do two threads execute the jobs of one queue, as long as no worker is
\* started while the stop of another is still on its way back: for any number of
\* jobs, workers and panics.  (Without that proviso export_twice refutes it.)
THEOREM OneExecutorEver ==
    ASSUME Overlap = FALSE
    PROVE  Spec => []OneExecutor
<1>1. TInv /\ Alone => OneExecutor
  <2>. SUFFICES ASSUME TInv, Alone PROVE OneExecutor
    OBVIOUS
  <2>. DEFINE A == {w \in Workers : Alive(w)}
  <2>1. \A v, w \in A : v = w
    BY DEF Alive, Alone, TInv, PhaseOf, Gone
  <2>2. CASE A = {}
    <3>1. Cardinality(A) = 0
      BY <2>2, FS_EmptySet
    <3>. QED BY <3>1 DEF OneExecutor
  <2>3. CASE A # {}
    <3>1. PICK w \in A : A = {w}
      BY <2>1, <2>3
    <3>2. Cardinality(A) = 1
      BY <3>1, FS_Singleton
    <3>. QED BY <3>2 DEF OneExecutor
  <2>. QED BY <2>2, <2>3
<1>2. TInv /\ Alone /\ [Next]_vars => (TInv /\ Alone)'
  BY TypeStep, AloneStep
<1>. QED BY <1>1, <1>2, TypeInit, AloneInit, PTL DEF Spec

-----------------------------------------------------------------------------
(* What a stop owes.                                                           *)

\* Whoever moves the queue, requests stand and what is over stays over.
LEMMA QueueAdvances ==
    ASSUME TInv, [Next]_vars
    PROVE  Advance(q, q')
<1>1. Sound(q) /\ Orderly(q)
  BY DEF TInv
<1>2. CASE q' = q
  BY <1>1, <1>2, Staying
<1>3. ASSUME Accepts(q), q' = Submitted(q) PROVE Advance(q, q')
  BY <1>1, <1>3, SubmittedSound
<1>4. ASSUME NEW j \in Jobs, q' = Cancelled(q, j) PROVE Advance(q, q')
  BY <1>1, <1>4, CancelledSound
<1>5. ASSUME NEW j \in Jobs, q' = Completed(q, j) PROVE Advance(q, q')
  BY <1>1, <1>5, CompletedSound
<1>6. ASSUME NEW j \in Jobs, q' = Failed(q, j) PROVE Advance(q, q')
  BY <1>1, <1>6, FailedSound
<1>7. ASSUME NEW j \in Jobs, q' = FinishedCancelled(q, j) PROVE Advance(q, q')
  BY <1>1, <1>7, FinishedCancelledSound
<1>8. CASE Called
  BY <1>2, <1>3, <1>4, <1>7, <1>8, CalledQueue
<1>10. ASSUME NEW w \in Workers, Owner(w) PROVE Advance(q, q')
  <2>1. CASE Settle(w)
    BY <2>1, SettleMoves
  <2>2. CASE Claim(w) \/ Spawn(w) \/ Stop(w) \/ StopSnapshot(w) \/ HangUp(w) \/ Joined(w)
             \/ OrphanSnapshot(w) \/ Release(w) \/ SecondPass(w)
    BY <1>2, <2>2 DEF Claim, Spawn, Stop, StopSnapshot, HangUp, Joined, OrphanSnapshot, Release,
                      SecondPass, OwnerOnly
  <2>. QED BY <1>10, <2>1, <2>2 DEF Owner, Stopping
<1>11. ASSUME NEW w \in Workers, Encoder(w) \/ Thread(w) PROVE Advance(q, q')
  <2>1. worker[w] \in WorkerType /\ (worker[w].thread \in Holding => worker[w].job \in Jobs)
    BY DEF TInv, PhaseOf
  <2>2. CASE ThreadSweep(w)
    <3>1. Head(worker[w].sweep) \in Jobs
      BY <2>1, <2>2, WorkerParts, HeadTailProperties DEF ThreadSweep
    <3>. QED BY <1>4, <2>2, <3>1 DEF ThreadSweep
  <2>3. CASE Finish(w)
    BY <1>5, <2>1, <2>3 DEF Finish, Holding
  <2>4. CASE Fail(w)
    BY <1>6, <2>1, <2>4 DEF Fail, Holding
  <2>5. CASE FinishCancelled(w)
    BY <1>6, <1>7, <2>1, <2>5 DEF FinishCancelled, Holding
  <2>6. CASE Top(w) \/ Look(w) \/ Check(w) \/ Wake(w) \/ Disconnect(w) \/ ExportCancelled(w)
             \/ Publish(w) \/ Withdraw(w) \/ Encoder(w)
    BY <1>2, <2>6 DEF Top, Look, Check, Wake, Disconnect, ExportCancelled, Publish, Withdraw,
                      Encoder, ExportFails, ExportReady, ExportPanics
  <2>. QED BY <1>11, <2>2, <2>3, <2>4, <2>5, <2>6 DEF Thread
<1>12. CASE UNCHANGED vars
  BY <1>2, <1>12 DEF vars
<1>. QED BY <1>8, <1>10, <1>11, <1>12 DEF Next, Called

\* A worker that stands still, or whose thread moves, still has its answers.
LEMMA AnswersStand ==
    ASSUME TInv, Advance(q, q'), NEW v \in Workers, NEW j \in Jobs, Answered(v, worker[v], j),
           worker'[v].pc = worker[v].pc, worker'[v].todo = worker[v].todo,
           worker'[v].rounds = worker[v].rounds
    PROVE  Answered(v, worker[v], j)'
<1>1. /\ q.outcome[j] \in Ends => q'.outcome[j] \in Ends
      /\ q.outcome[j] = "accepted" => q'.outcome[j] \in {"accepted"} \cup Ends
      /\ j \in q.tokens => j \in q'.tokens
  BY DEF Advance
<1>. QED BY <1>1 DEF Answered

\* The entries of a snapshot are all there is.
LEMMA InSnapshot ==
    ASSUME TInv, NEW j \in Jobs, q.outcome[j] = "accepted",
           NEW how \in [Jobs -> {"cancel", "finish", "fail"}]
    PROVE  /\ \E i \in DOMAIN ToDo(States(q), how) : ToDo(States(q), how)[i].job = j
           /\ j = q.active => /\ ToDo(States(q), how) # <<>>
                              /\ ToDo(States(q), how)[1] = [job |-> j, how |-> how[j]]
<1>1. /\ States(q) \in Seq(Jobs) /\ Sound(q) /\ QueueSound(q) /\ j \in Live(q)
  BY StatesOf, SoundIsQueueSound DEF TInv, Sound, Live
<1>2. j \in ToSet(States(q))
  BY <1>1 DEF QueueSound
<1>. DEFINE a == States(q)
            d == ToDo(a, how)
<1>. HIDE DEF a
<1>3. a \in Seq(Jobs) /\ ToSet(a) = {a[i] : i \in 1..Len(a)} /\ Len(a) \in Nat
  BY <1>1, Elements DEF a
<1>4. /\ d \in Seq(Entry) /\ Len(d) = Len(a)
      /\ \A i \in 1..Len(a) : d[i].job = a[i] /\ d[i] = [job |-> a[i], how |-> how[a[i]]]
  BY <1>3, ToDoOf
<1>. HIDE DEF d
<1>5. DOMAIN d = 1..Len(a)
  BY <1>4, Elements
<1>6. PICK i \in 1..Len(a) : a[i] = j
  BY <1>2, <1>3 DEF a
<1>7. d[i].job = j
  BY <1>4, <1>6
<1>8. ASSUME j = q.active PROVE d # <<>> /\ d[1] = [job |-> j, how |-> how[j]]
  <2>1. q.active # None /\ q \in QueueType
    BY <1>1, <1>8, QueueParts DEF Sound
  <2>2. a[1] = j
    BY <1>8, <2>1, StatesOf DEF a
  <2>3. 1 \in 1..Len(a)
    BY <1>3, <1>6
  <2>4. d # <<>>
    BY <1>3, <1>4, <1>6
  <2>. QED BY <1>4, <2>2, <2>3, <2>4
<1>. QED BY <1>5, <1>6, <1>7, <1>8 DEF a, d

\* Workers are numbered in the order they are claimed.
Fresh == \A w \in Workers : w > starts => worker[w].pc = "none"

LEMMA FreshInit == Init => Fresh
BY NoWorkerFacts DEF Init, Fresh

LEMMA FreshStep ==
    ASSUME TInv, Fresh, [Next]_vars
    PROVE  Fresh'
<1>0. starts \in Nat /\ \A w \in Workers : w \in Nat
  BY MaxWorkersAssumption DEF TInv, Workers
<1>1. ASSUME NEW w \in Workers, OthersStand(w), starts' = starts,
             worker[w].pc # "none" \/ worker'[w].pc = worker[w].pc
      PROVE  Fresh'
  BY <1>1 DEF Fresh, OthersStand
<1>2. CASE UNCHANGED <<worker, starts>>
  BY <1>2 DEF Fresh
<1>3. ASSUME NEW w \in Workers, Claim(w) PROVE Fresh'
  <2>1. starts' = w /\ w = starts + 1 /\ OthersStand(w)
    BY <1>3, OwnerFields DEF Claim
  <2>. QED BY <1>0, <2>1 DEF Fresh, OthersStand
<1>4. ASSUME NEW w \in Workers, Spawn(w) \/ Stop(w) \/ StopSnapshot(w) \/ HangUp(w) \/ Joined(w)
                                \/ OrphanSnapshot(w) \/ Release(w) \/ SecondPass(w)
      PROVE  Fresh'
  <2>1. OthersStand(w) /\ starts' = starts
    BY <1>4, OwnerFields DEF OwnerAt, Spawn, Stop, StopSnapshot, HangUp, Joined, OrphanSnapshot,
                             Release, SecondPass
  <2>2. worker[w].pc # "none"
    BY <1>4 DEF Spawn, Stop, StopSnapshot, HangUp, Joined, OrphanSnapshot, Release, SecondPass
  <2>. QED BY <1>1, <2>1, <2>2
<1>5. ASSUME NEW w \in Workers, Settle(w) PROVE Fresh'
  BY <1>1, <1>5, OwnerFields DEF OwnerAt, Settle
<1>6. ASSUME NEW w \in Workers, Encoder(w) \/ Thread(w) PROVE Fresh'
  BY <1>1, <1>6, ThreadKeeps
<1>7. CASE Called
  BY <1>2, <1>7, CalledFields
<1>8. CASE UNCHANGED vars
  BY <1>2, <1>8 DEF vars
<1>. QED BY <1>3, <1>4, <1>5, <1>6, <1>7, <1>8 DEF Next, Called, Owner, Stopping

LEMMA OwingInit == Init => Owing
BY DEF Init, Owing

LEMMA OwingStep ==
    ASSUME TInv, Fresh, Owing, [Next]_vars
    PROVE  Owing'
<1>0. Advance(q, q') /\ Sound(q) /\ Orderly(q) /\ owed \in [Workers -> SUBSET Jobs]
  BY QueueAdvances DEF TInv
<1>1. ASSUME NEW w \in Workers, OthersStand(w), \A v \in Workers \ {w} : owed'[v] = owed[v],
             \A j \in owed'[w] : Answered(w, worker[w], j)'
      PROVE  Owing'
  <2>. SUFFICES ASSUME NEW v \in Workers, NEW j \in owed'[v] PROVE Answered(v, worker[v], j)'
    BY DEF Owing
  <2>1. CASE v = w
    BY <1>1, <2>1
  <2>2. CASE v # w
    <3>1. worker'[v] = worker[v] /\ j \in owed[v] /\ j \in Jobs
      BY <1>0, <1>1, <2>2 DEF OthersStand
    <3>. QED BY <1>0, <3>1, AnswersStand DEF Owing
  <2>. QED BY <2>1, <2>2
<1>2. CASE UNCHANGED <<worker, owed>>
  <2>. SUFFICES ASSUME NEW v \in Workers, NEW j \in owed[v] PROVE Answered(v, worker[v], j)'
    BY <1>2 DEF Owing
  <2>. QED BY <1>0, <1>2, AnswersStand DEF Owing
\* A worker whose pc does not allow anything to be owed but what is over.
<1>3. ASSUME NEW w \in Workers, worker[w].pc \in Out \cup {"claimed", "running"}, OthersStand(w), owed' = owed
      PROVE  Owing'
  <2>1. \A j \in owed[w] : q.outcome[j] \in Ends /\ j \in Jobs
    BY <1>0, <1>3 DEF Owing, Answered, Out
  <2>2. \A j \in owed[w] : q'.outcome[j] \in Ends
    BY <1>0, <2>1 DEF Advance
  <2>. QED BY <1>1, <1>3, <2>2 DEF Answered
<1>4. ASSUME NEW w \in Workers, Claim(w) PROVE Owing'
  <2>1. w > starts /\ OthersStand(w) /\ owed' = owed
    <3>1. starts \in Nat /\ w = starts + 1 /\ owed' = owed
      BY <1>4 DEF TInv, Claim
    <3>2. w > starts
      BY <3>1
    <3>. QED BY <1>4, <3>1, <3>2, OwnerFields
  <2>2. worker[w].pc \in Out
    BY <2>1 DEF Fresh, Out
  <2>. QED BY <1>3, <2>1, <2>2
<1>5. ASSUME NEW w \in Workers, Spawn(w) \/ SecondPass(w) PROVE Owing'
  <2>1. worker[w].pc \in Out \cup {"claimed", "running"} /\ owed' = owed
    BY <1>5 DEF Spawn, SecondPass, Out
  <2>2. OthersStand(w)
    BY <1>5, OwnerFields DEF OwnerAt
  <2>. QED BY <1>3, <2>1, <2>2
<1>6. ASSUME NEW w \in Workers, Stop(w) PROVE Owing'
  <2>1. /\ OwnerAt(w, "stop") /\ owed' = [owed EXCEPT ![w] = Live(q)] /\ q' = q
    BY <1>6, OwnerFields DEF Stop, OwnerOnly
  <2>2. owed'[w] = Live(q) /\ \A v \in Workers \ {w} : owed'[v] = owed[v]
    BY <1>0, <2>1
  <2>. QED BY <1>1, <2>1, <2>2 DEF OwnerAt, Answered, Live
\* Unchanged queue: what was accepted, over or asked to stop is so still.
<1>7. ASSUME NEW w \in Workers, StopSnapshot(w) PROVE Owing'
  <2>1. /\ OwnerAt(w, "sweep") /\ worker'[w].todo = ToDo(States(q), ByCancelling)
        /\ owed' = owed /\ q' = q /\ worker[w].pc = "stop"
    BY <1>7, OwnerFields DEF StopSnapshot, OwnerOnly, Sweep
  <2>2. ASSUME NEW j \in owed[w] PROVE Answered(w, worker[w], j)'
    <3>1. j \in Jobs /\ (q.outcome[j] \in Ends \/ q.outcome[j] = "accepted")
      BY <1>0 DEF Owing, Answered
    <3>2. CASE q.outcome[j] \in Ends
      BY <2>1, <3>2 DEF Answered
    <3>3. CASE q.outcome[j] = "accepted"
      <4>1. \E i \in DOMAIN worker'[w].todo : worker'[w].todo[i].job = j
        <5>1. ByCancelling \in [Jobs -> {"cancel", "finish", "fail"}]
          BY DEF ByCancelling
        <5>2. \E i \in DOMAIN ToDo(States(q), ByCancelling) : ToDo(States(q), ByCancelling)[i].job = j
          BY <3>1, <3>3, <5>1, InSnapshot
        <5>. QED BY <2>1, <5>2
      <4>. QED BY <2>1, <3>3, <4>1 DEF Answered, OwnerAt
    <3>. QED BY <3>1, <3>2, <3>3
  <2>. QED BY SMTT(30), <1>1, <2>1, <2>2 DEF OwnerAt
<1>8. ASSUME NEW w \in Workers, HangUp(w) PROVE Owing'
  <2>1. /\ OwnerAt(w, "joining") /\ owed' = owed /\ q' = q /\ worker[w].pc = "sweep" /\ worker[w].todo = <<>>
    BY <1>8, OwnerFields DEF HangUp, OwnerOnly
  <2>2. DOMAIN worker[w].todo = {}
    BY <2>1
  <2>. QED BY <1>1, <2>1, <2>2 DEF OwnerAt, Owing, Answered
<1>9. ASSUME NEW w \in Workers, Joined(w) PROVE Owing'
  <2>1. /\ OthersStand(w) /\ worker'[w].pc = "finish" /\ worker'[w].rounds \in {1, 2}
        /\ owed' = owed /\ q' = q /\ worker[w].pc = "joining"
    BY <1>9, OwnerFields DEF Joined, OwnerOnly
  <2>2. worker'[w].rounds > 0
    BY <2>1
  <2>. QED BY ZenonT(60), <1>1, <2>1, <2>2 DEF Owing, Answered
<1>10. ASSUME NEW w \in Workers, OrphanSnapshot(w) PROVE Owing'
  <2>1. /\ OwnerAt(w, worker[w].pc) /\ worker'[w].todo = ToDo(States(q), ByFinishing)
        /\ owed' = owed /\ q' = q /\ worker[w].pc \in {"finish", "again"}
    BY <1>10, OwnerFields DEF OrphanSnapshot, OwnerOnly
  <2>2. ByFinishing \in [Jobs -> {"cancel", "finish", "fail"}]
    BY DEF ByFinishing
  <2>3. ASSUME NEW j \in owed[w] PROVE Answered(w, worker[w], j)'
    <3>1. j \in Jobs /\ Answered(w, worker[w], j)
      BY <1>0 DEF Owing
    <3>2. CASE q.outcome[j] \in Ends
      BY <2>1, <3>2 DEF Answered
    <3>3. CASE q.outcome[j] \notin Ends
      <4>1. q.outcome[j] = "accepted" /\ worker[w].pc = "finish" /\ j \in q.tokens
        BY <2>1, <3>1, <3>3 DEF Answered
      <4>2. j = q.active
        BY <1>0, <3>3, <4>1 DEF Orderly
      <4>3. ByFinishing[j] = "finish"
        BY <3>1, <4>1, <4>2 DEF ByFinishing, Requested
      <4>4. worker'[w].todo # <<>> /\ worker'[w].todo[1] = [job |-> j, how |-> "finish"]
        BY <2>1, <2>2, <3>1, <4>1, <4>2, <4>3, InSnapshot
      <4>. QED BY <2>1, <4>1, <4>4 DEF Answered, OwnerAt
    <3>. QED BY <3>2, <3>3
  <2>. QED BY SMTT(30), <1>1, <2>1, <2>3 DEF OwnerAt
<1>11. ASSUME NEW w \in Workers, Release(w) PROVE Owing'
  <2>1. /\ OwnerAt(w, IF worker[w].passes = 2 THEN "released" ELSE "none") /\ owed' = owed /\ q' = q
        /\ worker[w].pc \in {"finish", "again"} /\ worker[w].todo = <<>> /\ worker[w].rounds = 0
    BY <1>11, OwnerFields DEF Release, OwnerOnly
  <2>2. ~ (worker[w].rounds > 0)
    BY <2>1
  <2>3. \A j \in owed[w] : q.outcome[j] \in Ends
    BY <2>1, <2>2 DEF Owing, Answered
  <2>. QED BY SMTT(30), <1>1, <2>1, <2>3 DEF OwnerAt, Answered
<1>12. ASSUME NEW w \in Workers, Encoder(w) \/ Thread(w) PROVE Owing'
  <2>1. OthersStand(w) /\ owed' = owed
    BY <1>12, ThreadKeeps
  <2>2. \A j \in owed[w] : Answered(w, worker[w], j)'
    BY <1>0, <1>12, ThreadKeeps, AnswersStand DEF Owing
  <2>. QED BY <1>1, <2>1, <2>2
<1>13. ASSUME NEW w \in Workers, Settle(w) PROVE Owing'
  <2>. DEFINE d == worker[w].todo
              e == Head(d)
  <2>1. /\ OwnerAt(w, worker[w].pc) /\ worker'[w].todo = Tail(d) /\ worker'[w].rounds = worker[w].rounds
        /\ owed' = owed
    BY <1>13, OwnerFields DEF Settle
  <2>2. /\ d \in Seq(Entry) /\ d # <<>> /\ e \in Entry /\ Tail(d) \in Seq(Entry) /\ e = d[1]
        /\ \/ e.how = "cancel" /\ q' = Cancelled(q, e.job)
           \/ e.how = "finish" /\ q' = FinishedCancelled(q, e.job)
           \/ e.how = "fail" /\ q' = Failed(q, e.job)
    BY <1>13, SettleMoves
  <2>. HIDE DEF e
  <2>3. PhaseOf(worker[w])
    BY DEF TInv
  <2>. HIDE DEF d
  <2>4. /\ Len(Tail(d)) = Len(d) - 1 /\ Len(d) \in Nat /\ \A i \in 1..Len(Tail(d)) : Tail(d)[i] = d[i + 1]
        /\ DOMAIN d = 1..Len(d) /\ DOMAIN Tail(d) = 1..Len(Tail(d))
    BY <2>2, HeadTailProperties, Elements
  <2>5. ASSUME NEW j \in owed[w] PROVE Answered(w, worker[w], j)'
    <3>1. j \in Jobs /\ Answered(w, worker[w], j)
      BY <1>0 DEF Owing
    <3>2. /\ q.outcome[j] \in Ends => q'.outcome[j] \in Ends
          /\ q.outcome[j] = "accepted" => q'.outcome[j] \in {"accepted"} \cup Ends
          /\ j \in q.tokens => j \in q'.tokens
      BY <1>0, <3>1 DEF Advance
    <3>3. CASE q'.outcome[j] \in Ends
      BY <3>3 DEF Answered
    <3>4. CASE q'.outcome[j] \notin Ends
      <4>1. q.outcome[j] = "accepted" /\ q'.outcome[j] = "accepted"
        BY <3>1, <3>2, <3>4 DEF Answered
      <4>2. worker[w].pc # "stop"
        BY <2>2, <2>3 DEF PhaseOf, d
      <4>3. CASE worker[w].pc = "sweep" /\ \E i \in DOMAIN d : d[i].job = j
        <5>1. PICK i \in 1..Len(d) : d[i].job = j
          BY <2>4, <4>3
        <5>2. CASE i = 1
          <6>1. e.how = "cancel" /\ e.job = j
            BY <2>2, <2>3, <2>4, <4>3, <5>1, <5>2 DEF PhaseOf, d
          <6>2. j \in q'.tokens
            BY <1>0, <2>2, <3>1, <4>1, <6>1, CancelledSound
          <6>. QED BY <2>1, <4>1, <4>3, <6>2 DEF Answered, OwnerAt
        <5>3. CASE i # 1
          <6>1. i - 1 \in 1..Len(Tail(d)) /\ (i - 1) + 1 = i
            BY <2>4, <5>3
          <6>2. i - 1 \in DOMAIN Tail(d) /\ Tail(d)[i - 1].job = j
            BY <2>4, <5>1, <6>1
          <6>. QED BY <2>1, <4>1, <4>3, <6>2 DEF Answered, OwnerAt
        <5>. QED BY <5>2, <5>3
      <4>4. CASE worker[w].pc \in {"sweep", "joining"} /\ j \in q.tokens
        BY <2>1, <3>2, <4>1, <4>4 DEF Answered, OwnerAt
      <4>5. CASE worker[w].pc = "finish" /\ j \in q.tokens /\ worker[w].rounds > 0
        BY <2>1, <3>2, <4>1, <4>5 DEF Answered, OwnerAt
      <4>6. CASE worker[w].pc = "finish" /\ j \in q.tokens /\ d[1] = [job |-> j, how |-> "finish"]
        <5>1. e.how = "finish" /\ e.job = j /\ q.active = j
          BY <1>0, <2>2, <4>1, <4>6 DEF Orderly, Ends
        <5>2. q'.outcome[j] = "cancelled"
          <6>1. q' = FinishedCancelled(q, j) /\ j \in DOMAIN q.outcome
            BY <1>0, <2>2, <3>1, <5>1, QueueParts
          <6>2. q'.outcome = [q.outcome EXCEPT ![j] = "cancelled"]
            BY <1>0, <3>1, <4>6, <5>1, <6>1, FinishedCancelledSound
          <6>. QED BY <6>1, <6>2
        <5>. QED BY <4>1, <5>2
      <4>. QED BY <3>1, <4>1, <4>2, <4>3, <4>4, <4>5, <4>6 DEF Answered, d, Ends
    <3>. QED BY <3>3, <3>4
  <2>. QED BY <1>1, <2>1, <2>5 DEF OwnerAt
<1>14. CASE Called
  BY <1>2, <1>14, CalledFields
<1>15. CASE UNCHANGED vars
  BY <1>2, <1>15 DEF vars
<1>. QED BY <1>4, <1>5, <1>6, <1>7, <1>8, <1>9, <1>10, <1>11, <1>12, <1>13, <1>14, <1>15
         DEF Next, Called, Owner, Stopping

\* A stop leaves no job behind: whatever was accepted before it began is over when
\* the worker is gone, though its thread may have died, may never have heard of the
\* job, or may have had others promoted under its hands.  Even with two workers.
THEOREM ShutdownAlwaysAnswers == Spec => []ShutdownAnswersAll
<1>1. TInv /\ Owing => ShutdownAnswersAll
  <2>. SUFFICES ASSUME TInv, Owing, NEW w \in Workers, worker[w].pc \in {"none", "released", "again"}
                PROVE  owed[w] \subseteq Over(q)
    BY DEF ShutdownAnswersAll
  <2>1. \A j \in owed[w] : j \in Jobs /\ q.outcome[j] \in Ends
    BY DEF TInv, Owing, Answered
  <2>. QED BY <2>1 DEF Over
<1>2. TInv /\ Fresh /\ Owing /\ [Next]_vars => (TInv /\ Fresh /\ Owing)'
  BY TypeStep, FreshStep, OwingStep
<1>. QED BY <1>1, <1>2, TypeInit, FreshInit, OwingInit, PTL DEF Spec

-----------------------------------------------------------------------------
(* What is told.                                                               *)

\* A move of the queue that completes nothing, and asks no completed job to stop.
Quiet(s, r) ==
    /\ Advance(s, r)
    /\ \A j \in Jobs : r.outcome[j] = "completed" =>
         s.outcome[j] = "completed" /\ (j \in r.tokens => j \in s.tokens)

LEMMA QuietCancelled ==
    ASSUME NEW s, Sound(s), Orderly(s), NEW j \in Jobs
    PROVE  Quiet(s, Cancelled(s, j))
<1>. DEFINE r == Cancelled(s, j)
<1>1. /\ Advance(s, r) /\ r.tokens \subseteq s.tokens \cup {j}
      /\ \A k \in Jobs : k # j => r.outcome[k] = s.outcome[k]
      /\ s.outcome[j] # "accepted" => r = s
      /\ s.outcome[j] = "accepted" /\ j # s.active => r.outcome[j] = "cancelled"
      /\ j = s.active => r.outcome = s.outcome
  BY CancelledSound
<1>. HIDE DEF r
<1>2. ASSUME NEW k \in Jobs, r.outcome[k] = "completed"
      PROVE  s.outcome[k] = "completed" /\ (k \in r.tokens => k \in s.tokens)
  <2>1. CASE k # j
    BY <1>1, <1>2, <2>1
  <2>2. CASE k = j
    BY <1>1, <1>2, <2>2
  <2>. QED BY <2>1, <2>2
<1>. QED BY <1>1, <1>2 DEF Quiet, r

LEMMA QuietEnds ==
    ASSUME NEW s, Sound(s), Orderly(s), NEW j \in Jobs
    PROVE  Quiet(s, Failed(s, j)) /\ Quiet(s, FinishedCancelled(s, j)) /\ Quiet(s, s)
<1>0. s.outcome \in [Jobs -> {"none", "accepted"} \cup Ends]
  BY QueueParts
<1>1. Quiet(s, s)
  BY Staying DEF Quiet
<1>2. Quiet(s, Failed(s, j))
  BY <1>0, <1>1, FailedSound DEF Quiet
<1>3. Quiet(s, FinishedCancelled(s, j))
  BY ZenonT(60), <1>0, <1>1, FinishedCancelledSound DEF Quiet
<1>. QED BY <1>1, <1>2, <1>3

LEMMA QuietSubmitted ==
    ASSUME NEW s, Sound(s), Orderly(s), Accepts(s)
    PROVE  Quiet(s, Submitted(s))
<1>1. s.outcome \in [Jobs -> {"none", "accepted"} \cup Ends]
  BY QueueParts
<1>2. /\ Advance(s, Submitted(s)) /\ NextId(s) \in Jobs /\ Submitted(s).tokens = s.tokens
      /\ Submitted(s).outcome = [s.outcome EXCEPT ![NextId(s)] = "accepted"]
  BY SubmittedSound
<1>. QED BY <1>1, <1>2 DEF Quiet

LEMMA KeptInit == Init => Calling /\ Kept /\ Refused /\ Files
<1>. SUFFICES ASSUME Init PROVE Calling /\ Kept /\ Refused /\ Files
  OBVIOUS
<1>1. \A w \in Workers : worker[w].thread = "none"
  BY NoWorkerFacts DEF Init
<1>2. \A j \in Jobs : q.outcome[j] = "none" /\ file[j] = "none"
  BY DEF Init, EmptyQueue
<1>3. rejected = {} /\ \A w \in Workers, j \in Jobs : calls[w][j] = "none"
  BY DEF Init
<1>. QED BY <1>1, <1>2, <1>3 DEF Calling, Kept, Refused, Files, Holding

LEMMA CallingStep ==
    ASSUME TInv, Fresh, Calling, [Next]_vars
    PROVE  Calling'
<1>1. \A j \in Jobs : q.outcome[j] # "none" => q'.outcome[j] # "none"
  <2>1. Advance(q, q') /\ \A j \in Jobs : q.outcome[j] \in {"none", "accepted"} \cup Ends
    BY QueueAdvances, QueueParts DEF TInv
  <2>. QED BY <2>1 DEF Advance, Ends
\* Nothing happens to a call, and a worker with one stays as it is.
<1>2. ASSUME calls' = calls,
             \A v \in Workers, j \in Jobs : calls[v][j] # "none" =>
                 worker'[v].pc = "running" /\ (worker[v].thread = "dead" => worker'[v].thread = "dead")
      PROVE  Calling'
  BY <1>1, <1>2 DEF Calling
<1>3. ASSUME NEW w \in Workers, calls' = calls, OthersStand(w), \A j \in Jobs : calls[w][j] = "none"
      PROVE  Calling'
  BY <1>2, <1>3 DEF Calling, OthersStand
<1>4. ASSUME NEW w \in Workers, Owner(w) PROVE Calling'
  <2>1. calls' = calls
    BY <1>4 DEF Owner, Stopping, Claim, Spawn, Stop, StopSnapshot, Settle, HangUp, Joined,
                OrphanSnapshot, Release, SecondPass, OwnerOnly
  <2>2. OthersStand(w)
    BY <1>4, OwnerFields DEF Owner, Stopping, OwnerAt
  <2>3. CASE Stop(w)
    BY <1>3, <2>1, <2>2, <2>3 DEF Stop
  <2>4. CASE ~ Stop(w)
    <3>1. worker[w].pc # "running"
      <4>1. PhaseOf(worker[w])
        BY DEF TInv
      <4>2. CASE Claim(w)
        <5>1. w > starts
          BY <4>2, MaxWorkersAssumption DEF TInv, Claim
        <5>. QED BY <5>1 DEF Fresh
      <4>3. CASE Settle(w)
        BY <4>1, <4>3 DEF Settle, PhaseOf
      <4>4. CASE Spawn(w) \/ StopSnapshot(w) \/ HangUp(w) \/ Joined(w) \/ OrphanSnapshot(w)
                 \/ Release(w) \/ SecondPass(w)
        BY <4>4 DEF Spawn, StopSnapshot, HangUp, Joined, OrphanSnapshot, Release, SecondPass
      <4>. QED BY <1>4, <2>4, <4>2, <4>3, <4>4 DEF Owner, Stopping
    <3>2. \A j \in Jobs : calls[w][j] = "none"
      BY <3>1 DEF Calling
    <3>. QED BY <1>3, <2>1, <2>2, <3>2
  <2>. QED BY <2>3, <2>4
<1>5. ASSUME NEW w \in Workers, Encoder(w) \/ Thread(w) PROVE Calling'
  <2>1. /\ OthersStand(w) /\ worker'[w].pc = worker[w].pc /\ worker[w].thread \notin Gone
        /\ calls' = calls
    BY <1>5, ThreadKeeps
  <2>2. worker[w].thread # "dead"
    BY <2>1 DEF Gone
  <2>. QED BY <1>2, <2>1, <2>2 DEF Calling, OthersStand
<1>6. CASE Submit \/ \E j \in Jobs : Cancel(j)
  BY <1>2, <1>6 DEF Submit, Cancel, Calling
<1>7. ASSUME NEW w \in Workers, SubmitThrough(w) PROVE Calling'
  <2>. DEFINE n == NextId(q)
  <2>1. /\ worker[w].pc = "running" /\ worker' = worker
        /\ n \in Jobs /\ CallAt(w, n, "wake")
        /\ q'.outcome = [q.outcome EXCEPT ![n] = "accepted"]
    BY <1>7, SubmittedSound DEF SubmitThrough, TInv
  <2>. HIDE DEF n
  <2>2. q'.outcome[n] = "accepted"
    BY <2>1, QueueParts DEF TInv
  <2>3. \A v \in Workers, k \in Jobs :
           calls'[v][k] = IF v = w /\ k = n THEN "wake" ELSE calls[v][k]
    BY <2>1, CallAtFacts
  <2>4. ASSUME NEW v \in Workers, NEW k \in Jobs, calls'[v][k] # "none"
        PROVE  /\ worker'[v].pc = "running" /\ q'.outcome[k] # "none"
               /\ calls'[v][k] \in {"cancel", "finish"} => worker'[v].thread = "dead"
    <3>1. CASE v = w /\ k = n
      BY <2>1, <2>2, <2>3, <3>1
    <3>2. CASE ~ (v = w /\ k = n)
      BY <1>1, <2>1, <2>3, <2>4, <3>2 DEF Calling
    <3>. QED BY <3>1, <3>2
  <2>. QED BY <2>4 DEF Calling
<1>8. ASSUME NEW w \in Workers, NEW j \in Jobs, Call(w, j) PROVE Calling'
  <2>1. PICK step \in {"none", "cancel", "finish"} :
          /\ CallAt(w, j, step) /\ calls[w][j] # "none"
          /\ step = "cancel" => worker[w].thread = "dead"
          /\ step = "finish" => calls[w][j] = "cancel"
    BY <1>8, CallMoves
  <2>2. worker' = worker
    BY <1>8, CalledFields DEF Called
  <2>3. \A v \in Workers, k \in Jobs :
           calls'[v][k] = IF v = w /\ k = j THEN step ELSE calls[v][k]
    BY <2>1, CallAtFacts
  <2>4. /\ worker[w].pc = "running" /\ q'.outcome[j] # "none"
        /\ step \in {"cancel", "finish"} => worker[w].thread = "dead"
    BY <1>1, <2>1 DEF Calling
  <2>5. ASSUME NEW v \in Workers, NEW k \in Jobs, calls'[v][k] # "none"
        PROVE  /\ worker'[v].pc = "running" /\ q'.outcome[k] # "none"
               /\ calls'[v][k] \in {"cancel", "finish"} => worker'[v].thread = "dead"
    <3>1. CASE v = w /\ k = j
      BY <2>2, <2>3, <2>4, <3>1
    <3>2. CASE ~ (v = w /\ k = j)
      BY <1>1, <2>2, <2>3, <2>5, <3>2 DEF Calling
    <3>. QED BY <3>1, <3>2
  <2>. QED BY <2>5 DEF Calling
<1>9. CASE UNCHANGED vars
  BY <1>9 DEF vars, Calling
<1>. QED BY <1>4, <1>5, <1>6, <1>7, <1>8, <1>9 DEF Next, Client

\* As long as the queue completes nothing and no thread publishes or withdraws, the
\* destinations agree with the records.
LEMMA FilesStand ==
    ASSUME TInv, Files, Quiet(q, q'), file' = file,
           \A v \in Workers : worker[v].thread \in {"published", "withdraw"} =>
               worker'[v].thread \in {"published", "withdraw"} /\ worker'[v].job = worker[v].job,
           \A v \in Workers : worker'[v].thread = "published" =>
               worker[v].thread = "published" /\ worker'[v].job = worker[v].job
    PROVE  Files'
<1>1. ASSUME NEW j \in Jobs, file[j] = "published"
      PROVE  \/ q'.outcome[j] = "completed"
             \/ \E w \in Workers : worker'[w].thread \in {"published", "withdraw"} /\ worker'[w].job = j
  <2>1. CASE q.outcome[j] = "completed"
    BY <2>1 DEF Quiet, Advance, Ends
  <2>2. CASE q.outcome[j] # "completed"
    BY <1>1, <2>2 DEF Files
  <2>. QED BY <2>1, <2>2
<1>2. ASSUME NEW j \in Jobs, q'.outcome[j] = "completed"
      PROVE  file[j] = "published" /\ j \notin q'.tokens
  BY <1>2 DEF Files, Quiet
<1>3. \A w \in Workers : worker'[w].thread = "published" => file[worker'[w].job] = "published"
  BY DEF Files
<1>. QED BY <1>1, <1>2, <1>3 DEF Files

\* A client leaves the active job where it is, but for the one it takes back from a
\* dead thread, beside which there is no other.
LEMMA ClientKeeps ==
    ASSUME TInv, Alone, Calling, Kept, Files, Called
    PROVE  Kept' /\ Files'
<1>1. Sound(q) /\ Orderly(q) /\ worker' = worker /\ file' = file
  BY CalledFields DEF TInv
<1>2. ASSUME NEW w \in Workers, worker[w].thread \in Holding PROVE q.active # None
  BY <1>1, <1>2, QueueParts DEF TInv, PhaseOf, Kept
<1>3. ASSUME Quiet(q, q'), \A w \in Workers : worker[w].thread \in Holding => q'.active = q.active
      PROVE  Kept' /\ Files'
  <2>1. Files'
    BY <1>1, <1>3, FilesStand
  <2>2. Kept'
    BY <1>1, <1>3 DEF Kept
  <2>. QED BY <2>1, <2>2
<1>4. CASE q' = q
  BY <1>1, <1>3, <1>4, Staying DEF Quiet
<1>5. CASE Accepts(q) /\ q' = Submitted(q)
  <2>1. Quiet(q, q') /\ (q.active # None => q'.active = q.active)
    BY <1>1, <1>5, QuietSubmitted, SubmittedSound
  <2>. QED BY <1>2, <1>3, <2>1
<1>6. ASSUME NEW j \in Jobs, q' = Cancelled(q, j) PROVE Kept' /\ Files'
  <2>1. Quiet(q, q') /\ q'.active = q.active
    BY <1>1, <1>6, QuietCancelled, CancelledSound
  <2>. QED BY <1>3, <2>1
<1>7. ASSUME NEW w \in Workers, NEW j \in Jobs, calls[w][j] = "finish", q' = FinishedCancelled(q, j)
      PROVE  Kept' /\ Files'
  <2>1. worker[w].pc = "running" /\ worker[w].thread = "dead"
    BY <1>7 DEF Calling
  <2>2. \A v \in Workers : worker[v].thread \notin Holding
    BY <2>1, OthersGone DEF Holding
  <2>3. Quiet(q, q')
    BY <1>1, <1>7, QuietEnds
  <2>. QED BY <1>3, <2>2, <2>3
<1>. QED BY <1>4, <1>5, <1>6, <1>7, CalledQueue

LEMMA OwnerKeeps ==
    ASSUME TInv, Alone, Kept, Files, Overlap = FALSE, NEW w \in Workers,
           Claim(w) \/ Spawn(w) \/ Stop(w) \/ StopSnapshot(w) \/ HangUp(w) \/ Joined(w)
           \/ OrphanSnapshot(w) \/ Release(w) \/ SecondPass(w)
    PROVE  Kept' /\ Files'
<1>1. q' = q /\ file' = file
  BY DEF Claim, Spawn, Stop, StopSnapshot, HangUp, Joined, OrphanSnapshot, Release, SecondPass, OwnerOnly
<1>2. PhaseOf(worker[w])
  BY DEF TInv
<1>3. Quiet(q, q')
  BY <1>1, Staying DEF Quiet, TInv
\* No thread begins to hold a job, and none that publishes is let go.
<1>4. ASSUME OthersStand(w),
             worker[w].thread \in {"published", "withdraw"} =>
                 worker'[w].thread \in {"published", "withdraw"} /\ worker'[w].job = worker[w].job,
             worker'[w].thread \in Holding =>
                 worker'[w].thread = worker[w].thread /\ worker'[w].job = worker[w].job
      PROVE  Kept' /\ Files'
  <2>1. Files'
    <3>1. \A v \in Workers : worker[v].thread \in {"published", "withdraw"} =>
               worker'[v].thread \in {"published", "withdraw"} /\ worker'[v].job = worker[v].job
      BY <1>4 DEF OthersStand
    <3>2. \A v \in Workers : worker'[v].thread = "published" =>
               worker[v].thread = "published" /\ worker'[v].job = worker[v].job
      BY <1>4 DEF OthersStand, Holding
    <3>. QED BY <1>1, <1>3, <3>1, <3>2, FilesStand
  <2>2. Kept'
    BY <1>1, <1>4 DEF Kept, OthersStand
  <2>. QED BY <2>1, <2>2
<1>5. CASE Claim(w)
  <2>1. \A v \in Workers : worker[v].pc = "none" /\ worker[v].thread = "none"
    BY <1>5 DEF Claim, Alone, Returning, TInv, PhaseOf
  <2>2. OthersStand(w) /\ worker'[w].thread = "none"
    BY <1>5, OwnerFields
  <2>. QED BY <1>4, <2>1, <2>2 DEF Holding
<1>6. CASE Spawn(w)
  <2>1. worker[w].thread = "none"
    BY <1>2, <1>6 DEF Spawn, PhaseOf
  <2>2. OthersStand(w) /\ worker'[w].thread \in {"top", "none"}
    BY <1>6, OwnerFields
  <2>. QED BY <1>4, <2>1, <2>2 DEF Holding
<1>7. CASE Stop(w) \/ StopSnapshot(w) \/ HangUp(w) \/ OrphanSnapshot(w) \/ Release(w) \/ SecondPass(w)
  <2>1. OthersStand(w) /\ worker'[w].thread = worker[w].thread /\ worker'[w].job = worker[w].job
    BY ZenonT(60), <1>7, OwnerFields DEF OwnerAt
  <2>. QED BY <1>4, <2>1
<1>8. CASE Joined(w)
  <2>1. OthersStand(w) /\ worker'[w].thread = "none" /\ worker[w].thread \in Gone
    BY <1>8, OwnerFields DEF Joined, Alive
  <2>2. worker[w].thread \notin {"published", "withdraw"} /\ worker'[w].thread \notin Holding
    BY <2>1 DEF Holding, Gone
  <2>. QED BY <1>4, <2>1, <2>2
<1>. QED BY <1>5, <1>6, <1>7, <1>8

LEMMA SettleKeeps ==
    ASSUME TInv, Alone, Kept, Files, NEW w \in Workers, Settle(w)
    PROVE  Kept' /\ Files'
<1>. DEFINE d == worker[w].todo
            e == Head(d)
<1>0. Sound(q) /\ Orderly(q) /\ PhaseOf(worker[w])
  BY DEF TInv
<1>1. OwnerAt(w, worker[w].pc) /\ file' = file
  BY OwnerFields DEF Settle
<1>2. /\ d \in Seq(Entry) /\ d # <<>> /\ e \in Entry /\ e = d[1]
      /\ \/ e.how = "cancel" /\ q' = Cancelled(q, e.job)
         \/ e.how = "finish" /\ q' = FinishedCancelled(q, e.job)
         \/ e.how = "fail" /\ q' = Failed(q, e.job)
  BY SettleMoves
<1>. HIDE DEF e
<1>. HIDE DEF d
<1>3. e.job \in Jobs
  BY <1>2 DEF Entry
<1>4. Quiet(q, q')
  <2>1. Quiet(q, Cancelled(q, e.job)) /\ Quiet(q, FinishedCancelled(q, e.job)) /\ Quiet(q, Failed(q, e.job))
    BY <1>0, <1>3, QuietCancelled, QuietEnds
  <2>. QED BY <1>2, <2>1
<1>5. worker[w].pc \in {"sweep", "finish", "again"} /\ (worker[w].pc = "sweep" => e.how = "cancel")
  <2>1. 1 \in DOMAIN d
    BY <1>2, HeadTailProperties, Elements
  <2>. QED BY <1>0, <1>2, <2>1 DEF PhaseOf, d
<1>6. \A v \in Workers : v # w => worker[v].thread = "none"
  BY <1>5, OthersGone
<1>7. Files'
  <2>1. \A v \in Workers : worker'[v].thread = worker[v].thread /\ worker'[v].job = worker[v].job
    BY <1>1 DEF OwnerAt, OthersStand
  <2>. QED BY <1>1, <1>4, <2>1, FilesStand
<1>8. CASE worker[w].pc = "sweep"
  <2>1. q'.active = q.active
    BY <1>0, <1>2, <1>3, <1>5, <1>8, CancelledSound
  <2>2. Kept'
    BY <1>1, <1>6, <2>1 DEF Kept, OwnerAt, OthersStand
  <2>. QED BY <1>7, <2>2
<1>9. CASE worker[w].pc # "sweep"
  <2>1. worker[w].thread = "none"
    BY <1>0, <1>5, <1>9 DEF PhaseOf
  <2>2. Kept'
    BY <1>1, <1>6, <2>1 DEF Kept, OwnerAt, OthersStand, Holding
  <2>. QED BY <1>7, <2>2
<1>. QED BY <1>8, <1>9

LEMMA ThreadsKeep ==
    ASSUME TInv, Alone, Kept, Files, NEW w \in Workers, Encoder(w) \/ Thread(w)
    PROVE  Kept' /\ Files'
<1>. DEFINE s == worker[w]
            j == worker[w].job
<1>0. /\ Sound(q) /\ Orderly(q) /\ PhaseOf(s)
      /\ file \in [Jobs -> {"none", "published", "left"}]
  BY DEF TInv
<1>1. /\ OthersStand(w) /\ s.thread \notin Gone /\ worker'[w].pc = s.pc
  BY ThreadKeeps
<1>2. s.pc # "none" /\ s.thread # "dead"
  BY <1>0, <1>1 DEF PhaseOf, Gone
<1>3. \A v \in Workers : v # w => worker[v].thread = "none" /\ worker'[v].thread = "none"
  BY <1>1, <1>2, OthersGone DEF OthersStand
<1>4. s.thread \in Holding =>
         /\ j \in Jobs /\ q.active = j /\ q.outcome[j] = "accepted"
  <2>1. ASSUME s.thread \in Holding PROVE j \in Jobs /\ q.active = j
    BY <1>0, <2>1 DEF PhaseOf, Kept
  <2>. QED BY <1>0, <2>1, QueueParts
\* The thread holds what is active, or nothing.
<1>5. ASSUME worker'[w].thread \in Holding => q'.active = worker'[w].job
      PROVE  Kept'
  BY <1>1, <1>3, <1>5 DEF Kept, Holding
\* A quiet queue, and a thread that neither publishes nor withdraws.
<1>6. ASSUME Quiet(q, q'), file' = file,
             s.thread \notin {"published", "withdraw"}, worker'[w].thread \notin {"published", "withdraw"}
      PROVE  Files'
  <2>1. \A v \in Workers : /\ worker[v].thread \notin {"published", "withdraw"}
                           /\ worker'[v].thread \notin {"published", "withdraw"}
    BY <1>3, <1>6
  <2>. QED BY <1>1, <1>6, <2>1, FilesStand
<1>7. ASSUME q' = q, file' = file, s.thread \notin {"published", "withdraw"},
             worker'[w].thread \notin {"published", "withdraw"},
             worker'[w].thread \in Holding => q.active = worker'[w].job
      PROVE  Kept' /\ Files'
  <2>1. Quiet(q, q')
    BY <1>0, <1>7, Staying DEF Quiet
  <2>. QED BY <1>5, <1>6, <1>7, <2>1
<1>8. ASSUME NEW pc, Go(w, pc) PROVE worker'[w].thread = pc /\ worker'[w].job = j
  BY <1>8, ThreadFields DEF At
<1>9. CASE Top(w)
  <2>1. worker'[w].thread = "look" /\ q' = q /\ file' = file /\ s.thread = "top"
    BY <1>9, ThreadFields DEF Top, At
  <2>. QED BY SMTT(30), <1>7, <2>1 DEF Holding
<1>10. CASE ThreadSweep(w)
  <2>1. worker'[w].thread = "look" /\ file' = file /\ s.thread = "look"
    BY <1>10, ThreadFields DEF ThreadSweep, At
  <2>2. Head(s.sweep) \in Jobs
    BY <1>10, WorkerParts, HeadTailProperties DEF TInv, ThreadSweep
  <2>3. Quiet(q, q')
    BY <1>0, <1>10, <2>2, QuietCancelled DEF ThreadSweep
  <2>. QED BY <1>5, <1>6, <2>1, <2>3 DEF Holding
<1>11. CASE Look(w)
  <2>1. /\ q' = q /\ file' = file /\ s.thread = "look"
        /\ \/ worker'[w].thread = "check"
           \/ worker'[w].thread = "export" /\ worker'[w].job = q.active
    BY <1>11, ThreadFields DEF Look
  <2>. QED BY SMTT(30), <1>7, <2>1 DEF Holding
<1>12. CASE Check(w) \/ Wake(w) \/ Disconnect(w)
  <2>1. /\ q' = q /\ file' = file /\ s.thread \in {"check", "idle"}
        /\ worker'[w].thread \in {"exited", "idle", "top"}
    BY <1>8, <1>12 DEF Check, Wake, Disconnect
  <2>. QED BY <1>7, <2>1 DEF Holding
<1>13. CASE ExportFails(w) \/ ExportReady(w) \/ ExportPanics(w) \/ ExportCancelled(w)
  <2>1. /\ q' = q /\ file' = file /\ s.thread = "export"
        /\ worker'[w].thread \in {"failed", "publish", "dead", "cancelled"} /\ worker'[w].job = j
    BY <1>8, <1>13 DEF ExportFails, ExportReady, ExportPanics, ExportCancelled
  <2>2. q.active = worker'[w].job
    BY <1>4, <2>1 DEF Holding
  <2>. QED BY <1>7, <2>1, <2>2
<1>14. CASE Publish(w)
  <2>1. /\ q' = q /\ s.thread = "publish" /\ worker'[w].job = j
        /\ \/ worker'[w].thread = "published" /\ file' = [file EXCEPT ![j] = "published"]
           \/ worker'[w].thread = "failed" /\ file' = file
    BY <1>8, <1>14 DEF Publish
  <2>2. j \in Jobs /\ q.active = j /\ q.outcome[j] = "accepted"
    BY <1>4, <2>1 DEF Holding
  <2>3. CASE worker'[w].thread = "failed" /\ file' = file
    BY <1>7, <2>1, <2>2, <2>3
  <2>4. CASE worker'[w].thread = "published" /\ file' = [file EXCEPT ![j] = "published"]
    <3>1. \A k \in Jobs : file'[k] = IF k = j THEN "published" ELSE file[k]
      BY <1>0, <2>4
    <3>2. \A v \in Workers : worker[v].thread \notin {"published", "withdraw"}
      BY <1>3, <2>1
    <3>3. Files'
      <4>1. ASSUME NEW k \in Jobs, file'[k] = "published"
            PROVE  \/ q'.outcome[k] = "completed"
                   \/ \E v \in Workers : worker'[v].thread \in {"published", "withdraw"} /\ worker'[v].job = k
        BY <2>1, <2>4, <3>1, <3>2, <4>1 DEF Files
      <4>2. ASSUME NEW v \in Workers, worker'[v].thread = "published"
            PROVE  file'[worker'[v].job] = "published"
        BY <1>3, <2>1, <2>2, <3>1, <4>2
      <4>3. ASSUME NEW k \in Jobs, q'.outcome[k] = "completed"
            PROVE  file'[k] = "published" /\ k \notin q'.tokens
        BY <1>1, <2>1, <3>1, <4>3 DEF Files
      <4>. QED BY <4>1, <4>2, <4>3 DEF Files
    <3>. QED BY <1>5, <2>1, <2>2, <2>4, <3>3
  <2>. QED BY <2>1, <2>3, <2>4
<1>15. CASE Withdraw(w)
  <2>1. /\ q' = q /\ s.thread = "withdraw" /\ worker'[w].job = j /\ worker'[w].thread = "cancelled"
        /\ \E left \in {"none", "left"} : file' = [file EXCEPT ![j] = left]
    BY <1>8, <1>15 DEF Withdraw
  <2>2. j \in Jobs /\ q.active = j /\ q.outcome[j] = "accepted"
    BY <1>4, <2>1 DEF Holding
  <2>3. /\ file'[j] # "published"
        /\ \A k \in Jobs : k # j => file'[k] = file[k]
    BY <1>0, <2>1, <2>2
  <2>4. Files'
    <3>1. ASSUME NEW k \in Jobs, file'[k] = "published" PROVE q'.outcome[k] = "completed"
      BY <1>3, <2>1, <2>3, <3>1 DEF Files
    <3>2. \A v \in Workers : worker'[v].thread # "published"
      BY <1>3, <2>1
    <3>3. ASSUME NEW k \in Jobs, q'.outcome[k] = "completed"
          PROVE  file'[k] = "published" /\ k \notin q'.tokens
      BY <1>1, <2>1, <2>2, <2>3, <3>3 DEF Files
    <3>. QED BY <3>1, <3>2, <3>3 DEF Files
  <2>. QED BY <1>5, <2>1, <2>2, <2>4
<1>16. CASE Finish(w)
  <2>1. /\ s.thread = "published" /\ q' = Completed(q, j) /\ file' = file
        /\ worker'[w].thread = IF q.active = j /\ Requested(q, j) THEN "withdraw" ELSE "top"
        /\ worker'[w].job = j
    BY <1>8, <1>16 DEF Finish
  <2>2. j \in Jobs /\ q.active = j /\ q.outcome[j] = "accepted"
    BY <1>4, <2>1 DEF Holding
  <2>3. file[j] = "published"
    BY <2>1 DEF Files
  <2>4. CASE j \in q.tokens
    <3>1. q' = q /\ worker'[w].thread = "withdraw"
      BY <1>0, <2>1, <2>2, <2>4, CompletedSound DEF Requested
    <3>2. Quiet(q, q')
      BY <1>0, <3>1, Staying DEF Quiet
    <3>3. Files'
      <4>1. \A v \in Workers : worker[v].thread \in {"published", "withdraw"} =>
               worker'[v].thread \in {"published", "withdraw"} /\ worker'[v].job = worker[v].job
        BY <1>3, <2>1, <3>1
      <4>2. \A v \in Workers : worker'[v].thread # "published"
        BY <1>3, <3>1
      <4>. QED BY <1>1, <2>1, <3>2, <4>1, <4>2, FilesStand
    <3>. QED BY <1>5, <2>1, <2>2, <3>1, <3>3
  <2>5. CASE j \notin q.tokens
    <3>1. /\ q'.outcome = [q.outcome EXCEPT ![j] = "completed"] /\ q'.tokens = q.tokens
          /\ worker'[w].thread = "top" /\ Advance(q, q')
      BY <1>0, <2>1, <2>2, <2>5, CompletedSound DEF Requested
    <3>2. \A k \in Jobs : q'.outcome[k] = IF k = j THEN "completed" ELSE q.outcome[k]
      BY <1>0, <3>1, QueueParts
    <3>3. Files'
      <4>1. ASSUME NEW k \in Jobs, file[k] = "published" PROVE q'.outcome[k] = "completed"
        BY <1>3, <3>2, <4>1 DEF Files
      <4>2. \A v \in Workers : worker'[v].thread # "published"
        BY <1>3, <3>1
      <4>3. ASSUME NEW k \in Jobs, q'.outcome[k] = "completed"
            PROVE  file[k] = "published" /\ k \notin q'.tokens
        BY <2>2, <2>3, <2>5, <3>1, <3>2, <4>3 DEF Files
      <4>. QED BY <1>1, <2>1, <4>1, <4>2, <4>3 DEF Files
    <3>. QED BY <1>5, <3>1, <3>3 DEF Holding
  <2>. QED BY <2>4, <2>5
<1>17. CASE Fail(w)
  <2>1. /\ s.thread = "failed" /\ q' = Failed(q, j) /\ file' = file
        /\ worker'[w].thread = IF q.active = j /\ Requested(q, j) THEN "cancelled" ELSE "top"
        /\ worker'[w].job = j
    BY <1>8, <1>17 DEF Fail
  <2>2. j \in Jobs /\ q.active = j
    BY <1>4, <2>1 DEF Holding
  <2>3. Quiet(q, q')
    BY <1>0, <2>1, <2>2, QuietEnds
  <2>4. worker'[w].thread = "cancelled" => q' = q
    BY <1>0, <2>1, <2>2, FailedSound DEF Requested
  <2>. QED BY <1>5, <1>6, <2>1, <2>2, <2>3, <2>4 DEF Holding
<1>18. CASE FinishCancelled(w)
  <2>1. /\ s.thread = "cancelled" /\ worker'[w].thread = "top" /\ file' = file
        /\ q' = FinishedCancelled(q, j) \/ q' = Failed(q, j)
    BY <1>8, <1>18 DEF FinishCancelled
  <2>2. j \in Jobs
    BY <1>4, <2>1 DEF Holding
  <2>3. Quiet(q, q')
    BY <1>0, <2>1, <2>2, QuietEnds
  <2>. QED BY <1>5, <1>6, <2>1, <2>3 DEF Holding
<1>. QED BY <1>9, <1>10, <1>11, <1>12, <1>13, <1>14, <1>15, <1>16, <1>17, <1>18 DEF Encoder, Thread

LEMMA KeptStep ==
    ASSUME Overlap = FALSE, TInv, Alone, Calling, Kept, Files, [Next]_vars
    PROVE  Kept' /\ Files'
<1>1. CASE UNCHANGED vars
  BY <1>1 DEF vars, Kept, Files
<1>2. ASSUME NEW w \in Workers, Owner(w) PROVE Kept' /\ Files'
  BY <1>2, OwnerKeeps, SettleKeeps DEF Owner, Stopping
<1>. QED BY <1>1, <1>2, ClientKeeps, ThreadsKeep DEF Next, Called

\* A terminal record tells what happened: completed, the file is there and nobody had
\* asked to cancel; otherwise nothing lies at the destination but what could not be
\* removed again.  Wherever a thread dies in a submit and whatever is taken back.
THEOREM OutcomesAlwaysTruthful ==
    ASSUME Overlap = FALSE
    PROVE  Spec => []OutcomeTruthful
<1>. DEFINE OInv == TInv /\ Fresh /\ Alone /\ Calling /\ Kept /\ Files
<1>1. OInv => OutcomeTruthful
  <2>. SUFFICES ASSUME OInv, NEW j \in Jobs, q.outcome[j] \in Ends
                PROVE  IF q.outcome[j] = "completed"
                       THEN file[j] = "published" /\ ~ Requested(q, j)
                       ELSE file[j] # "published"
    BY DEF OutcomeTruthful, Over
  <2>1. CASE q.outcome[j] = "completed"
    BY <2>1 DEF Files, Requested
  <2>2. CASE q.outcome[j] # "completed"
    <3>1. ASSUME file[j] = "published" PROVE q.active = j
      BY <2>2, <3>1 DEF Files, Kept, Holding
    <3>2. q.active = j => q.outcome[j] = "accepted"
      BY QueueParts DEF TInv
    <3>. QED BY <2>2, <3>1, <3>2 DEF Ends
  <2>. QED BY <2>1, <2>2
<1>2. OInv /\ [Next]_vars => OInv'
  BY TypeStep, FreshStep, AloneStep, CallingStep, KeptStep
<1>3. Init => OInv
  BY TypeInit, FreshInit, AloneInit, KeptInit
<1>. QED BY <1>1, <1>2, <1>3, PTL DEF Spec

-----------------------------------------------------------------------------
(* Refused jobs.                                                               *)

\* While a thread serves, every job whose submit failed after all is over.
LEMMA RefusedByThis ==
    ASSUME TInv, Alone, Refused, NEW w \in Workers, worker[w].thread \notin Gone, NEW j \in rejected
    PROVE  q.outcome[j] \in Ends
<1>1. worker[w].pc \notin {"none", "finish"} /\ worker[w].thread # "dead"
  BY DEF TInv, PhaseOf, Gone
<1>2. ~ Deserted(w)
  BY <1>1 DEF Deserted
<1>3. \A v \in Workers : Deserted(v) => v = w
  BY <1>1, OthersGone DEF Deserted
<1>. QED BY <1>2, <1>3 DEF Refused

\* A deserted worker is in nobody's way but its owner's, and leaves only when what it
\* owes is over.
LEMMA RefusedStep ==
    ASSUME TInv, Alone, Calling, Owing, Refused, [Next]_vars
    PROVE  Refused'
<1>0. rejected \subseteq Jobs /\ owed \in [Workers -> SUBSET Jobs]
  BY DEF TInv
<1>1. /\ \A j \in Jobs : q.outcome[j] \in Ends => q'.outcome[j] \in Ends
      /\ \A j \in Jobs : q.outcome[j] = "accepted" => q'.outcome[j] \in {"accepted"} \cup Ends
  BY QueueAdvances DEF Advance
\* It is enough to follow one job that is not over and the worker that was deserted.
<1>2. ASSUME rejected' = rejected,
             ASSUME NEW j \in rejected, q.outcome[j] = "accepted", NEW v \in Workers, Deserted(v),
                    worker[v].pc = "running" \/ j \in owed[v]
             PROVE  Deserted(v)' /\ (worker'[v].pc = "running" \/ j \in owed'[v])
      PROVE  Refused'
  <2>. SUFFICES ASSUME NEW j \in rejected, q'.outcome[j] \notin Ends
                PROVE  /\ q'.outcome[j] = "accepted"
                       /\ \E v \in Workers : Deserted(v)' /\ (worker'[v].pc = "running" \/ j \in owed'[v])
    BY <1>2 DEF Refused
  <2>1. PICK v \in Workers : /\ q.outcome[j] = "accepted" /\ Deserted(v)
                             /\ worker[v].pc = "running" \/ j \in owed[v]
    BY <1>0, <1>1 DEF Refused
  <2>. QED BY <1>0, <1>1, <1>2, <2>1
<1>3. CASE UNCHANGED vars
  BY <1>3 DEF vars, Refused, Deserted
<1>4. CASE Called
  <2>1. worker' = worker /\ owed' = owed
    BY <1>4, CalledFields
  <2>2. CASE rejected' = rejected
    BY <1>2, <2>1, <2>2 DEF Deserted
  <2>3. CASE rejected' # rejected
    <3>1. PICK w \in Workers, j \in Jobs : Unheard(w, j)
      BY <1>4, <2>3 DEF Called, Client, Call, Submit, Cancel, SubmitThrough, Heard, TakeBack, FinishTakenBack
    <3>2. /\ q' = q /\ rejected' = rejected \cup {j} /\ worker[w].thread = "dead"
          /\ worker[w].pc = "running" /\ q.outcome[j] # "none"
      BY <3>1 DEF Unheard, Calling
    <3>3. q.outcome[j] \in Ends \/ q.outcome[j] = "accepted"
      BY <3>2, QueueParts DEF TInv
    <3>. QED BY <2>1, <3>2, <3>3 DEF Refused, Deserted
  <2>. QED BY <2>2, <2>3
<1>5. ASSUME NEW w \in Workers, Encoder(w) \/ Thread(w) PROVE Refused'
  <2>1. worker[w].thread \notin Gone /\ rejected' = rejected
    BY <1>5, ThreadKeeps
  <2>2. \A j \in rejected : q.outcome[j] \in Ends
    BY <2>1, RefusedByThis
  <2>. QED BY <1>0, <1>1, <2>1, <2>2 DEF Refused
<1>6. ASSUME NEW w \in Workers, Owner(w) PROVE Refused'
  <2>1. rejected' = rejected
    BY <1>6 DEF Owner, Stopping, Claim, Spawn, Stop, StopSnapshot, Settle, HangUp, Joined,
                OrphanSnapshot, Release, SecondPass, OwnerOnly
  <2>. SUFFICES ASSUME NEW j \in rejected, q.outcome[j] = "accepted", NEW v \in Workers, Deserted(v),
                       worker[v].pc = "running" \/ j \in owed[v]
                PROVE  Deserted(v)' /\ (worker'[v].pc = "running" \/ j \in owed'[v])
    BY <1>2, <2>1
  <2>2. worker[v].pc \in Sweeping \cup {"running", "finish"} /\ j \in Jobs /\ PhaseOf(worker[v])
    BY <1>0 DEF Deserted, TInv
  <2>3. v = w /\ ~ Claim(w)
    <3>1. lease
      BY <2>2 DEF Alone, Sweeping
    <3>2. worker[v].pc # "none"
      BY <2>2 DEF Sweeping
    <3>3. ~ Claim(w)
      BY <3>1 DEF Claim
    <3>4. worker[w].pc # "none"
      <4>1. CASE Settle(w)
        BY <4>1 DEF Settle, TInv, PhaseOf
      <4>2. CASE ~ Settle(w)
        BY <1>6, <3>3, <4>2 DEF Owner, Stopping, Spawn, Stop, StopSnapshot, HangUp, Joined,
                                OrphanSnapshot, Release, SecondPass
      <4>. QED BY <4>1, <4>2
    <3>. QED BY <3>2, <3>3, <3>4 DEF Alone
  <2>4. CASE Stop(w)
    <3>1. OwnerAt(w, "stop") /\ owed' = [owed EXCEPT ![w] = Live(q)] /\ worker[w].pc = "running"
      BY <2>4, OwnerFields DEF Stop
    <3>2. worker[w].thread = "dead" /\ j \in Live(q)
      BY <2>2, <2>3, <3>1 DEF Deserted, Live
    <3>3. j \in owed'[w]
      BY <1>0, <3>1, <3>2
    <3>. QED BY <2>3, <3>1, <3>2, <3>3 DEF Deserted, OwnerAt, Sweeping
  <2>5. CASE StopSnapshot(w) \/ HangUp(w)
    <3>1. /\ worker'[w].pc \in Sweeping /\ worker'[w].thread = worker[w].thread
          /\ worker[w].pc \in Sweeping /\ owed' = owed
      BY ZenonT(60), <2>5, OwnerFields DEF StopSnapshot, HangUp, OwnerAt, Sweeping
    <3>. QED BY <2>3, <3>1 DEF Deserted, Sweeping
  <2>6. CASE Settle(w) \/ OrphanSnapshot(w)
    <3>1. /\ worker'[w].pc = worker[w].pc /\ worker'[w].thread = worker[w].thread /\ owed' = owed
      BY ZenonT(60), <2>6, OwnerFields DEF Settle, OrphanSnapshot, OwnerAt
    <3>. QED BY SMTT(30), <2>3, <3>1 DEF Deserted
  <2>7. CASE Joined(w)
    <3>1. worker'[w].pc = "finish" /\ owed' = owed /\ worker[w].pc = "joining"
      BY <2>7, OwnerFields DEF Joined
    <3>. QED BY <2>3, <3>1 DEF Deserted
  <2>8. CASE Release(w)
    <3>1. worker[w].pc = "finish" /\ worker[w].todo = <<>> /\ ~ (worker[w].rounds > 0)
      BY <2>2, <2>3, <2>8 DEF Release, Sweeping
    <3>2. Answered(w, worker[w], j)
      BY <2>3, <3>1 DEF Owing
    <3>. QED BY <3>1, <3>2 DEF Answered, Ends
  <2>9. ~ Spawn(w) /\ ~ SecondPass(w)
    BY <2>2, <2>3 DEF Spawn, SecondPass, Sweeping
  <2>. QED BY <1>6, <2>3, <2>4, <2>5, <2>6, <2>7, <2>8, <2>9 DEF Owner, Stopping
<1>. QED BY <1>3, <1>4, <1>5, <1>6 DEF Next, Called

-----------------------------------------------------------------------------
(* The service.                                                                *)

\* The active job is the first of those that are not over.
LEMMA FirstInLine ==
    ASSUME Sound(q), NEW j \in Jobs
    PROVE  /\ q.active = j <=> Service!First(j)
           /\ j \in Service!Line <=> q.outcome[j] = "accepted"
           /\ q.active = j => j \in Service!Line
<1>. DEFINE a == q.pending
<1>1. /\ q.active \in Jobs \cup {None} /\ None \notin Jobs /\ Jobs \subseteq Nat
      /\ \A k \in Jobs : q.outcome[k] = "accepted" <=> k \in ToSet(a) \/ k = q.active
      /\ ToSet(a) = {a[i] : i \in 1..Len(a)} /\ ToSet(a) \subseteq Jobs
      /\ \A i \in 1..Len(a) : q.active < a[i]
      /\ q.active = None => a = <<>>
  <2>1. Jobs \subseteq Nat
    BY MaxJobsAssumption DEF Jobs
  <2>2. q.active = None => a = <<>>
    BY DEF Sound
  <2>3. \A i \in 1..Len(a) : q.active < a[i]
    BY DEF Sound
  <2>4. a \in Seq(Jobs) /\ q.active \in Jobs \cup {None} /\ None \notin Jobs
        /\ \A k \in Jobs : q.outcome[k] = "accepted" <=> k \in ToSet(a) \/ k = q.active
    BY QueueParts
  <2>5. ToSet(a) = {a[i] : i \in 1..Len(a)} /\ ToSet(a) \subseteq Jobs
    BY <2>4, Elements
  <2>. QED BY <2>1, <2>2, <2>3, <2>4, <2>5
<1>2. \A k \in Jobs : k \in Service!Line <=> k \in ToSet(a) \/ k = q.active
  BY <1>1 DEF Service!Line
<1>3. \A k \in ToSet(a) : q.active < k
  BY <1>1
<1>4. ASSUME q.active = j PROVE Service!First(j)
  BY <1>1, <1>2, <1>3, <1>4 DEF Service!First, Service!Line
<1>5. ASSUME Service!First(j), q.active # j PROVE FALSE
  <2>1. j \in ToSet(a)
    BY <1>2, <1>5 DEF Service!First
  <2>2. q.active \in Jobs
    <3>1. a # <<>>
      BY <1>1, <2>1
    <3>. QED BY <1>1, <3>1
  <2>3. j <= q.active /\ q.active < j
    <3>1. q.active \in Service!Line
      BY <1>2, <2>2
    <3>. QED BY <1>3, <1>5, <2>1, <3>1 DEF Service!First
  <2>4. j \in Nat /\ q.active \in Nat
    BY <1>1, <2>2
  <2>. QED BY <2>3, <2>4
<1>. QED BY <1>2, <1>4, <1>5 DEF Service!Line

\* Who may submit finds room in the line.
LEMMA RoomInLine ==
    ASSUME Sound(q), Accepts(q)
    PROVE  Cardinality(Service!Line) <= PendingLimit
<1>. DEFINE a == q.pending
            T == {a[i] : i \in 1..Len(a)}
<1>1. /\ a \in Seq(Jobs) /\ Len(a) \in Nat /\ ToSet(a) = T /\ PendingLimit \in Nat
      /\ q.active = None => a = <<>>
      /\ q.active # None => Len(a) < PendingLimit
  BY QueueParts, Elements, PendingLimitAssumption DEF Sound, Accepts
<1>2. Service!Line = T \cup ({q.active} \ {None})
  BY <1>1 DEF Sound, Live, Service!Line
<1>3. IsFiniteSet(T) /\ Cardinality(T) <= Len(a) /\ Cardinality(T) \in Nat
  <2>1. IsFiniteSet(1..Len(a)) /\ Cardinality(1..Len(a)) = Len(a)
    <3>1. /\ 1 \in Int /\ Len(a) \in Int
          /\ (IF 1 > Len(a) THEN 0 ELSE Len(a) - 1 + 1) = Len(a)
      BY <1>1
    <3>. QED BY <3>1, FS_Interval
  <2>2. [i \in 1..Len(a) |-> a[i]] \in Surjection(1..Len(a), T)
    BY DEF Surjection
  <2>. QED BY <2>1, <2>2, FS_Surjection, FS_CardinalityType
<1>4. CASE q.active = None
  <2>1. T = {}
    BY <1>1, <1>4
  <2>2. Service!Line = {}
    BY <1>2, <1>4, <2>1
  <2>. QED BY <1>1, <2>2, FS_EmptySet
<1>5. CASE q.active # None
  <2>1. Service!Line = T \cup {q.active}
    BY <1>2, <1>5
  <2>2. Cardinality(T \cup {q.active}) <= Cardinality(T) + 1
    <3>1. \/ Cardinality(T \cup {q.active}) = Cardinality(T)
          \/ Cardinality(T \cup {q.active}) = Cardinality(T) + 1
      BY <1>3, FS_AddElement
    <3>. QED BY <1>3, <3>1
  <2>3. Cardinality(T \cup {q.active}) \in Nat
    BY <1>3, FS_AddElement, FS_CardinalityType
  <2>. HIDE DEF T
  <2>. QED BY <1>1, <1>3, <1>5, <2>1, <2>2, <2>3
<1>. QED BY <1>4, <1>5

Executors == Cardinality({w \in Workers : Alive(w)})

LEMMA OneOrNone ==
    ASSUME NEW A, \A v, w \in A : v = w
    PROVE  Cardinality(A) = IF A = {} THEN 0 ELSE 1
<1>1. CASE A = {}
  BY <1>1, FS_EmptySet
<1>2. CASE A # {}
  <2>1. PICK w \in A : A = {w}
    BY <1>2
  <2>2. Cardinality({w}) = 1
    BY FS_Singleton
  <2>. QED BY <1>2, <2>1, <2>2
<1>. QED BY <1>1, <1>2

\* With nobody beside it, a live thread is the executor, and without it there is none.
LEMMA ExecutorsOf ==
    ASSUME TInv, Alone
    PROVE  /\ Executors \in {0, 1}
           /\ \A w \in Workers : Alive(w) => Executors = 1
           /\ (\A w \in Workers : ~ Alive(w)) => Executors = 0
<1>. DEFINE A == {w \in Workers : Alive(w)}
<1>1. \A v, w \in A : v = w
  BY DEF Alive, Alone, TInv, PhaseOf, Gone
<1>2. Executors = IF A = {} THEN 0 ELSE 1
  <2>. HIDE DEF A
  <2>1. Executors = Cardinality(A)
    BY DEF Executors, A
  <2>. QED BY <1>1, <2>1, OneOrNone
<1>. QED BY <1>2

\* The abstract service counts as this one does.
LEMMA SameCount ==
    ASSUME NEW S
    PROVE  Service!Cardinality(S) = Cardinality(S)
BY DEF Service!Cardinality, Cardinality

\* The next job joins, in the order of the queue.
LEMMA ServiceJoin ==
    ASSUME TInv, Accepts(q), q' = Submitted(q), UNCHANGED <<file, rejected>>, Executors' = Executors
    PROVE  Service!Next
<1>. DEFINE n == NextId(q)
            r == Submitted(q)
<1>1. Sound(q) /\ Orderly(q)
  BY DEF TInv
<1>2. /\ Advance(q, r) /\ n \in Jobs /\ q.outcome[n] = "none" /\ r.tokens = q.tokens
      /\ r.outcome = [q.outcome EXCEPT ![n] = "accepted"]
  BY <1>1, SubmittedSound
<1>. HIDE DEF n, r
<1>3. q' = r
  BY DEF r
<1>4. \A k \in Jobs : k < n => q.outcome[k] # "none"
  <2>1. PICK m \in 0..MaxJobs : \A k \in Jobs : r.outcome[k] = "none" <=> m < k
    BY <1>2 DEF Advance, Orderly
  <2>2. \A k \in Jobs : r.outcome[k] = IF k = n THEN "accepted" ELSE q.outcome[k]
    BY <1>1, <1>2, QueueParts
  <2>3. n <= m
    <3>1. ~ (m < n)
      BY <1>2, <2>1, <2>2
    <3>. QED BY <1>2, <2>1, <3>1, MaxJobsAssumption DEF Jobs
  <2>4. ASSUME NEW k \in Jobs, k < n PROVE q.outcome[k] # "none"
    <3>1. ~ (m < k) /\ k # n
      BY <1>2, <2>1, <2>3, <2>4, MaxJobsAssumption DEF Jobs
    <3>. QED BY <2>1, <2>2, <3>1
  <2>. QED BY <2>4
<1>5. Service!Cardinality(Service!Line) <= PendingLimit
  BY <1>1, RoomInLine, SameCount
<1>6. /\ q.outcome[n] = "none" /\ q'.outcome = [q.outcome EXCEPT ![n] = "accepted"]
      /\ q'.tokens = q.tokens
  BY <1>2, <1>3
<1>7. Service!Accept(n)
  BY <1>4, <1>5, <1>6 DEF Service!Accept, Executors
<1>. QED BY <1>2, <1>7 DEF Service!Next

\* Cancelling is asking the first, letting another leave, or nothing.
LEMMA ServiceCancel ==
    ASSUME TInv, NEW j \in Jobs, q' = Cancelled(q, j), UNCHANGED <<file, rejected>>, Executors' = Executors
    PROVE  Service!Next \/ UNCHANGED Service!evars
<1>1. Sound(q) /\ Orderly(q)
  BY DEF TInv
<1>2. /\ Advance(q, q') /\ q'.tokens \subseteq q.tokens \cup {j}
      /\ \A k \in Jobs : k # j => q'.outcome[k] = q.outcome[k]
      /\ q.outcome[j] = "accepted" => j \in q'.tokens
      /\ q.outcome[j] # "accepted" => q' = q
      /\ q.outcome[j] = "accepted" /\ j # q.active => q'.outcome[j] = "cancelled"
      /\ j = q.active => q'.outcome = q.outcome
  BY <1>1, CancelledSound
<1>3. q.tokens \subseteq q'.tokens /\ q'.outcome \in [Jobs -> {"none", "accepted"} \cup Ends]
      /\ q.outcome \in [Jobs -> {"none", "accepted"} \cup Ends]
  BY <1>1, <1>2, QueueParts DEF Advance, Sound, QueueType
<1>4. CASE q.outcome[j] # "accepted"
  BY <1>2, <1>4 DEF Service!evars, Executors
<1>5. CASE q.outcome[j] = "accepted"
  <2>1. q'.tokens = q.tokens \cup {j}
    BY <1>2, <1>3, <1>5
  <2>2. CASE q.active = j
    <3>1. Service!First(j)
      BY <1>1, <2>2, FirstInLine
    <3>2. Service!Ask(j)
      BY <1>2, <2>1, <2>2, <3>1 DEF Service!Ask, Executors
    <3>. QED BY <3>2 DEF Service!Next
  <2>3. CASE q.active # j
    <3>1. ~ Service!First(j) /\ j \in Service!Line
      BY <1>1, <1>5, <2>3, FirstInLine
    <3>2. q'.outcome = [q.outcome EXCEPT ![j] = "cancelled"]
      BY <1>2, <1>3, <1>5, <2>3
    <3>3. Service!Leave(j)
      BY <2>1, <3>1, <3>2 DEF Service!Leave, Executors
    <3>. QED BY <3>3 DEF Service!Next
  <2>. QED BY <2>2, <2>3
<1>. QED BY <1>4, <1>5

\* The end of the active job.
LEMMA ServiceEnd ==
    ASSUME TInv, NEW j \in Jobs, q.active = j,
           NEW how \in {"completed", "failed", "cancelled"},
           (how = "cancelled") = (j \in q.tokens), (how = "completed") = (file[j] = "published"),
           how = "completed" => Executors = 1 /\ j \notin rejected,
           q'.outcome = [q.outcome EXCEPT ![j] = how], q'.tokens = q.tokens,
           UNCHANGED <<file, rejected>>, Executors' = Executors
    PROVE  Service!Next
<1>1. Service!First(j)
  BY FirstInLine DEF TInv
<1>2. Service!End(j)
  BY <1>1 DEF Service!End, Executors
<1>. QED BY <1>2 DEF Service!Next

\* fail and finish_cancelled end the active job without a file, or do nothing.
LEMMA ServiceDrop ==
    ASSUME TInv, NEW j \in Jobs, q' = Failed(q, j) \/ q' = FinishedCancelled(q, j),
           q.active = j => file[j] # "published",
           UNCHANGED <<file, rejected>>, Executors' = Executors
    PROVE  Service!Next \/ UNCHANGED Service!evars
<1>1. Sound(q) /\ Orderly(q)
  BY DEF TInv
<1>2. CASE q' = q
  BY <1>2 DEF Service!evars, Executors
<1>3. CASE q' # q /\ q' = Failed(q, j)
  <2>1. /\ q.active = j /\ j \notin q.tokens /\ q'.tokens = q.tokens
        /\ q'.outcome = [q.outcome EXCEPT ![j] = "failed"]
    BY <1>1, <1>3, FailedSound
  <2>. DEFINE how == "failed"
  <2>2. /\ how \in {"completed", "failed", "cancelled"} /\ (how = "cancelled") = (j \in q.tokens)
        /\ (how = "completed") = (file[j] = "published") /\ how # "completed"
    BY <2>1
  <2>3. q'.outcome = [q.outcome EXCEPT ![j] = how]
    BY <2>1
  <2>. HIDE DEF how
  <2>. QED BY <2>1, <2>2, <2>3, ServiceEnd
<1>4. CASE q' # q /\ q' = FinishedCancelled(q, j)
  <2>1. /\ q.active = j /\ j \in q.tokens /\ q'.tokens = q.tokens
        /\ q'.outcome = [q.outcome EXCEPT ![j] = "cancelled"]
    BY <1>1, <1>4, FinishedCancelledSound
  <2>. DEFINE how == "cancelled"
  <2>2. /\ how \in {"completed", "failed", "cancelled"} /\ (how = "cancelled") = (j \in q.tokens)
        /\ (how = "completed") = (file[j] = "published") /\ how # "completed"
    BY <2>1
  <2>3. q'.outcome = [q.outcome EXCEPT ![j] = how]
    BY <2>1
  <2>. HIDE DEF how
  <2>. QED BY <2>1, <2>2, <2>3, ServiceEnd
<1>. QED BY <1>2, <1>3, <1>4

\* Nothing the service speaks of changes.
LEMMA ServiceRests ==
    ASSUME UNCHANGED <<q, file, rejected>>, Executors' = Executors
    PROVE  UNCHANGED Service!evars
BY DEF Service!evars, Executors

\* As many threads are alive as before.
LEMMA SameExecutors ==
    ASSUME \A v \in Workers : worker'[v].thread \in Gone <=> worker[v].thread \in Gone
    PROVE  Executors' = Executors
BY DEF Executors, Alive

\* A thread withdraws the file of a job that was asked to stop, and what it could not remove is
\* the leftover of a job that is over or about to be.
Leftovers ==
    /\ \A w \in Workers : worker[w].thread = "withdraw" =>
         worker[w].job \in q.tokens /\ file[worker[w].job] = "published"
    /\ \A j \in Jobs : file[j] = "left" =>
         \/ q.outcome[j] \in Ends
         \/ /\ j \in q.tokens
            /\ \E w \in Workers : worker[w].thread = "cancelled" /\ worker[w].job = j

LEMMA LeftoversInit == Init => Leftovers
<1>. SUFFICES ASSUME Init PROVE Leftovers
  OBVIOUS
<1>1. \A w \in Workers : worker[w].thread = "none"
  BY NoWorkerFacts DEF Init
<1>2. \A j \in Jobs : file[j] = "none"
  BY DEF Init
<1>. QED BY <1>1, <1>2 DEF Leftovers

LEMMA LeftoversStep ==
    ASSUME TInv, Fresh, Alone, Kept, Files, Leftovers, [Next]_vars
    PROVE  Leftovers'
<1>1. Advance(q, q') /\ Sound(q) /\ Orderly(q)
  BY QueueAdvances DEF TInv
<1>2. q.tokens \subseteq q'.tokens /\ \A j \in Jobs : q.outcome[j] \in Ends => q'.outcome[j] \in Ends
  BY <1>1 DEF Advance
\* No new withdrawal, no new leftover, and who is about to end its job still is.
<1>3. ASSUME file' = file,
             \A v \in Workers : worker'[v].thread = "withdraw" =>
                 worker[v].thread = "withdraw" /\ worker'[v].job = worker[v].job,
             \A v \in Workers : worker[v].thread = "cancelled" =>
                 worker'[v].thread = "cancelled" /\ worker'[v].job = worker[v].job
      PROVE  Leftovers'
  BY <1>2, <1>3 DEF Leftovers
<1>4. ASSUME \A v \in Workers : worker'[v].thread = worker[v].thread /\ worker'[v].job = worker[v].job,
             file' = file
      PROVE  Leftovers'
  BY <1>3, <1>4
<1>5. CASE UNCHANGED vars
  BY <1>4, <1>5 DEF vars
<1>6. CASE Called
  BY <1>4, <1>6, CalledFields
<1>7. ASSUME NEW w \in Workers, Stop(w) \/ StopSnapshot(w) \/ Settle(w) \/ HangUp(w)
                                \/ OrphanSnapshot(w) \/ Release(w) \/ SecondPass(w)
      PROVE  Leftovers'
  <2>1. /\ OthersStand(w) /\ file' = file
        /\ worker'[w].thread = worker[w].thread /\ worker'[w].job = worker[w].job
    BY ZenonT(60), <1>7, OwnerFields DEF Stop, StopSnapshot, Settle, HangUp, OrphanSnapshot, Release,
                                         SecondPass, OwnerAt, OwnerOnly
  <2>. QED BY <1>4, <2>1 DEF OthersStand
<1>8. ASSUME NEW w \in Workers, Claim(w) \/ Spawn(w) \/ Joined(w) PROVE Leftovers'
  <2>1. PhaseOf(worker[w])
    BY DEF TInv
  <2>2. worker[w].thread \in Gone
    <3>1. CASE Claim(w)
      <4>1. w > starts
        BY <3>1, MaxWorkersAssumption DEF TInv, Claim
      <4>2. worker[w].thread = "none"
        BY <2>1, <4>1 DEF Fresh, PhaseOf
      <4>. QED BY <4>2 DEF Gone
    <3>2. CASE Spawn(w)
      BY <2>1, <3>2 DEF Spawn, PhaseOf, Gone
    <3>3. CASE Joined(w)
      BY <3>3 DEF Joined, Alive
    <3>. QED BY <1>8, <3>1, <3>2, <3>3
  <2>3. OthersStand(w) /\ file' = file /\ worker'[w].thread \in {"none", "top"}
    BY <1>8, OwnerFields DEF Claim, Spawn, Joined, OwnerOnly
  <2>4. \A v \in Workers : v # w => worker'[v] = worker[v]
    BY <2>3 DEF OthersStand
  <2>. QED BY <1>3, <2>2, <2>3, <2>4 DEF Gone
<1>9. ASSUME NEW w \in Workers, Encoder(w) \/ Thread(w) PROVE Leftovers'
  <2>. DEFINE s == worker[w]
              j == worker[w].job
  <2>0. /\ PhaseOf(s) /\ file \in [Jobs -> {"none", "published", "left"}]
        /\ s.thread \in Holding => j \in Jobs /\ q.active = j
    BY DEF TInv, PhaseOf, Kept
  <2>1. OthersStand(w) /\ \A v \in Workers : v # w => worker'[v] = worker[v]
    BY <1>9, ThreadKeeps DEF OthersStand
  <2>2. ASSUME NEW pc, Go(w, pc) PROVE worker'[w].thread = pc /\ worker'[w].job = j
    BY <2>2, ThreadFields DEF At
  <2>12. \A v \in Workers : v # w => worker'[v].thread = "none"
    <3>1. worker[w].pc # "none"
      BY <1>9, <2>0, ThreadKeeps DEF PhaseOf, Gone
    <3>. QED BY <2>1, <3>1, OthersGone
  <2>3. ASSUME file' = file, worker[w].thread # "cancelled", worker'[w].thread # "withdraw" PROVE Leftovers'
    BY <1>3, <2>1, <2>3
  <2>4. CASE Top(w) \/ ThreadSweep(w) \/ Look(w)
    <3>1. file' = file /\ s.thread \in {"top", "look"} /\ worker'[w].thread \in {"look", "check", "export"}
      BY <2>4, ThreadFields DEF Top, ThreadSweep, Look, At
    <3>. QED BY <2>3, <3>1, SMTT(30)
  <2>5. CASE Check(w) \/ Wake(w) \/ Disconnect(w)
    <3>1. /\ file' = file /\ s.thread \in {"check", "idle"}
          /\ worker'[w].thread \in {"exited", "idle", "top"}
      BY <2>2, <2>5 DEF Check, Wake, Disconnect
    <3>. QED BY <2>3, <3>1
  <2>6. CASE ExportFails(w) \/ ExportReady(w) \/ ExportPanics(w) \/ ExportCancelled(w)
    <3>1. /\ file' = file /\ s.thread = "export"
          /\ worker'[w].thread \in {"failed", "publish", "dead", "cancelled"}
      BY <2>2, <2>6 DEF ExportFails, ExportReady, ExportPanics, ExportCancelled
    <3>. QED BY <2>3, <3>1
  <2>7. CASE Publish(w)
    <3>1. /\ s.thread = "publish" /\ worker'[w].thread \in {"published", "failed"}
          /\ file' = file \/ file' = [file EXCEPT ![j] = "published"]
      BY <2>2, <2>7 DEF Publish
    <3>2. \A k \in Jobs : file'[k] = "left" => file[k] = "left"
      BY <2>0, <3>1
    <3>3. \A v \in Workers : /\ worker'[v].thread = "withdraw" =>
                                  worker[v].thread = "withdraw" /\ worker'[v].job = worker[v].job
                             /\ worker[v].thread = "cancelled" => worker'[v] = worker[v]
      BY <2>1, <3>1
    <3>8. ASSUME NEW v \in Workers, worker'[v].thread = "withdraw"
          PROVE  worker'[v].job \in q'.tokens /\ file'[worker'[v].job] = "published"
      BY <2>12, <3>1, <3>8
    <3>9. ASSUME NEW k \in Jobs, file'[k] = "left"
          PROVE  q'.outcome[k] \in Ends \/
                 (k \in q'.tokens /\ \E v \in Workers : worker'[v].thread = "cancelled" /\ worker'[v].job = k)
      BY <1>2, <3>2, <3>3, <3>9 DEF Leftovers
    <3>. QED BY <3>8, <3>9 DEF Leftovers
  <2>8. CASE Withdraw(w)
    <3>1. /\ s.thread = "withdraw" /\ worker'[w].thread = "cancelled" /\ worker'[w].job = j
          /\ \E left \in {"none", "left"} : file' = [file EXCEPT ![j] = left]
      BY <2>2, <2>8 DEF Withdraw
    <3>2. \A k \in Jobs : k # j => file'[k] = file[k]
      BY <2>0, <3>1
    <3>3. j \in q'.tokens
      BY <1>2, <3>1 DEF Leftovers
    <3>4. \A v \in Workers : /\ worker'[v].thread = "withdraw" =>
                                  worker[v].thread = "withdraw" /\ worker'[v].job = worker[v].job
                             /\ worker[v].thread = "cancelled" => worker'[v] = worker[v]
      BY <2>1, <3>1
    <3>8. ASSUME NEW v \in Workers, worker'[v].thread = "withdraw"
          PROVE  worker'[v].job \in q'.tokens /\ file'[worker'[v].job] = "published"
      BY <2>12, <3>1, <3>8
    <3>9. ASSUME NEW k \in Jobs, file'[k] = "left"
          PROVE  q'.outcome[k] \in Ends \/
                 (k \in q'.tokens /\ \E v \in Workers : worker'[v].thread = "cancelled" /\ worker'[v].job = k)
      BY <1>2, <3>1, <3>2, <3>3, <3>4, <3>9 DEF Leftovers
    <3>. QED BY <3>8, <3>9 DEF Leftovers
  <2>9. CASE Finish(w)
    <3>1. /\ s.thread = "published" /\ q' = Completed(q, j) /\ file' = file
          /\ worker'[w].thread = IF q.active = j /\ Requested(q, j) THEN "withdraw" ELSE "top"
          /\ worker'[w].job = j
      BY <2>2, <2>9 DEF Finish
    <3>2. worker'[w].thread = "withdraw" => j \in q'.tokens /\ file[j] = "published"
      BY <1>2, <3>1 DEF Requested, Files
    <3>3. \A v \in Workers : /\ v # w /\ worker'[v].thread = "withdraw" =>
                                  worker[v].thread = "withdraw" /\ worker'[v].job = worker[v].job
                             /\ worker[v].thread = "cancelled" => worker'[v] = worker[v]
      BY <2>1, <3>1
    <3>8. ASSUME NEW v \in Workers, worker'[v].thread = "withdraw"
          PROVE  worker'[v].job \in q'.tokens /\ file'[worker'[v].job] = "published"
      <4>1. CASE v = w
        BY <3>1, <3>2, <3>8, <4>1
      <4>2. CASE v # w
        BY <2>12, <3>8, <4>2
      <4>. QED BY <4>1, <4>2
    <3>9. ASSUME NEW k \in Jobs, file'[k] = "left"
          PROVE  q'.outcome[k] \in Ends \/
                 (k \in q'.tokens /\ \E v \in Workers : worker'[v].thread = "cancelled" /\ worker'[v].job = k)
      BY <1>2, <3>1, <3>3, <3>9 DEF Leftovers
    <3>. QED BY <3>8, <3>9 DEF Leftovers
  <2>10. CASE Fail(w)
    <3>1. /\ s.thread = "failed" /\ file' = file
          /\ worker'[w].thread = IF q.active = j /\ Requested(q, j) THEN "cancelled" ELSE "top"
      BY <2>2, <2>10 DEF Fail
    <3>. QED BY <2>3, <3>1
  <2>11. CASE FinishCancelled(w)
    <3>1. /\ s.thread = "cancelled" /\ worker'[w].thread = "top" /\ file' = file /\ j \in Jobs /\ q.active = j
          /\ q' = IF Requested(q, j) THEN FinishedCancelled(q, j) ELSE Failed(q, j)
      BY <2>0, <2>2, <2>11 DEF FinishCancelled, Holding
    <3>2. ASSUME NEW k \in Jobs, file[k] = "left" PROVE q'.outcome[k] \in Ends \/
                 (k \in q'.tokens /\ \E v \in Workers : worker'[v].thread = "cancelled" /\ worker'[v].job = k)
      <4>1. CASE q.outcome[k] \in Ends
        BY <1>2, <4>1
      <4>2. CASE q.outcome[k] \notin Ends
        <5>1. PICK v \in Workers : k \in q.tokens /\ worker[v].thread = "cancelled" /\ worker[v].job = k
          BY <3>2, <4>2 DEF Leftovers
        <5>2. CASE v = w
          <6>1. k = j /\ j \in q.tokens /\ q' = FinishedCancelled(q, j)
            BY <3>1, <5>1, <5>2 DEF Requested
          <6>2. q'.outcome = [q.outcome EXCEPT ![j] = "cancelled"]
            BY <1>1, <3>1, <6>1, FinishedCancelledSound
          <6>3. q'.outcome[j] = "cancelled"
            BY <1>1, <3>1, <6>2, QueueParts
          <6>. QED BY <6>1, <6>3 DEF Ends
        <5>3. CASE v # w
          BY <1>2, <2>1, <5>1, <5>3
        <5>. QED BY <5>2, <5>3
      <4>. QED BY <4>1, <4>2
    <3>3. \A v \in Workers : worker'[v].thread = "withdraw" =>
                                worker[v].thread = "withdraw" /\ worker'[v].job = worker[v].job
      BY <2>1, <3>1
    <3>. QED BY <1>2, <3>1, <3>2, <3>3 DEF Leftovers
  <2>. QED BY <1>9, <2>4, <2>5, <2>6, <2>7, <2>8, <2>9, <2>10, <2>11 DEF Encoder, Thread
<1>. QED BY <1>5, <1>6, <1>7, <1>8, <1>9 DEF Next, Called, Owner, Stopping

\* A worker and nothing else moves: a thread begins, ceases, or goes on.
LEMMA ServiceMoves ==
    ASSUME TInv, Alone, NEW w \in Workers, worker[w].pc # "none", OthersStand(w),
           UNCHANGED <<q, file, rejected>>
    PROVE  Service!Next \/ UNCHANGED Service!evars
<1>1. \A v \in Workers : v # w => worker[v].thread = "none" /\ worker'[v] = worker[v]
  BY OthersGone DEF OthersStand
<1>. DEFINE A == {v \in Workers : worker[v].thread \notin Gone}
            B == {v \in Workers : worker'[v].thread \notin Gone}
<1>2. Executors = Cardinality(A) /\ Executors' = Cardinality(B)
  BY DEF Executors, Alive
<1>3. A = IF worker[w].thread \in Gone THEN {} ELSE {w}
  BY <1>1 DEF Gone
<1>4. B = IF worker'[w].thread \in Gone THEN {} ELSE {w}
  BY <1>1 DEF Gone
<1>. HIDE DEF A, B
<1>5. Cardinality({}) = 0 /\ Cardinality({w}) = 1
  BY FS_EmptySet, FS_Singleton
<1>6. CASE worker[w].thread \in Gone /\ worker'[w].thread \notin Gone
  <2>1. Executors = 0 /\ Executors' = 1
    BY <1>2, <1>3, <1>4, <1>5, <1>6
  <2>2. Service!Begin
    BY <2>1 DEF Service!Begin, Executors
  <2>. QED BY <2>2 DEF Service!Next
<1>7. CASE worker[w].thread \notin Gone /\ worker'[w].thread \in Gone
  <2>1. Executors = 1 /\ Executors' = 0
    BY <1>2, <1>3, <1>4, <1>5, <1>7
  <2>2. Service!Cease
    BY <2>1 DEF Service!Cease, Executors
  <2>. QED BY <2>2 DEF Service!Next
<1>8. CASE worker[w].thread \in Gone <=> worker'[w].thread \in Gone
  <2>1. Executors' = Executors
    BY <1>2, <1>3, <1>4, <1>8
  <2>. QED BY <2>1, ServiceRests
<1>. QED BY <1>6, <1>7, <1>8

LEMMA ServiceOfClients ==
    ASSUME TInv, Alone, Calling, Files, Called
    PROVE  Service!Next \/ UNCHANGED Service!evars
<1>1. file' = file /\ worker' = worker /\ Executors' = Executors
  BY CalledFields, SameExecutors
<1>2. CASE rejected' # rejected
  <2>1. PICK w \in Workers, j \in Jobs : Unheard(w, j)
    BY <1>2 DEF Called, Client, Call, Submit, Cancel, SubmitThrough, Heard, TakeBack, FinishTakenBack
  <2>2. /\ q' = q /\ rejected' = rejected \cup {j} /\ worker[w].thread = "dead"
        /\ worker[w].pc = "running" /\ q.outcome[j] # "none"
    BY <2>1 DEF Unheard, Calling
  <2>3. Executors = 0
    <3>1. \A v \in Workers : ~ Alive(v)
      BY <2>2, OthersGone DEF Alive, Gone
    <3>. QED BY <3>1, ExecutorsOf
  <2>4. Service!Refuse(j)
    BY <1>1, <2>2, <2>3 DEF Service!Refuse, Executors
  <2>. QED BY <2>4 DEF Service!Next
<1>3. CASE rejected' = rejected
  <2>1. CASE q' = q
    BY <1>1, <1>3, <2>1, ServiceRests
  <2>2. CASE Accepts(q) /\ q' = Submitted(q)
    BY <1>1, <1>3, <2>2, ServiceJoin
  <2>3. ASSUME NEW j \in Jobs, q' = Cancelled(q, j) PROVE Service!Next \/ UNCHANGED Service!evars
    BY <1>1, <1>3, <2>3, ServiceCancel
  <2>4. ASSUME NEW w \in Workers, NEW j \in Jobs, calls[w][j] = "finish", q' = FinishedCancelled(q, j)
        PROVE  Service!Next \/ UNCHANGED Service!evars
    <3>1. worker[w].pc = "running" /\ worker[w].thread = "dead"
      BY <2>4 DEF Calling
    <3>2. \A v \in Workers : worker[v].thread \notin {"published", "withdraw"}
      BY <3>1, OthersGone
    <3>3. q.active = j => file[j] # "published"
      <4>1. q.active = j => q.outcome[j] = "accepted"
        BY QueueParts DEF TInv
      <4>. QED BY <3>2, <4>1 DEF Files
    <3>. QED BY <1>1, <1>3, <2>4, <3>3, ServiceDrop
  <2>. QED BY <2>1, <2>2, <2>3, <2>4, CalledQueue
<1>. QED BY <1>2, <1>3

LEMMA ServiceOfOwners ==
    ASSUME TInv, Fresh, Alone, Files, NEW w \in Workers, Owner(w)
    PROVE  Service!Next \/ UNCHANGED Service!evars
<1>1. Sound(q) /\ PhaseOf(worker[w])
  BY DEF TInv
<1>2. CASE Claim(w)
  <2>1. w > starts
    BY <1>2, MaxWorkersAssumption DEF TInv, Claim
  <2>2. worker[w].thread = "none" /\ worker'[w].thread = "none" /\ OthersStand(w)
    BY <1>1, <1>2, <2>1, OwnerFields DEF Fresh, PhaseOf
  <2>3. Executors' = Executors
    BY <2>2, SameExecutors DEF OthersStand
  <2>. QED BY <1>2, <2>3, ServiceRests DEF Claim, OwnerOnly
<1>3. CASE \/ Spawn(w) \/ Stop(w) \/ StopSnapshot(w) \/ HangUp(w) \/ Joined(w)
           \/ OrphanSnapshot(w) \/ Release(w) \/ SecondPass(w)
  <2>1. OthersStand(w)
    BY <1>3, OwnerFields DEF OwnerAt
  <2>2. worker[w].pc # "none" /\ UNCHANGED <<q, file, rejected>>
    BY <1>3 DEF Spawn, Stop, StopSnapshot, HangUp, Joined, OrphanSnapshot, Release, SecondPass, OwnerOnly
  <2>. QED BY <2>1, <2>2, ServiceMoves
<1>4. CASE Settle(w)
  <2>. DEFINE e == Head(worker[w].todo)
  <2>1. /\ worker[w].todo \in Seq(Entry) /\ worker[w].todo # <<>> /\ e \in Entry /\ e = worker[w].todo[1]
        /\ \/ e.how = "cancel" /\ q' = Cancelled(q, e.job)
           \/ e.how = "finish" /\ q' = FinishedCancelled(q, e.job)
           \/ e.how = "fail" /\ q' = Failed(q, e.job)
    BY <1>4, SettleMoves
  <2>2. OwnerAt(w, worker[w].pc) /\ UNCHANGED <<file, rejected>>
    BY <1>4, OwnerFields DEF Settle
  <2>. HIDE DEF e
  <2>3. e.job \in Jobs
    BY <2>1 DEF Entry
  <2>4. Executors' = Executors
    BY <2>2, SameExecutors DEF OwnerAt, OthersStand
  <2>5. CASE e.how = "cancel"
    BY <2>1, <2>2, <2>3, <2>4, <2>5, ServiceCancel
  <2>6. CASE e.how # "cancel"
    <3>1. worker[w].pc \in {"finish", "again"}
      <4>1. 1 \in DOMAIN worker[w].todo /\ worker[w].todo[1].how # "cancel"
        BY <2>1, <2>6, Elements, EmptySeq
      <4>. QED BY <1>1, <2>1, <4>1 DEF PhaseOf
    <3>2. worker[w].thread = "none" /\ \A v \in Workers : worker[v].thread = "none"
      BY <1>1, <3>1, OthersGone DEF PhaseOf
    <3>3. q.active = e.job => file[e.job] # "published"
      <4>1. ASSUME q.active = e.job PROVE q.outcome[e.job] = "accepted"
        BY <1>1, <2>3, <4>1, QueueParts
      <4>. QED BY <2>3, <3>2, <4>1 DEF Files
    <3>. QED BY <2>1, <2>2, <2>3, <2>4, <2>6, <3>3, ServiceDrop
  <2>. QED BY <2>5, <2>6
<1>. QED BY <1>2, <1>3, <1>4 DEF Owner, Stopping

LEMMA ServiceOfThreads ==
    ASSUME TInv, Alone, Kept, Refused, Files, Leftovers, NEW w \in Workers, Encoder(w) \/ Thread(w)
    PROVE  Service!Next \/ UNCHANGED Service!evars
<1>. DEFINE s == worker[w]
            j == worker[w].job
<1>0. /\ Sound(q) /\ PhaseOf(s) /\ file \in [Jobs -> {"none", "published", "left"}]
  BY DEF TInv
<1>1. OthersStand(w) /\ s.thread \notin Gone /\ rejected' = rejected
  BY ThreadKeeps
<1>2. s.pc # "none" /\ s.thread # "dead"
  BY <1>0, <1>1 DEF PhaseOf, Gone
<1>3. \A v \in Workers : v # w => worker[v].thread = "none"
  BY <1>2, OthersGone
<1>4. \A k \in rejected : q.outcome[k] \in Ends
  BY <1>1, RefusedByThis
<1>5. s.thread \in Holding =>
         /\ j \in Jobs /\ q.active = j /\ q.outcome[j] = "accepted" /\ j \notin rejected
  <2>1. ASSUME s.thread \in Holding PROVE j \in Jobs /\ q.active = j
    BY <1>0, <2>1 DEF PhaseOf, Kept
  <2>. QED BY <1>0, <1>4, <2>1, QueueParts DEF Ends
<1>6. Executors = 1
  BY <1>1, ExecutorsOf DEF Alive
\* The thread goes on.
<1>7. ASSUME worker'[w].thread \notin Gone PROVE Executors' = Executors
  BY <1>1, <1>7, SameExecutors DEF OthersStand
<1>8. ASSUME NEW pc, Go(w, pc) PROVE worker'[w].thread = pc
  BY <1>8, ThreadFields DEF At
<1>9. ASSUME q' = q, file' = file PROVE Service!Next \/ UNCHANGED Service!evars
  BY <1>1, <1>2, <1>9, ServiceMoves
<1>10. CASE Top(w) \/ Look(w) \/ Check(w) \/ Wake(w) \/ Disconnect(w) \/ ExportCancelled(w) \/ Encoder(w)
  BY <1>9, <1>10 DEF Top, Look, Check, Wake, Disconnect, ExportCancelled, Encoder, ExportFails,
                     ExportReady, ExportPanics
<1>11. CASE ThreadSweep(w)
  <2>1. worker'[w].thread = "look" /\ file' = file
    BY <1>11, ThreadFields DEF ThreadSweep, At
  <2>2. Head(s.sweep) \in Jobs
    BY <1>11, WorkerParts, HeadTailProperties DEF TInv, ThreadSweep
  <2>. QED BY <1>1, <1>7, <1>11, <2>1, <2>2, ServiceCancel DEF ThreadSweep, Gone
<1>12. CASE Publish(w)
  <2>1. CASE file' = file
    BY <1>9, <1>12, <2>1 DEF Publish
  <2>2. CASE file' # file
    <3>1. /\ s.thread = "publish" /\ worker'[w].thread = "published" /\ q' = q
          /\ file' = [file EXCEPT ![j] = "published"]
      BY <1>8, <1>12, <2>2 DEF Publish
    <3>2. j \in Jobs /\ q.active = j /\ q.outcome[j] = "accepted" /\ j \notin rejected
      BY <1>5, <3>1 DEF Holding
    <3>3. file[j] = "none"
      <4>1. \A v \in Workers : worker[v].thread \notin {"published", "withdraw", "cancelled"}
        BY <1>3, <3>1
      <4>. QED BY <1>0, <3>2, <4>1 DEF Files, Leftovers, Ends
    <3>4. Service!First(j)
      BY <1>0, <3>2, FirstInLine
    <3>5. Executors' = Executors
      BY <1>7, <3>1 DEF Gone
    <3>6. Service!Place(j)
      BY <1>1, <1>6, <3>1, <3>2, <3>3, <3>4, <3>5 DEF Service!Place, Executors
    <3>. QED BY <3>2, <3>6 DEF Service!Next
  <2>. QED BY <2>1, <2>2
<1>13. CASE Finish(w)
  <2>1. /\ s.thread = "published" /\ q' = Completed(q, j) /\ file' = file
    BY <1>13 DEF Finish
  <2>2. j \in Jobs /\ q.active = j /\ q.outcome[j] = "accepted" /\ j \notin rejected
    BY <1>5, <2>1 DEF Holding
  <2>3. file[j] = "published"
    BY <2>1 DEF Files
  <2>4. CASE j \in q.tokens
    <3>1. q' = q
      BY <2>1, <2>4 DEF Completed, Requested
    <3>. QED BY <1>9, <2>1, <3>1
  <2>5. CASE j \notin q.tokens
    <3>1. q'.outcome = [q.outcome EXCEPT ![j] = "completed"] /\ q'.tokens = q.tokens
      BY <2>1, <2>2, <2>5, CompletedSound DEF TInv, Requested
    <3>2. worker'[w].thread = "top"
      BY <1>8, <1>13, <2>5 DEF Finish, Requested
    <3>3. Executors' = Executors
      BY <1>7, <3>2 DEF Gone
    <3>. DEFINE how == "completed"
    <3>4. /\ how \in {"completed", "failed", "cancelled"} /\ (how = "cancelled") = (j \in q.tokens)
          /\ (how = "completed") = (file[j] = "published") /\ (how = "completed" => Executors = 1 /\ j \notin rejected)
      BY <1>6, <2>2, <2>3, <2>5
    <3>5. q'.outcome = [q.outcome EXCEPT ![j] = how]
      BY <3>1
    <3>. HIDE DEF how, j
    <3>. QED BY <1>1, <2>1, <2>2, <3>1, <3>3, <3>4, <3>5, ServiceEnd
  <2>. QED BY <2>4, <2>5
<1>14. CASE Withdraw(w)
  <2>1. /\ s.thread = "withdraw" /\ worker'[w].thread = "cancelled" /\ q' = q
        /\ \E left \in {"none", "left"} : file' = [file EXCEPT ![j] = left]
    BY <1>8, <1>14 DEF Withdraw
  <2>2. j \in Jobs /\ q.active = j /\ j \in q.tokens
    BY <1>5, <2>1 DEF Holding, Leftovers
  <2>3. Service!First(j)
    BY <1>0, <2>2, FirstInLine
  <2>4. Executors' = Executors
    BY <1>7, <2>1 DEF Gone
  <2>5. file[j] = "published"
    BY <2>1 DEF Leftovers
  <2>6. Service!TakeAway(j)
    BY <1>1, <1>6, <2>1, <2>2, <2>3, <2>4, <2>5 DEF Service!TakeAway, Executors
  <2>. QED BY <2>2, <2>6 DEF Service!Next
\* Neither a failed nor a cancelled export has a file.
<1>15. s.thread \in {"failed", "cancelled"} => file[j] # "published"
  <2>. SUFFICES ASSUME s.thread \in {"failed", "cancelled"}, file[j] = "published" PROVE FALSE
    OBVIOUS
  <2>1. j \in Jobs /\ q.outcome[j] = "accepted"
    BY <1>5 DEF Holding
  <2>2. PICK v \in Workers : worker[v].thread \in {"published", "withdraw"}
    BY <2>1 DEF Files
  <2>. QED BY <1>3, <2>2
<1>16. CASE Fail(w)
  <2>1. /\ s.thread = "failed" /\ q' = Failed(q, j) /\ file' = file
        /\ worker'[w].thread \in {"cancelled", "top"}
    BY <1>8, <1>16 DEF Fail
  <2>2. j \in Jobs /\ file[j] # "published"
    BY <1>5, <1>15, <2>1 DEF Holding
  <2>3. Executors' = Executors
    BY <1>7, <2>1 DEF Gone
  <2>. HIDE DEF j
  <2>. QED BY <1>1, <2>1, <2>2, <2>3, ServiceDrop
<1>17. CASE FinishCancelled(w)
  <2>1. /\ s.thread = "cancelled" /\ worker'[w].thread = "top" /\ file' = file
        /\ q' = FinishedCancelled(q, j) \/ q' = Failed(q, j)
    BY <1>8, <1>17 DEF FinishCancelled
  <2>2. j \in Jobs /\ file[j] # "published"
    BY <1>5, <1>15, <2>1 DEF Holding
  <2>3. Executors' = Executors
    BY <1>7, <2>1 DEF Gone
  <2>. HIDE DEF j
  <2>. QED BY <1>1, <2>1, <2>2, <2>3, ServiceDrop
<1>. QED BY <1>10, <1>11, <1>12, <1>13, <1>14, <1>16, <1>17 DEF Thread

LEMMA ServiceInit == Init => Service!Init
<1>. SUFFICES ASSUME Init PROVE Service!Init
  OBVIOUS
<1>1. \A w \in Workers : worker[w].thread = "none"
  BY NoWorkerFacts DEF Init
<1>2. {w \in Workers : Alive(w)} = {}
  BY <1>1 DEF Alive, Gone
<1>3. Cardinality({w \in Workers : Alive(w)}) = 0
  BY <1>2, FS_EmptySet
<1>. QED BY <1>3 DEF Init, EmptyQueue, Service!Init

\* The worker does what an ExportService promises, as long as no worker is started while
\* the stop of another is on its way back: for any queue limit and any number of jobs,
\* workers and panics.
THEOREM ExportsAlwaysServed ==
    ASSUME Overlap = FALSE
    PROVE  Spec => ExportsServed
<1>. DEFINE SInv == /\ TInv /\ Fresh /\ Alone /\ Calling /\ Kept
                    /\ Owing /\ Refused /\ Files /\ Leftovers
<1>1. Init => SInv
  BY TypeInit, FreshInit, AloneInit, KeptInit, OwingInit, LeftoversInit
<1>2. SInv /\ [Next]_vars => SInv'
  BY TypeStep, FreshStep, AloneStep, CallingStep, KeptStep, OwingStep, RefusedStep, LeftoversStep
<1>3. SInv /\ [Next]_vars => [Service!Next]_Service!evars
  <2>. SUFFICES ASSUME SInv, [Next]_vars PROVE Service!Next \/ UNCHANGED Service!evars
    OBVIOUS
  <2>1. CASE UNCHANGED vars
    <3>1. Executors' = Executors
      BY <2>1, SameExecutors DEF vars
    <3>. QED BY <2>1, <3>1, ServiceRests DEF vars
  <2>2. CASE Called
    BY <2>2, ServiceOfClients
  <2>3. ASSUME NEW w \in Workers, Owner(w) PROVE Service!Next \/ UNCHANGED Service!evars
    BY <2>3, ServiceOfOwners
  <2>4. ASSUME NEW w \in Workers, Encoder(w) \/ Thread(w) PROVE Service!Next \/ UNCHANGED Service!evars
    BY <2>4, ServiceOfThreads
  <2>. QED BY <2>1, <2>2, <2>3, <2>4 DEF Next, Called
<1>. QED BY <1>1, <1>2, <1>3, ServiceInit, PTL DEF Spec, ExportsServed, Service!Spec
=============================================================================
