--------------------------- MODULE ClipFileProofs ---------------------------
(* Proofs about the clip file: for any packets, sizes, steps and rates, the   *)
(* reader finds what the muxer handed to the writer, and a copy of a part     *)
(* holds that part.                                                           *)
EXTENDS ClipFile, WellFoundedInduction, SequenceTheorems, FiniteSetTheorems, TLAPS

--------------------------------------------------------------------------------
(* Induction and sums.                                                        *)

(* A set of numbers has a least element.                                      *)
LEMMA LeastOf ==
    ASSUME NEW S \in SUBSET Nat, S # {}
    PROVE  \E k \in S : \A j \in S : k <= j
<1>. DEFINE Below == {ss \in Nat \X Nat : ss[1] < ss[2]}
<1>1. IsWellFoundedOn(Below, Nat)
  BY NatLessThanWellFounded DEF OpToRel
<1>2. PICK k \in S : \A j \in S : ~ (<<j, k>> \in Below)
  <2>. HIDE DEF Below
  <2>. QED BY <1>1, WFMin
<1>3. ASSUME NEW j \in S PROVE k <= j
  <2>1. k \in Nat /\ j \in Nat /\ ~ (<<j, k>> \in Below)
    BY <1>2
  <2>. QED BY <2>1
<1>. QED BY <1>3

(* What holds at the start and with each number at the next holds throughout. *)
LEMMA Upwards ==
    ASSUME NEW a \in Int, NEW b \in Int, NEW S, a \in S, \A k \in a + 1..b : k - 1 \in S => k \in S
    PROVE  \A k \in a..b : k \in S
<1>. SUFFICES ASSUME NEW c \in a..b, c \notin S PROVE FALSE
  OBVIOUS
<1>. DEFINE T == {m \in Nat : a + m <= b /\ a + m \notin S}
<1>1. c - a \in T
  OBVIOUS
<1>2. PICK m \in T : \A j \in T : m <= j
  <2>. HIDE DEF T
  <2>1. T \in SUBSET Nat
    BY DEF T
  <2>. QED BY <1>1, <2>1, LeastOf
<1>3. m \in Nat /\ a + m <= b /\ a + m \notin S
  BY <1>2
<1>4. m # 0
  BY <1>3
<1>5. m - 1 \in Nat /\ m - 1 \notin T
  BY <1>2, <1>3, <1>4
<1>6. a + (m - 1) \in S
  BY <1>3, <1>5
<1>7. a + m \in a + 1..b /\ (a + m) - 1 = a + (m - 1)
  BY <1>3, <1>4
<1>. QED BY <1>3, <1>6, <1>7

(* A sum is what adds up to it.                                               *)
LEMMA SumIs ==
    ASSUME NEW n \in Nat, NEW f, NEW P, P[0] = 0, \A k \in 1..n : P[k] = P[k - 1] + f[k]
    PROVE  Sum(f, n) = P[n]
<1>. DEFINE Is(s) == s = [k \in 0..n |-> IF k = 0 THEN 0 ELSE s[k - 1] + f[k]]
            u == [k \in 0..n |-> P[k]]
            s == CHOOSE s : Is(s)
<1>1. Is(u)
  <2>1. ASSUME NEW k \in 0..n PROVE u[k] = IF k = 0 THEN 0 ELSE u[k - 1] + f[k]
    <3>1. CASE k = 0
      BY <3>1
    <3>2. CASE k # 0
      <4>1. k \in 1..n /\ k - 1 \in 0..n
        BY <3>2
      <4>. QED BY <3>2, <4>1
    <3>. QED BY <3>1, <3>2
  <2>. QED BY <2>1
<1>2. Is(s)
  BY <1>1
<1>3. Sum(f, n) = s[n]
  BY DEF Sum
<1>. HIDE DEF s
<1>4. \A k \in 0..n : s[k] = IF k = 0 THEN 0 ELSE s[k - 1] + f[k]
  BY <1>2
<1>. DEFINE S == {k \in 0..n : s[k] = P[k]}
<1>5. 0 \in S
  BY <1>4
<1>6. ASSUME NEW k \in 0 + 1..n, k - 1 \in S PROVE k \in S
  <2>1. k \in 0..n /\ k # 0 /\ k \in 1..n
    OBVIOUS
  <2>2. s[k] = s[k - 1] + f[k] /\ s[k - 1] = P[k - 1] /\ P[k] = P[k - 1] + f[k]
    BY <1>4, <1>6, <2>1
  <2>. QED BY <2>1, <2>2
<1>7. \A k \in 0..n : k \in S
  <2>. HIDE DEF S
  <2>. QED BY <1>5, <1>6, Upwards
<1>8. n \in 0..n
  OBVIOUS
<1>. QED BY <1>3, <1>7, <1>8

AddsUp(P, f, n) == P \in [0..n -> Nat] /\ P[0] = 0 /\ \A k \in 1..n : P[k] = P[k - 1] + f[k]
UpTo(f, n) == CHOOSE P \in [0..n -> Nat] : AddsUp(P, f, n)

LEMMA UpToIs ==
    ASSUME NEW n \in Nat, NEW f \in [1..n -> Nat]
    PROVE  AddsUp(UpTo(f, n), f, n)
<1>. DEFINE S == {m \in 0..n : \E P \in [0..m -> Nat] : AddsUp(P, f, m)}
<1>1. 0 \in S
  <2>. DEFINE P == [k \in 0..0 |-> 0]
  <2>1. P \in [0..0 -> Nat] /\ AddsUp(P, f, 0)
    BY DEF AddsUp
  <2>. QED BY <2>1
<1>2. ASSUME NEW m \in 0 + 1..n, m - 1 \in S PROVE m \in S
  <2>1. PICK P \in [0..m - 1 -> Nat] : AddsUp(P, f, m - 1)
    BY <1>2
  <2>. DEFINE R == [k \in 0..m |-> IF k = m THEN P[m - 1] + f[m] ELSE P[k]]
  <2>2. f[m] \in Nat /\ P[m - 1] \in Nat /\ m - 1 \in 0..m - 1
    BY <2>1
  <2>3. ASSUME NEW k \in 0..m PROVE R[k] \in Nat
    BY <2>1, <2>2
  <2>4. ASSUME NEW k \in 1..m PROVE R[k] = R[k - 1] + f[k]
    <3>1. k - 1 \in 0..m /\ k - 1 # m /\ k \in 0..m
      OBVIOUS
    <3>2. R[k - 1] = P[k - 1]
      BY <3>1
    <3>3. CASE k = m
      BY <3>1, <3>2, <3>3
    <3>4. CASE k # m
      <4>1. k \in 1..m - 1 /\ R[k] = P[k]
        BY <3>1, <3>4
      <4>. QED BY <2>1, <3>2, <4>1 DEF AddsUp
    <3>. QED BY <3>3, <3>4
  <2>5. R[0] = 0
    BY <2>1 DEF AddsUp
  <2>6. R \in [0..m -> Nat]
    BY <2>3
  <2>. HIDE DEF R
  <2>7. AddsUp(R, f, m)
    BY <2>4, <2>5, <2>6 DEF AddsUp
  <2>. QED BY <2>6, <2>7
<1>3. n \in S
  <2>. HIDE DEF S
  <2>1. \A k \in 0 + 1..n : k - 1 \in S => k \in S
    BY <1>2
  <2>2. 0 \in Int /\ n \in Int /\ n \in 0..n
    OBVIOUS
  <2>. QED BY <1>1, <2>1, <2>2, Upwards
<1>4. \E P \in [0..n -> Nat] : AddsUp(P, f, n)
  BY <1>3
<1>. QED BY <1>4 DEF UpTo

(* The sums of f are UpTo, and grow.                                           *)
LEMMA SumsOf ==
    ASSUME NEW n \in Nat, NEW f \in [1..n -> Nat]
    PROVE  \A k \in 0..n : Sum(f, k) = UpTo(f, n)[k] /\ Sum(f, k) \in Nat
<1>. DEFINE P == UpTo(f, n)
<1>1. P \in [0..n -> Nat] /\ P[0] = 0 /\ \A k \in 1..n : P[k] = P[k - 1] + f[k]
  BY UpToIs DEF AddsUp
<1>. HIDE DEF P
<1>2. ASSUME NEW k \in 0..n PROVE Sum(f, k) = P[k] /\ P[k] \in Nat
  <2>1. k \in Nat /\ \A i \in 1..k : i \in 1..n
    OBVIOUS
  <2>2. \A i \in 1..k : P[i] = P[i - 1] + f[i]
    BY <1>1, <2>1
  <2>3. Sum(f, k) = P[k]
    BY <1>1, <2>1, <2>2, SumIs, ZenonT(60)
  <2>. QED BY <1>1, <2>3
<1>. QED BY <1>2 DEF P

(* Over a stretch of equal terms a sum grows by as many of them.               *)
LEMMA SumOfEquals ==
    ASSUME NEW n \in Nat, NEW f \in [1..n -> Nat], NEW P, AddsUp(P, f, n), NEW c \in Nat,
           NEW a \in 0..n, NEW b \in a..n, \A k \in a + 1..b : f[k] = c
    PROVE  P[b] = P[a] + (b - a) * c
<1>. DEFINE S == {m \in a..b : P[m] = P[a] + (m - a) * c}
<1>0. P \in [0..n -> Nat] /\ \A k \in 1..n : P[k] = P[k - 1] + f[k]
  BY DEF AddsUp
<1>1. a \in S
  <2>1. P[a] \in Nat /\ a - a = 0 /\ 0 * c = 0 /\ a \in a..b
    BY <1>0
  <2>. QED BY <2>1
<1>2. ASSUME NEW m \in a + 1..b, m - 1 \in S PROVE m \in S
  <2>1. m \in 1..n /\ m \in a..b /\ m - 1 \in 0..n /\ f[m] = c /\ P[a] \in Nat
    BY <1>0
  <2>2. P[m] = P[m - 1] + c /\ P[m - 1] = P[a] + ((m - 1) - a) * c
    BY <1>0, <1>2, <2>1
  <2>3. ((m - 1) - a) * c + c = (m - a) * c /\ ((m - 1) - a) * c \in Int /\ (m - a) * c \in Int
    BY <2>1
  <2>4. P[m] = P[a] + (m - a) * c
    BY <2>1, <2>2, <2>3
  <2>. QED BY <2>1, <2>4
<1>3. b \in S
  <2>. HIDE DEF S
  <2>1. \A k \in a + 1..b : k - 1 \in S => k \in S
    BY <1>2
  <2>2. a \in Int /\ b \in Int /\ b \in a..b
    OBVIOUS
  <2>. QED BY <1>1, <2>1, <2>2, Upwards
<1>. QED BY <1>3

LEMMA SumGrows ==
    ASSUME NEW n \in Nat, NEW f \in [1..n -> Nat], NEW P, AddsUp(P, f, n), NEW a \in 0..n, NEW b \in a..n
    PROVE  P[a] <= P[b]
<1>. DEFINE S == {m \in a..b : P[a] <= P[m]}
<1>0. P \in [0..n -> Nat] /\ \A k \in 1..n : P[k] = P[k - 1] + f[k]
  BY DEF AddsUp
<1>1. a \in S
  BY <1>0
<1>2. ASSUME NEW m \in a + 1..b, m - 1 \in S PROVE m \in S
  <2>1. m \in 1..n /\ m \in a..b /\ m - 1 \in 0..n /\ f[m] \in Nat /\ P[a] \in Nat /\ P[m] \in Nat /\ P[m - 1] \in Nat
    BY <1>0
  <2>2. P[m] = P[m - 1] + f[m] /\ P[a] <= P[m - 1]
    BY <1>0, <1>2, <2>1
  <2>. QED BY <2>1, <2>2
<1>3. b \in S
  <2>. HIDE DEF S
  <2>1. \A k \in a + 1..b : k - 1 \in S => k \in S
    BY <1>2
  <2>2. a \in Int /\ b \in Int /\ b \in a..b
    OBVIOUS
  <2>. QED BY <1>1, <2>1, <2>2, Upwards
<1>. QED BY <1>3

(* Least and greatest of a set.                                               *)
LEMMA LowestIs ==
    ASSUME NEW S \in SUBSET Nat, S # {}
    PROVE  Lowest(S) \in S /\ \A y \in S : Lowest(S) <= y
<1>1. \E x \in S : \A y \in S : x <= y
  BY LeastOf
<1>. QED BY <1>1 DEF Lowest

LEMMA HighestIs ==
    ASSUME NEW n \in Nat, NEW S \in SUBSET (0..n), S # {}
    PROVE  Highest(S) \in S /\ \A y \in S : y <= Highest(S)
<1>. DEFINE T == {n - x : x \in S}
<1>1. T \in SUBSET Nat /\ T # {}
  <2>1. \A x \in S : n - x \in Nat
    OBVIOUS
  <2>2. PICK x \in S : TRUE
    OBVIOUS
  <2>3. n - x \in T
    OBVIOUS
  <2>. QED BY <2>1, <2>3
<1>2. PICK t \in T : \A u \in T : t <= u
  <2>. HIDE DEF T
  <2>. QED BY <1>1, LeastOf
<1>3. PICK x \in S : t = n - x
  OBVIOUS
<1>4. ASSUME NEW y \in S PROVE y <= x
  <2>1. n - y \in T /\ y \in Int /\ x \in Int
    OBVIOUS
  <2>2. n - x <= n - y
    BY <1>2, <1>3, <2>1
  <2>. QED BY <2>1, <2>2
<1>5. \E z \in S : \A y \in S : y <= z
  BY <1>4
<1>. QED BY <1>5 DEF Highest

--------------------------------------------------------------------------------
(* Runs of equal values.                                                      *)
Run == [count : Nat \ {0}, value : Nat]
Counts(runs) == [j \in 1..Len(runs) |-> runs[j].count]

(* runs says what v is of 1..n.                                               *)
RunsSay(runs, cum, v, n) ==
    /\ AddsUp(cum, Counts(runs), Len(runs)) /\ cum[Len(runs)] = n
    /\ \A i \in 1..Len(runs) : \A id \in cum[i - 1] + 1..cum[i] : v[id] = runs[i].value
RunsHold(runs, v, n) == runs \in Seq(Run) /\ \E cum : RunsSay(runs, cum, v, n)

LEMMA RunParts ==
    ASSUME NEW runs \in Seq(Run)
    PROVE  /\ Len(runs) \in Nat /\ DOMAIN runs = 1..Len(runs)
           /\ \A i \in 1..Len(runs) : /\ runs[i] \in Run
                                      /\ runs[i].count \in Nat /\ runs[i].count >= 1 /\ runs[i].value \in Nat
           /\ Counts(runs) \in [1..Len(runs) -> Nat]
           /\ runs # <<>> <=> Len(runs) \in 1..Len(runs)
<1>1. Len(runs) \in Nat /\ DOMAIN runs = 1..Len(runs) /\ \A i \in 1..Len(runs) : runs[i] \in Run
  BY ElementOfSeq, LenProperties
<1>2. \A i \in 1..Len(runs) : runs[i].count \in Nat /\ runs[i].count >= 1 /\ runs[i].value \in Nat
  BY <1>1 DEF Run
<1>3. runs # <<>> <=> Len(runs) # 0
  BY EmptySeq
<1>4. runs # <<>> <=> Len(runs) \in 1..Len(runs)
  BY <1>1, <1>3
<1>. QED BY <1>1, <1>2, <1>4 DEF Counts

LEMMA NoRuns ==
    ASSUME NEW v
    PROVE  RunsHold(<<>>, v, 0)
<1>. DEFINE cum == [k \in 0..0 |-> 0]
<1>1. Len(<<>>) = 0 /\ <<>> \in Seq(Run)
  OBVIOUS
<1>2. cum \in [0..0 -> Nat] /\ cum[0] = 0 /\ \A i \in 1..0 : FALSE
  OBVIOUS
<1>. HIDE DEF cum
<1>3. RunsSay(<<>>, cum, v, 0)
  BY <1>1, <1>2 DEF RunsSay, AddsUp
<1>. QED BY <1>1, <1>3 DEF RunsHold

(* Counting the next value.                                                   *)
LEMMA CountedHolds ==
    ASSUME NEW n \in Nat, NEW v, v[n + 1] \in Nat, NEW runs, RunsHold(runs, v, n)
    PROVE  RunsHold(Counted(runs, v[n + 1]), v, n + 1) /\ Counted(runs, v[n + 1]) # <<>>
<1>. DEFINE L == Len(runs)
            val == v[n + 1]
            more == Counted(runs, val)
<1>1. runs \in Seq(Run) /\ L \in Nat /\ DOMAIN runs = 1..L
      /\ \A i \in 1..L : /\ runs[i] \in Run
                         /\ runs[i].count \in Nat /\ runs[i].count >= 1 /\ runs[i].value \in Nat
      /\ (runs # <<>> <=> L \in 1..L)
  BY RunParts DEF RunsHold
<1>2. PICK cum : RunsSay(runs, cum, v, n)
  BY DEF RunsHold
<1>3. /\ cum \in [0..L -> Nat] /\ cum[0] = 0 /\ cum[L] = n
      /\ \A k \in 1..L : cum[k] = cum[k - 1] + runs[k].count
      /\ \A i \in 1..L : \A id \in cum[i - 1] + 1..cum[i] : v[id] = runs[i].value
  BY <1>2 DEF RunsSay, AddsUp, Counts
<1>4. CASE runs # <<>> /\ runs[L].value = val
  <2>. DEFINE c == [k \in 0..L |-> IF k = L THEN n + 1 ELSE cum[k]]
              last == [count |-> runs[L].count + 1, value |-> runs[L].value]
  <2>1. L \in 1..L
    BY <1>1, <1>4
  <2>2. more = [runs EXCEPT ![L] = last]
    <3>1. more = [runs EXCEPT ![L].count = @ + 1]
      BY <1>4 DEF Counted, Final
    <3>2. runs[L] = [count |-> runs[L].count, value |-> runs[L].value]
      BY <1>1, <2>1 DEF Run
    <3>3. [runs[L] EXCEPT !.count = @ + 1] = last
      BY <3>2
    <3>. QED BY <3>1, <3>3
  <2>3. last \in Run
    BY <1>1, <2>1 DEF Run
  <2>4. more \in Seq(Run) /\ Len(more) = L /\ \A i \in 1..L : more[i] = IF i = L THEN last ELSE runs[i]
    <3>. HIDE DEF last
    <3>1. more \in Seq(Run) /\ Len(more) = L
      BY <1>1, <2>1, <2>2, <2>3, ExceptSeq
    <3>. QED BY <1>1, <2>2, <3>1
  <2>. HIDE DEF more
  <2>5. /\ c \in [0..L -> Nat] /\ c[0] = 0 /\ c[L] = n + 1
    BY <1>1, <1>3, <2>1
  <2>6. ASSUME NEW k \in 1..L
        PROVE  /\ c[k] = c[k - 1] + more[k].count
               /\ \A id \in c[k - 1] + 1..c[k] : v[id] = more[k].value
    <3>1. k - 1 \in 0..L /\ k - 1 # L /\ k \in 0..L
      BY <1>1
    <3>2. c[k - 1] = cum[k - 1] /\ cum[k - 1] \in Nat
      BY <1>3, <3>1
    <3>3. CASE k = L
      <4>1. more[k].count = runs[k].count + 1 /\ more[k].value = val /\ c[k] = n + 1 /\ n = cum[k - 1] + runs[k].count
        BY <1>3, <1>4, <2>4, <2>5, <3>1, <3>3
      <4>2. ASSUME NEW id \in c[k - 1] + 1..c[k] PROVE v[id] = val
        <5>1. CASE id = n + 1
          BY <5>1
        <5>2. CASE id # n + 1
          <6>1. id \in cum[k - 1] + 1..cum[k]
            BY <1>3, <3>2, <3>3, <4>1, <5>2
          <6>. QED BY <1>3, <1>4, <3>3, <6>1
        <5>. QED BY <5>1, <5>2
      <4>3. c[k] = c[k - 1] + more[k].count
        <5>1. runs[k].count \in Nat /\ cum[k - 1] \in Nat /\ c[k - 1] = cum[k - 1]
          BY <1>1, <3>2
        <5>. QED BY <4>1, <5>1, SMTT(30)
      <4>. QED BY <4>1, <4>2, <4>3
    <3>4. CASE k # L
      <4>1. c[k] = cum[k] /\ more[k] = runs[k]
        BY <2>4, <3>1, <3>4
      <4>. QED BY <1>3, <3>2, <4>1
    <3>. QED BY <3>3, <3>4
  <2>. HIDE DEF c
  <2>7. RunsSay(more, c, v, n + 1)
    BY <2>4, <2>5, <2>6 DEF RunsSay, AddsUp, Counts
  <2>8. more # <<>>
    BY <1>1, <2>1, <2>4
  <2>. QED BY <2>4, <2>7, <2>8 DEF RunsHold, more
<1>5. CASE ~ (runs # <<>> /\ runs[L].value = val)
  <2>. DEFINE last == [count |-> 1, value |-> val]
              c == [k \in 0..L + 1 |-> IF k = L + 1 THEN n + 1 ELSE cum[k]]
  <2>1. more = Append(runs, last) /\ last \in Run
    BY <1>5 DEF Counted, Final, Run
  <2>. HIDE DEF last
  <2>2. /\ more \in Seq(Run) /\ Len(more) = L + 1 /\ more[L + 1] = last
        /\ \A i \in 1..L : more[i] = runs[i]
    BY <1>1, <2>1, AppendProperties
  <2>. HIDE DEF more
  <2>3. /\ c \in [0..L + 1 -> Nat] /\ c[0] = 0 /\ c[L + 1] = n + 1
    BY <1>1, <1>3
  <2>4. ASSUME NEW k \in 1..L + 1
        PROVE  /\ c[k] = c[k - 1] + more[k].count
               /\ \A id \in c[k - 1] + 1..c[k] : v[id] = more[k].value
    <3>1. k - 1 \in 0..L /\ k - 1 # L + 1 /\ k \in 0..L + 1
      BY <1>1
    <3>2. c[k - 1] = cum[k - 1] /\ cum[k - 1] \in Nat
      BY <1>3, <3>1
    <3>3. CASE k = L + 1
      <4>1. more[k].count = 1 /\ more[k].value = val /\ c[k] = n + 1 /\ c[k - 1] = n
        <5>1. last.count = 1 /\ last.value = val
          BY DEF last
        <5>2. more[k] = last /\ c[k] = n + 1
          BY <2>2, <2>3, <3>3
        <5>3. k - 1 = L /\ cum[L] = n
          BY <1>1, <1>3, <3>3
        <5>. QED BY <3>2, <5>1, <5>2, <5>3
      <4>2. \A id \in c[k - 1] + 1..c[k] : id = n + 1
        BY <4>1
      <4>. QED BY <4>1, <4>2
    <3>4. CASE k # L + 1
      <4>1. k \in 1..L /\ c[k] = cum[k] /\ more[k] = runs[k]
        BY <1>1, <2>2, <3>1, <3>4
      <4>. QED BY <1>3, <3>2, <4>1
    <3>. QED BY <3>3, <3>4
  <2>. HIDE DEF c
  <2>5. RunsSay(more, c, v, n + 1)
    BY <2>2, <2>3, <2>4 DEF RunsSay, AddsUp, Counts
  <2>6. more # <<>>
    BY <1>1, <2>2
  <2>. QED BY <2>2, <2>5, <2>6 DEF RunsHold, more
<1>. QED BY <1>4, <1>5

(* The runs are as long together as what they say.                            *)
LEMMA RunSums ==
    ASSUME NEW n \in Nat, NEW v, NEW runs \in Seq(Run), NEW cum, RunsSay(runs, cum, v, n)
    PROVE  \A i \in 0..Len(runs) : Sum(Counts(runs), i) = cum[i] /\ cum[i] \in 0..n
<1>. DEFINE L == Len(runs)
<1>1. L \in Nat /\ Counts(runs) \in [1..L -> Nat] /\ AddsUp(cum, Counts(runs), L) /\ cum[L] = n
  BY RunParts DEF RunsSay
<1>2. cum \in [0..L -> Nat] /\ cum[0] = 0 /\ \A k \in 1..L : cum[k] = cum[k - 1] + Counts(runs)[k]
  BY <1>1 DEF AddsUp
<1>3. ASSUME NEW i \in 0..L PROVE Sum(Counts(runs), i) = cum[i] /\ cum[i] \in 0..n
  <2>1. i \in Nat /\ L \in i..L /\ \A k \in 1..i : k \in 1..L
    BY <1>1
  <2>2. \A k \in 1..i : cum[k] = cum[k - 1] + Counts(runs)[k]
    BY <1>2, <2>1
  <2>3. Sum(Counts(runs), i) = cum[i]
    BY <1>2, <2>1, <2>2, SumIs
  <2>4. cum[i] <= cum[L]
    BY <1>1, <2>1, SumGrows
  <2>5. cum[i] \in Nat /\ cum[L] \in Nat
    BY <1>1, <1>2
  <2>. QED BY <1>1, <2>3, <2>4, <2>5
<1>. QED BY <1>3

(* What is read of a run is what was counted into it, and the terms before.   *)
LEMMA RunOfHolds ==
    ASSUME NEW N \in Nat, NEW v \in [1..N -> Nat], NEW n \in 0..N, NEW runs, RunsHold(runs, v, n),
           NEW id \in 1..n
    PROVE  LET run == RunOf(runs, id) IN
             /\ run.value = v[id]
             /\ (id - run.before - 1) * run.value + run.elapsed = UpTo(v, N)[id - 1]
             /\ id <= Sum(Counts(runs), Len(runs)) /\ runs # <<>>
<1>. DEFINE L == Len(runs)
            D == UpTo(v, N)
            f == Counts(runs)
            spent == [j \in 1..L |-> runs[j].count * runs[j].value]
            J == {j \in 1..L : id <= Sum(f, j)}
            i == Lowest(J)
<1>1. /\ runs \in Seq(Run) /\ L \in Nat /\ n \in Nat
      /\ \A j \in 1..L : runs[j].count \in Nat /\ runs[j].value \in Nat
      /\ (runs # <<>> <=> L \in 1..L)
  BY RunParts DEF RunsHold
<1>2. PICK cum : RunsSay(runs, cum, v, n)
  BY DEF RunsHold
<1>3. /\ cum \in [0..L -> Nat] /\ cum[0] = 0 /\ cum[L] = n
      /\ \A k \in 1..L : cum[k] = cum[k - 1] + runs[k].count
      /\ \A k \in 1..L : \A x \in cum[k - 1] + 1..cum[k] : v[x] = runs[k].value
  BY <1>2 DEF RunsSay, AddsUp, Counts
<1>4. \A k \in 0..L : Sum(f, k) = cum[k] /\ cum[k] \in 0..n
  BY <1>1, <1>2, RunSums
<1>5. RunOf(runs, id) = [value |-> runs[i].value, before |-> Sum(f, i - 1), elapsed |-> Sum(spent, i - 1)]
  BY DEF RunOf, Counts
<1>. HIDE DEF L, f
<1>6. L \in J
  <2>1. L # 0
    BY <1>3
  <2>2. L \in 0..L /\ L \in 1..L /\ id <= n
    BY <1>1, <2>1
  <2>3. Sum(f, L) = n
    BY <1>3, <1>4, <2>2
  <2>. QED BY <2>2, <2>3
<1>7. i \in J /\ \A j \in J : i <= j
  <2>. HIDE DEF i
  <2>1. J \in SUBSET Nat /\ J # {}
    BY <1>6
  <2>. HIDE DEF J
  <2>. QED BY <2>1, LowestIs DEF i
<1>. HIDE DEF i
<1>8. i \in 1..L /\ i - 1 \in 0..L /\ i - 1 \in Nat /\ i \in 0..L /\ id <= cum[i] /\ cum[i - 1] < id
      /\ cum[i] \in 0..n /\ cum[i - 1] \in 0..n
  <2>1. i \in 1..L /\ id <= Sum(f, i)
    BY <1>7
  <2>2. i - 1 \in 0..L /\ i - 1 \in Nat /\ i \in 0..L
    BY <1>1, <2>1
  <2>3. Sum(f, i) = cum[i] /\ cum[i] \in 0..n /\ Sum(f, i - 1) = cum[i - 1] /\ cum[i - 1] \in 0..n
    BY <1>4, <2>2
  <2>4. cum[i - 1] < id
    <3>1. CASE i - 1 = 0
      BY <1>3, <3>1
    <3>2. CASE i - 1 # 0
      <4>1. i - 1 \in 1..L /\ ~ (i <= i - 1)
        BY <2>1, <2>2, <3>2
      <4>2. ~ (id <= Sum(f, i - 1))
        BY <1>7, <4>1
      <4>. QED BY <2>3, <4>2
    <3>. QED BY <3>1, <3>2
  <2>. QED BY <2>1, <2>2, <2>3, <2>4
<1>. HIDE DEF J
<1>9. AddsUp(D, v, N) /\ D \in [0..N -> Nat] /\ D[0] = 0
  BY UpToIs DEF AddsUp
<1>. HIDE DEF D
<1>10. ASSUME NEW j \in 1..L PROVE D[cum[j]] = D[cum[j - 1]] + spent[j]
  <2>1. j - 1 \in 0..L /\ j \in 0..L
    BY <1>1
  <2>2. cum[j - 1] \in 0..n /\ cum[j] \in 0..n /\ cum[j] = cum[j - 1] + runs[j].count
        /\ runs[j].count \in Nat /\ runs[j].value \in Nat
    BY <1>1, <1>3, <1>4, <2>1
  <2>3. cum[j - 1] \in 0..N /\ cum[j] \in cum[j - 1]..N
    BY <2>2
  <2>4. \A k \in cum[j - 1] + 1..cum[j] : v[k] = runs[j].value
    BY <1>3
  <2>. DEFINE a == cum[j - 1]
              b == cum[j]
              c == runs[j].value
  <2>5. a \in 0..N /\ b \in a..N /\ c \in Nat /\ \A k \in a + 1..b : v[k] = c
    BY <2>2, <2>3, <2>4
  <2>7. D[b] = D[a] + (b - a) * c
    <3>. HIDE DEF a, b, c
    <3>. QED BY <1>9, <2>5, SumOfEquals, ZenonT(60)
  <2>6. cum[j] - cum[j - 1] = runs[j].count
    BY <2>2
  <2>. QED BY <2>6, <2>7
<1>11. Sum(spent, i - 1) = D[cum[i - 1]]
  <2>. DEFINE P == [j \in 0..L |-> D[cum[j]]]
  <2>. HIDE DEF spent
  <2>1. P[i - 1] = D[cum[i - 1]] /\ P[0] = 0
    BY <1>1, <1>3, <1>8, <1>9
  <2>2. ASSUME NEW k \in 1..i - 1 PROVE P[k] = P[k - 1] + spent[k]
    <3>1. k \in 1..L /\ k \in 0..L /\ k - 1 \in 0..L
      BY <1>1, <1>8
    <3>. QED BY <1>10, <3>1
  <2>. HIDE DEF P
  <2>3. Sum(spent, i - 1) = P[i - 1]
    BY <1>8, <2>1, <2>2, SumIs
  <2>. QED BY <2>1, <2>3
<1>. HIDE DEF spent
<1>12. runs[i].value \in Nat
  BY <1>1, <1>8
<1>13. \A x \in cum[i - 1] + 1..cum[i] : v[x] = runs[i].value
  BY <1>3, <1>8
<1>14. v[id] = runs[i].value
  <2>. DEFINE a == cum[i - 1]
              b == cum[i]
  <2>1. a \in 0..n /\ b \in 0..n /\ a < id /\ id <= b
    BY <1>8
  <2>2. id \in a + 1..b
    <3>. HIDE DEF a, b
    <3>. QED BY <2>1
  <2>. QED BY <1>13, <2>2
<1>15. D[id - 1] = D[cum[i - 1]] + ((id - 1) - cum[i - 1]) * runs[i].value
  <2>. DEFINE a == cum[i - 1]
              b == cum[i]
              c == runs[i].value
  <2>1. a \in 0..n /\ b \in 0..n /\ a < id /\ id <= b /\ c \in Nat /\ \A k \in a + 1..b : v[k] = c
    BY <1>8, <1>12, <1>13
  <2>2. D[id - 1] = D[a] + ((id - 1) - a) * c
    <3>. HIDE DEF a, b, c
    <3>1. a \in 0..N /\ id - 1 \in a..N /\ \A k \in a + 1..id - 1 : k \in a + 1..b
      BY <2>1
    <3>2. \A k \in a + 1..id - 1 : v[k] = c
      BY <2>1, <3>1
    <3>. DEFINE e == id - 1
    <3>3. a \in 0..N /\ e \in a..N /\ c \in Nat /\ \A k \in a + 1..e : v[k] = c
      BY <2>1, <3>1, <3>2
    <3>. HIDE DEF e
    <3>4. D[e] = D[a] + (e - a) * c
      BY <1>9, <3>3, SumOfEquals, ZenonT(60)
    <3>. QED BY <3>4 DEF e
  <2>. QED BY <2>2
<1>16. RunOf(runs, id) = [value |-> runs[i].value, before |-> cum[i - 1], elapsed |-> D[cum[i - 1]]]
  BY <1>4, <1>5, <1>8, <1>11
<1>17. (id - cum[i - 1] - 1) * runs[i].value + D[cum[i - 1]] = D[id - 1]
  <2>1. id - cum[i - 1] - 1 = (id - 1) - cum[i - 1] /\ cum[i - 1] \in 0..N
    BY <1>8
  <2>2. D[cum[i - 1]] \in Nat
    BY <1>9, <2>1
  <2>3. (id - 1) - cum[i - 1] \in Int /\ cum[i - 1] \in Int
    BY <2>1
  <2>4. ((id - 1) - cum[i - 1]) * runs[i].value \in Int
    BY <1>12, <2>3
  <2>. QED BY <1>15, <2>1, <2>2, <2>4
<1>18. id <= Sum(f, L) /\ runs # <<>>
  <2>1. L \in 1..L
    BY <1>1, <1>8
  <2>2. L \in 0..L /\ id <= n
    BY <1>1
  <2>. QED BY <1>1, <1>3, <1>4, <2>1, <2>2
<1>. QED BY <1>14, <1>16, <1>17, <1>18 DEF D, f, L

(* The table of offsets, begun by the first that is not zero.                 *)
OffsetsHold(runs, v, n) ==
    \/ runs = <<>> /\ \A id \in 1..n : v[id] = 0
    \/ runs # <<>> /\ RunsHold(runs, v, n)

LEMMA OffsetsKept ==
    ASSUME NEW n \in Nat, NEW v, v[n + 1] \in Nat, NEW runs, OffsetsHold(runs, v, n)
    PROVE  OffsetsHold(Offsets(runs, n, v[n + 1]), v, n + 1)
<1>1. CASE runs # <<>>
  BY <1>1, CountedHolds DEF Offsets, OffsetsHold
<1>2. CASE runs = <<>> /\ v[n + 1] = 0
  <2>1. \A id \in 1..n + 1 : id = n + 1 \/ id \in 1..n
    OBVIOUS
  <2>. QED BY <1>2, <2>1 DEF Offsets, OffsetsHold
<1>3. CASE runs = <<>> /\ v[n + 1] # 0
  <2>. DEFINE zeros == IF n > 0 THEN <<[count |-> n, value |-> 0]>> ELSE <<>>
  <2>1. RunsHold(zeros, v, n)
    <3>1. CASE n = 0
      BY <3>1, NoRuns
    <3>2. CASE n # 0
      <4>. DEFINE run == [count |-> n, value |-> 0]
                  cum == [k \in 0..1 |-> IF k = 1 THEN n ELSE 0]
      <4>1. zeros = <<run>> /\ run \in Run
        BY <3>2 DEF Run
      <4>2. Len(zeros) = 1 /\ zeros \in Seq(Run) /\ zeros[1] = run
        BY <4>1
      <4>3. cum \in [0..1 -> Nat] /\ cum[0] = 0 /\ cum[1] = n
        OBVIOUS
      <4>4. run.count = n /\ run.value = 0
        OBVIOUS
      <4>. HIDE DEF cum, run, zeros
      <4>5. \A k \in 1..1 : k = 1
        OBVIOUS
      <4>6. \A id \in cum[1 - 1] + 1..cum[1] : v[id] = zeros[1].value
        BY <1>3, <4>2, <4>3, <4>4 DEF OffsetsHold
      <4>7. RunsSay(zeros, cum, v, n)
        BY <4>2, <4>3, <4>4, <4>5, <4>6 DEF RunsSay, AddsUp, Counts
      <4>. QED BY <4>2, <4>7 DEF RunsHold
    <3>. QED BY <3>1, <3>2
  <2>2. Offsets(runs, n, v[n + 1]) = Counted(zeros, v[n + 1])
    BY <1>3 DEF Offsets
  <2>. HIDE DEF zeros
  <2>. QED BY <2>1, <2>2, CountedHolds DEF OffsetsHold
<1>. QED BY <1>1, <1>2, <1>3

--------------------------------------------------------------------------------
(* Samples, and the table that holds the first n of them.                     *)
Byte == [of : Nat, at : Nat]
Sample == [start : Int, duration : Nat, offset : Nat, sync : BOOLEAN,
           bytes : Seq(Byte) \ {<<>>}, rank : Int]
Durations(S) == [k \in 1..Len(S) |-> S[k].duration]
Renderings(S) == [k \in 1..Len(S) |-> S[k].offset]
ByteCounts(S) == [k \in 1..Len(S) |-> Len(S[k].bytes)]
Elapsed(S) == UpTo(Durations(S), Len(S))
EndBytes(S) == UpTo(ByteCounts(S), Len(S))

(* The listed samples are the sync samples.                                   *)
SyncHolds(stss, S, n) ==
    /\ stss \in Seq(Nat)
    /\ \A id \in 1..n : S[id].sync = (\E i \in 1..Len(stss) : stss[i] = id)

(* One size for all, or each with its own.                                    *)
SizeTable == [fixed : Nat, listed : Seq(Nat), count : Nat]
SizesHold(stsz, v, n) ==
    /\ stsz \in SizeTable /\ stsz.count = n
    /\ \/ n = 0
       \/ stsz.fixed > 0 /\ \A id \in 1..n : v[id] = stsz.fixed
       \/ stsz.fixed = 0 /\ Len(stsz.listed) = n /\ \A id \in 1..n : stsz.listed[id] = v[id]

(* What is known of the samples of a track.                                   *)
LEMMA SamplesAre ==
    ASSUME NEW S \in Seq(Sample)
    PROVE  /\ Len(S) \in Nat /\ DOMAIN S = 1..Len(S)
           /\ \A k \in 1..Len(S) :
                /\ S[k] \in Sample /\ S[k].start \in Int /\ S[k].duration \in Nat /\ S[k].offset \in Nat
                /\ S[k].sync \in BOOLEAN /\ S[k].bytes \in Seq(Byte) /\ Len(S[k].bytes) \in Nat \ {0}
           /\ Durations(S) \in [1..Len(S) -> Nat] /\ Renderings(S) \in [1..Len(S) -> Nat]
           /\ ByteCounts(S) \in [1..Len(S) -> Nat]
<1>1. Len(S) \in Nat /\ DOMAIN S = 1..Len(S) /\ \A k \in 1..Len(S) : S[k] \in Sample
  BY ElementOfSeq, LenProperties
<1>2. ASSUME NEW k \in 1..Len(S)
      PROVE  /\ S[k] \in Sample /\ S[k].start \in Int /\ S[k].duration \in Nat /\ S[k].offset \in Nat
             /\ S[k].sync \in BOOLEAN /\ S[k].bytes \in Seq(Byte) /\ Len(S[k].bytes) \in Nat \ {0}
  <2>1. /\ S[k].start \in Int /\ S[k].duration \in Nat /\ S[k].offset \in Nat
        /\ S[k].sync \in BOOLEAN /\ S[k].bytes \in Seq(Byte) /\ S[k].bytes # <<>>
    BY <1>1 DEF Sample
  <2>2. Len(S[k].bytes) \in Nat /\ Len(S[k].bytes) # 0
    BY <2>1, LenProperties, EmptySeq
  <2>. QED BY <1>1, <2>1, <2>2
<1>. QED BY <1>1, <1>2 DEF Durations, Renderings, ByteCounts

LEMMA SyncKept ==
    ASSUME NEW S \in Seq(Sample), NEW n \in Nat, n + 1 \in 1..Len(S), NEW stss, SyncHolds(stss, S, n),
           \A i \in 1..Len(stss) : stss[i] \in 1..n
    PROVE  LET more == IF S[n + 1].sync THEN Append(stss, n + 1) ELSE stss
           IN  SyncHolds(more, S, n + 1) /\ \A i \in 1..Len(more) : more[i] \in 1..n + 1
<1>. DEFINE L == Len(stss)
<1>1. L \in Nat /\ stss \in Seq(Nat) /\ \A id \in 1..n : S[id].sync = (\E i \in 1..L : stss[i] = id)
  BY LenProperties DEF SyncHolds
<1>2. S[n + 1].sync \in BOOLEAN
  BY SamplesAre
<1>3. CASE S[n + 1].sync
  <2>. DEFINE more == Append(stss, n + 1)
  <2>1. more \in Seq(Nat) /\ Len(more) = L + 1 /\ more[L + 1] = n + 1 /\ \A i \in 1..L : more[i] = stss[i]
    BY <1>1, AppendProperties
  <2>. HIDE DEF more, L
  <2>2. ASSUME NEW id \in 1..n + 1 PROVE S[id].sync = (\E i \in 1..L + 1 : more[i] = id)
    <3>1. CASE id = n + 1
      <4>1. L + 1 \in 1..L + 1 /\ more[L + 1] = id
        BY <1>1, <2>1, <3>1
      <4>2. S[id].sync = TRUE
        BY <1>2, <1>3, <3>1
      <4>. QED BY <4>1, <4>2
    <3>2. CASE id # n + 1
      <4>1. id \in 1..n
        BY <3>2
      <4>2. ASSUME NEW i \in 1..L + 1, more[i] = id PROVE i \in 1..L
        BY <1>1, <2>1, <3>2, <4>2
      <4>3. \A i \in 1..L : i \in 1..L + 1
        BY <1>1
      <4>4. (\E i \in 1..L + 1 : more[i] = id) <=> (\E i \in 1..L : stss[i] = id)
        BY <2>1, <4>2, <4>3
      <4>. QED BY <1>1, <4>1, <4>4
    <3>. QED BY <3>1, <3>2
  <2>3. \A i \in 1..L + 1 : more[i] \in 1..n + 1
    <3>1. ASSUME NEW i \in 1..L + 1 PROVE more[i] \in 1..n + 1
      <4>1. CASE i = L + 1
        BY <2>1, <4>1
      <4>2. CASE i # L + 1
        <5>1. i \in 1..L
          BY <1>1, <4>2
        <5>2. stss[i] \in 1..n
          BY <5>1 DEF L
        <5>. QED BY <2>1, <5>1, <5>2
      <4>. QED BY <4>1, <4>2
    <3>. QED BY <3>1
  <2>4. SyncHolds(more, S, n + 1)
    BY <2>1, <2>2 DEF SyncHolds
  <2>. QED BY <1>3, <2>1, <2>3, <2>4 DEF more
<1>4. CASE ~ S[n + 1].sync
  <2>1. ASSUME NEW id \in 1..n + 1 PROVE S[id].sync = (\E i \in 1..L : stss[i] = id)
    <3>1. CASE id = n + 1
      <4>1. ~ \E i \in 1..L : stss[i] = id
        BY <3>1
      <4>. QED BY <1>2, <1>4, <3>1, <4>1
    <3>2. CASE id # n + 1
      <4>1. id \in 1..n
        BY <3>2
      <4>. QED BY <1>1, <4>1
    <3>. QED BY <3>1, <3>2
  <2>2. \A i \in 1..L : stss[i] \in 1..n + 1
    OBVIOUS
  <2>. QED BY <1>1, <1>4, <2>1, <2>2 DEF SyncHolds
<1>. QED BY <1>2, <1>3, <1>4

LEMMA SizesKept ==
    ASSUME NEW n \in Nat, NEW v, v[n + 1] \in Nat \ {0}, NEW stsz, SizesHold(stsz, v, n)
    PROVE  SizesHold(SampleSizes(stsz, v[n + 1]), v, n + 1)
<1>. DEFINE size == v[n + 1]
            more == SampleSizes(stsz, size)
<1>1. stsz \in SizeTable /\ stsz.count = n /\ stsz.fixed \in Nat /\ stsz.listed \in Seq(Nat)
  BY DEF SizesHold, SizeTable
<1>2. size \in Nat /\ size > 0
  OBVIOUS
<1>3. \A id \in 1..n + 1 : id = n + 1 \/ id \in 1..n
  OBVIOUS
<1>4. CASE n = 0
  <2>1. more = [fixed |-> size, listed |-> <<>>, count |-> 1]
    BY <1>1, <1>4 DEF SampleSizes
  <2>2. more \in SizeTable /\ more.count = n + 1 /\ more.fixed = size
    BY <1>2, <1>4, <2>1 DEF SizeTable
  <2>3. \A id \in 1..n + 1 : v[id] = size
    BY <1>4
  <2>. HIDE DEF more
  <2>4. SizesHold(more, v, n + 1)
    BY <1>2, <2>2, <2>3 DEF SizesHold
  <2>. QED BY <2>4 DEF more
<1>5. CASE n # 0 /\ stsz.fixed = size
  <2>1. more = [stsz EXCEPT !.count = @ + 1]
    BY <1>1, <1>5 DEF SampleSizes
  <2>2. more \in SizeTable /\ more.count = n + 1 /\ more.fixed = size
    BY <1>1, <1>5, <2>1 DEF SizeTable
  <2>3. \A id \in 1..n : v[id] = size
    BY <1>2, <1>5 DEF SizesHold
  <2>. HIDE DEF more
  <2>4. SizesHold(more, v, n + 1)
    BY <1>2, <1>3, <2>2, <2>3 DEF SizesHold
  <2>. QED BY <2>4 DEF more
<1>6. CASE n # 0 /\ stsz.fixed # size
  <2>. DEFINE old == IF stsz.fixed > 0 THEN [i \in 1..n |-> stsz.fixed] ELSE stsz.listed
  <2>1. more = [fixed |-> 0, count |-> n + 1, listed |-> Append(old, size)]
    BY <1>1, <1>6 DEF SampleSizes
  <2>2. old \in Seq(Nat) /\ Len(old) = n /\ \A id \in 1..n : old[id] = v[id]
    <3>1. CASE stsz.fixed > 0
      <4>1. old = [i \in 1..n |-> stsz.fixed] /\ \A id \in 1..n : v[id] = stsz.fixed
        BY <1>6, <3>1 DEF SizesHold
      <4>2. old \in Seq(Nat)
        BY <1>1, <4>1, IsASeq
      <4>3. Len(old) = n
        BY <4>1, <4>2, LenProperties
      <4>. QED BY <4>1, <4>2, <4>3
    <3>2. CASE ~ stsz.fixed > 0
      BY <1>1, <1>6, <3>2 DEF SizesHold
    <3>. QED BY <3>1, <3>2
  <2>. HIDE DEF old
  <2>. DEFINE new == Append(old, size)
  <2>3. new \in Seq(Nat) /\ Len(new) = n + 1 /\ new[n + 1] = size /\ \A i \in 1..n : new[i] = old[i]
    BY <1>2, <2>2, AppendProperties
  <2>. HIDE DEF new
  <2>4. more \in SizeTable /\ more.count = n + 1 /\ more.fixed = 0 /\ more.listed = new
    BY <2>1, <2>3 DEF SizeTable, new
  <2>5. \A id \in 1..n + 1 : new[id] = v[id]
    BY <1>3, <2>2, <2>3
  <2>. HIDE DEF more
  <2>6. SizesHold(more, v, n + 1)
    BY <2>3, <2>4, <2>5 DEF SizesHold
  <2>. QED BY <2>6 DEF more
<1>. QED BY <1>4, <1>5, <1>6

(* A size is read as it was recorded.                                         *)
LEMMA SizeReads ==
    ASSUME NEW n \in Nat, NEW v, NEW t, SizesHold(t.stsz, v, n), NEW id \in 1..n
    PROVE  SampleSize(t, id) = v[id]
BY DEF SizesHold, SampleSize, SizeTable

--------------------------------------------------------------------------------
(* Chunks.                                                                    *)

(* The first chunk of each run of chunks, and the chunk after all of them.    *)
Starts(stsc, C) == [i \in 1..Len(stsc) + 1 |-> IF i <= Len(stsc) THEN stsc[i].first ELSE C + 1]

(* Chunk k of C begins with sample F[k]; the runs tell how many each has.     *)
ChunkRuns(stsc, C, F) ==
    /\ stsc \in Seq([first : Nat, samples : Nat]) /\ C \in Nat
    /\ F \in [1..C + 1 -> Nat \ {0}] /\ F[1] = 1 /\ Starts(stsc, C)[1] = 1
    /\ \A i \in 1..Len(stsc) :
        /\ Starts(stsc, C)[i] < Starts(stsc, C)[i + 1] /\ stsc[i].samples >= 1
        /\ \A k \in Starts(stsc, C)[i]..Starts(stsc, C)[i + 1] - 1 : F[k + 1] = F[k] + stsc[i].samples

LEMMA StartsAre ==
    ASSUME NEW stsc, NEW C, NEW F, ChunkRuns(stsc, C, F)
    PROVE  /\ Len(stsc) \in Nat /\ DOMAIN stsc = 1..Len(stsc)
           /\ Starts(stsc, C) \in [1..Len(stsc) + 1 -> 1..C + 1]
           /\ \A i \in 1..Len(stsc) : stsc[i].first = Starts(stsc, C)[i] /\ stsc[i].samples \in Nat
           /\ Starts(stsc, C)[Len(stsc) + 1] = C + 1
<1>. DEFINE R == Len(stsc)
            A == Starts(stsc, C)
<1>1. R \in Nat /\ DOMAIN stsc = 1..R /\ \A i \in 1..R : stsc[i] \in [first : Nat, samples : Nat]
  BY ElementOfSeq, LenProperties DEF ChunkRuns
<1>2. \A i \in 1..R : stsc[i].first \in Nat /\ stsc[i].samples \in Nat
  BY <1>1
<1>3. C \in Nat /\ A[1] = 1 /\ \A i \in 1..R : A[i] < A[i + 1]
  BY DEF ChunkRuns
<1>4. A = [i \in 1..R + 1 |-> IF i <= R THEN stsc[i].first ELSE C + 1]
  BY DEF Starts
<1>. HIDE DEF R, A
<1>5. \A i \in 1..R : A[i] = stsc[i].first
  <2>1. \A i \in 1..R : i \in 1..R + 1 /\ i <= R
    BY <1>1
  <2>. QED BY <1>4, <2>1
<1>6. A[R + 1] = C + 1
  <2>1. R + 1 \in 1..R + 1 /\ ~ (R + 1 <= R)
    BY <1>1
  <2>. QED BY <1>4, <2>1
<1>7. \A i \in 1..R + 1 : A[i] \in Nat
  <2>1. \A i \in 1..R + 1 : i = R + 1 \/ i \in 1..R
    BY <1>1
  <2>. QED BY <1>2, <1>3, <1>5, <1>6, <2>1
<1>8. ASSUME NEW i \in 1..R + 1 PROVE A[i] \in 1..C + 1
  <2>. DEFINE Up == {j \in 1..R + 1 : A[j] >= 1}
              Down == {j \in 0..R : A[R + 1 - j] <= C + 1}
  <2>1. 1 \in Up /\ 0 \in Down
    BY <1>1, <1>3, <1>6
  <2>2. ASSUME NEW k \in 1 + 1..R + 1, k - 1 \in Up PROVE k \in Up
    <3>1. k \in 1..R + 1 /\ k - 1 \in 1..R /\ k - 1 \in 1..R + 1 /\ (k - 1) + 1 = k
      BY <1>1
    <3>2. A[k - 1] < A[k] /\ A[k - 1] >= 1 /\ A[k] \in Nat /\ A[k - 1] \in Nat
      BY <1>3, <1>7, <2>2, <3>1
    <3>. QED BY <3>1, <3>2
  <2>3. ASSUME NEW k \in 0 + 1..R, k - 1 \in Down PROVE k \in Down
    <3>1. k \in 0..R /\ R + 1 - k \in 1..R /\ R + 1 - (k - 1) = (R + 1 - k) + 1
          /\ R + 1 - k \in 1..R + 1 /\ (R + 1 - k) + 1 \in 1..R + 1
      BY <1>1
    <3>2. A[R + 1 - k] < A[(R + 1 - k) + 1] /\ A[(R + 1 - k) + 1] <= C + 1
      BY <1>3, <2>3, <3>1
    <3>3. A[R + 1 - k] \in Nat /\ A[(R + 1 - k) + 1] \in Nat
      BY <1>7, <3>1
    <3>. DEFINE x == A[R + 1 - k]
                y == A[(R + 1 - k) + 1]
    <3>4. x <= C + 1
      <4>1. x < y /\ y <= C + 1 /\ x \in Nat /\ y \in Nat
        BY <3>2, <3>3
      <4>. HIDE DEF x, y
      <4>. QED BY <1>3, <4>1
    <3>. QED BY <3>1, <3>4
  <2>4. i \in Up
    <3>. HIDE DEF Up
    <3>1. 1 \in Int /\ R + 1 \in Int /\ i \in 1..R + 1
      BY <1>1
    <3>2. \A k \in 1 + 1..R + 1 : k - 1 \in Up => k \in Up
      BY <2>2
    <3>. QED BY <2>1, <3>1, <3>2, Upwards
  <2>5. R + 1 - i \in Down
    <3>. HIDE DEF Down
    <3>1. 0 \in Int /\ R \in Int /\ R + 1 - i \in 0..R
      BY <1>1
    <3>2. \A k \in 0 + 1..R : k - 1 \in Down => k \in Down
      BY <2>3
    <3>. QED BY <2>1, <3>1, <3>2, Upwards
  <2>6. R + 1 - (R + 1 - i) = i
    BY <1>1
  <2>. QED BY <1>3, <1>7, <2>4, <2>5, <2>6
<1>9. A \in [1..R + 1 -> 1..C + 1]
  BY <1>4, <1>8
<1>. QED BY <1>1, <1>2, <1>5, <1>6, <1>9 DEF R, A

(* A chunk of m samples.                                                      *)
RunsWith(stsc, C, m) == IF stsc # <<>> /\ Final(stsc).samples = m THEN stsc
                        ELSE Append(stsc, [first |-> C + 1, samples |-> m])
HeadsWith(F, C, m) == [k \in 1..C + 2 |-> IF k = C + 2 THEN F[C + 1] + m ELSE F[k]]

LEMMA ChunkAdded ==
    ASSUME NEW stsc, NEW C, NEW F, ChunkRuns(stsc, C, F), NEW m \in Nat \ {0}
    PROVE  ChunkRuns(RunsWith(stsc, C, m), C + 1, HeadsWith(F, C, m))
<1>. DEFINE R == Len(stsc)
            A == Starts(stsc, C)
            G == HeadsWith(F, C, m)
<1>1. /\ R \in Nat /\ DOMAIN stsc = 1..R /\ A \in [1..R + 1 -> 1..C + 1] /\ A[R + 1] = C + 1
      /\ \A i \in 1..R : stsc[i].first = A[i] /\ stsc[i].samples \in Nat
  BY StartsAre
<1>2. /\ stsc \in Seq([first : Nat, samples : Nat]) /\ C \in Nat
      /\ F \in [1..C + 1 -> Nat \ {0}] /\ F[1] = 1 /\ A[1] = 1
      /\ \A i \in 1..R : /\ A[i] < A[i + 1] /\ stsc[i].samples >= 1
                         /\ \A k \in A[i]..A[i + 1] - 1 : F[k + 1] = F[k] + stsc[i].samples
  BY DEF ChunkRuns
<1>3. F[C + 1] \in Nat \ {0}
  <2>1. C + 1 \in 1..C + 1
    BY <1>2
  <2>. QED BY <1>2, <2>1
<1>4. /\ G \in [1..(C + 1) + 1 -> Nat \ {0}] /\ G[1] = 1 /\ G[C + 2] = F[C + 1] + m
      /\ \A k \in 1..C + 1 : G[k] = F[k]
  <2>0. G = [k \in 1..C + 2 |-> IF k = C + 2 THEN F[C + 1] + m ELSE F[k]]
    BY DEF HeadsWith
  <2>1. \A k \in 1..C + 1 : k \in 1..C + 2 /\ k # C + 2
    BY <1>2
  <2>2. \A k \in 1..C + 1 : G[k] = F[k]
    BY <2>0, <2>1
  <2>3. C + 2 \in 1..C + 2 /\ (C + 1) + 1 = C + 2 /\ 1 \in 1..C + 1
    BY <1>2
  <2>4. G[C + 2] = F[C + 1] + m
    BY <2>0, <2>3
  <2>5. \A k \in 1..C + 2 : k = C + 2 \/ k \in 1..C + 1
    BY <1>2
  <2>6. \A k \in 1..C + 2 : G[k] \in Nat \ {0}
    <3>1. G[C + 2] \in Nat \ {0}
      BY <1>3, <2>4
    <3>2. \A k \in 1..C + 1 : F[k] \in Nat \ {0}
      BY <1>2
    <3>. HIDE DEF G
    <3>. QED BY <2>2, <2>5, <3>1, <3>2
  <2>7. G \in [1..C + 2 -> Nat \ {0}]
    BY <2>0, <2>6
  <2>. QED BY <1>2, <2>2, <2>3, <2>4, <2>7
<1>. HIDE DEF G, A, R
<1>5. CASE stsc # <<>> /\ Final(stsc).samples = m
  <2>1. R \in 1..R /\ R # 0 /\ stsc[R].samples = m
    <3>1. R # 0
      BY <1>2, <1>5, EmptySeq DEF R
    <3>. QED BY <1>1, <1>5, <3>1 DEF Final, R
  <2>. DEFINE B == Starts(stsc, C + 1)
  <2>2. B[R + 1] = C + 2 /\ \A i \in 1..R : B[i] = A[i]
    <3>1. B = [i \in 1..R + 1 |-> IF i <= R THEN stsc[i].first ELSE (C + 1) + 1]
      BY DEF Starts, R
    <3>2. R + 1 \in 1..R + 1 /\ ~ (R + 1 <= R) /\ (C + 1) + 1 = C + 2 /\ \A i \in 1..R : i \in 1..R + 1 /\ i <= R
      BY <1>1, <1>2
    <3>. QED BY <1>1, <3>1, <3>2
  <2>. HIDE DEF B
  <2>3. ASSUME NEW i \in 1..R
        PROVE  /\ B[i] < B[i + 1] /\ stsc[i].samples >= 1
               /\ \A k \in B[i]..B[i + 1] - 1 : G[k + 1] = G[k] + stsc[i].samples
    <3>1. /\ i \in 1..R + 1 /\ i + 1 \in 1..R + 1 /\ (i # R => i + 1 \in 1..R)
      BY <1>1
    <3>2. B[i] = A[i] /\ A[i] \in 1..C + 1 /\ A[i + 1] \in 1..C + 1 /\ A[i] < A[i + 1]
          /\ (i # R => B[i + 1] = A[i + 1]) /\ (i = R => B[i + 1] = C + 2 /\ A[i + 1] = C + 1)
      BY <1>1, <1>2, <2>2, <3>1
    <3>3. ASSUME NEW k \in B[i]..B[i + 1] - 1 PROVE G[k + 1] = G[k] + stsc[i].samples
      <4>1. CASE k = C + 1
        <5>1. i = R
          BY <3>2, <4>1
        <5>2. k + 1 = C + 2 /\ k \in 1..C + 1
          BY <1>2, <4>1
        <5>. QED BY <1>4, <2>1, <4>1, <5>1, <5>2
      <4>2. CASE k # C + 1
        <5>1. k \in A[i]..A[i + 1] - 1 /\ k \in 1..C + 1 /\ k + 1 \in 1..C + 1
          <6>. DEFINE x == A[i]
                      y == A[i + 1]
                      z == B[i + 1]
          <6>1. x \in 1..C + 1 /\ y \in 1..C + 1 /\ z \in {y, C + 2} /\ (z = C + 2 => y = C + 1) /\ k \in x..z - 1
            BY <1>2, <3>2
          <6>. HIDE DEF x, y, z
          <6>2. k \in x..y - 1 /\ k \in 1..C + 1 /\ k + 1 \in 1..C + 1
            BY <1>2, <4>2, <6>1
          <6>. QED BY <6>2 DEF x, y
        <5>. QED BY <1>2, <1>4, <5>1
      <4>. QED BY <4>1, <4>2
    <3>4. B[i] < B[i + 1]
      BY <1>2, <3>2
    <3>. QED BY <1>2, <3>3, <3>4
  <2>4. B[1] = 1
    BY <1>1, <1>2, <2>1, <2>2
  <2>5. ChunkRuns(stsc, C + 1, G)
    BY <1>2, <1>4, <2>3, <2>4 DEF ChunkRuns, B, R
  <2>. QED BY <1>5, <2>5 DEF G, RunsWith
<1>6. CASE ~ (stsc # <<>> /\ Final(stsc).samples = m)
  <2>. DEFINE run == [first |-> C + 1, samples |-> m]
              more == Append(stsc, run)
              B == Starts(more, C + 1)
  <2>1. run \in [first : Nat, samples : Nat] /\ run.first = C + 1 /\ run.samples = m
    BY <1>2
  <2>. HIDE DEF run
  <2>2. /\ more \in Seq([first : Nat, samples : Nat]) /\ Len(more) = R + 1 /\ more[R + 1] = run
        /\ \A i \in 1..R : more[i] = stsc[i]
    BY <1>2, <2>1, AppendProperties DEF R
  <2>. HIDE DEF more
  <2>3. B[R + 2] = C + 2 /\ \A i \in 1..R + 1 : B[i] = A[i]
    <3>1. B = [i \in 1..(R + 1) + 1 |-> IF i <= R + 1 THEN more[i].first ELSE (C + 1) + 1]
      BY <2>2 DEF Starts
    <3>2. R + 2 \in 1..(R + 1) + 1 /\ ~ (R + 2 <= R + 1) /\ (C + 1) + 1 = C + 2
          /\ \A i \in 1..R + 1 : i \in 1..(R + 1) + 1 /\ i <= R + 1 /\ (i = R + 1 \/ i \in 1..R)
      BY <1>1, <1>2
    <3>3. \A i \in 1..R + 1 : B[i] = more[i].first
      BY <3>1, <3>2
    <3>. QED BY <1>1, <2>1, <2>2, <3>1, <3>2, <3>3
  <2>. HIDE DEF B
  <2>4. ASSUME NEW i \in 1..R + 1
        PROVE  /\ B[i] < B[i + 1] /\ more[i].samples >= 1
               /\ \A k \in B[i]..B[i + 1] - 1 : G[k + 1] = G[k] + more[i].samples
    <3>1. CASE i = R + 1
      <4>1. B[i] = C + 1 /\ B[i + 1] = C + 2 /\ more[i].samples = m
        <5>1. i + 1 = R + 2 /\ i \in 1..R + 1
          BY <1>1, <3>1
        <5>. QED BY <1>1, <2>1, <2>2, <2>3, <3>1, <5>1
      <4>2. ASSUME NEW k \in B[i]..B[i + 1] - 1 PROVE G[k + 1] = G[k] + more[i].samples
        <5>1. k = C + 1 /\ k + 1 = C + 2 /\ k \in 1..C + 1
          BY <1>2, <4>1
        <5>. QED BY <1>4, <4>1, <5>1
      <4>3. B[i] < B[i + 1] /\ more[i].samples >= 1
        BY <1>2, <4>1
      <4>. QED BY <4>2, <4>3
    <3>2. CASE i # R + 1
      <4>1. i \in 1..R /\ i + 1 \in 1..R + 1 /\ i \in 1..R + 1
        BY <1>1, <3>2
      <4>2. B[i] = A[i] /\ B[i + 1] = A[i + 1] /\ more[i] = stsc[i] /\ A[i] \in 1..C + 1 /\ A[i + 1] \in 1..C + 1
        BY <1>1, <2>2, <2>3, <4>1
      <4>3. ASSUME NEW k \in B[i]..B[i + 1] - 1 PROVE G[k + 1] = G[k] + more[i].samples
        <5>1. k \in A[i]..A[i + 1] - 1 /\ k \in 1..C + 1 /\ k + 1 \in 1..C + 1
          <6>. DEFINE x == A[i]
                      y == A[i + 1]
          <6>1. x \in 1..C + 1 /\ y \in 1..C + 1 /\ k \in x..y - 1
            BY <4>2
          <6>. HIDE DEF x, y
          <6>2. k \in 1..C + 1 /\ k + 1 \in 1..C + 1
            BY <1>2, <6>1
          <6>. QED BY <4>2, <6>2
        <5>. QED BY <1>2, <1>4, <4>1, <4>2, <5>1
      <4>. QED BY <1>2, <4>1, <4>2, <4>3
    <3>. QED BY <3>1, <3>2
  <2>5. B[1] = 1
    <3>1. 1 \in 1..R + 1
      BY <1>1
    <3>. QED BY <1>2, <2>3, <3>1
  <2>6. ChunkRuns(more, C + 1, G)
    <3>1. C + 1 \in Nat
      BY <1>2
    <3>. QED BY <1>4, <2>2, <2>4, <2>5, <3>1 DEF ChunkRuns, B
  <2>. QED BY <1>6, <2>6 DEF G, more, run, RunsWith
<1>. QED BY <1>5, <1>6

(* The first sample of each run, which the reader works out.                  *)
FirstsSaid(t, C, F) == \A i \in DOMAIN t.stsc : FirstSamples(t)[i] = F[Starts(t.stsc, C)[i]]

LEMMA FirstsAre ==
    ASSUME NEW t, NEW C, NEW F, ChunkRuns(t.stsc, C, F)
    PROVE  FirstsSaid(t, C, F)
<1>. DEFINE R == Len(t.stsc)
            A == Starts(t.stsc, C)
            Is(s) == s = [i \in 1..R |-> IF i = 1 THEN 1
                            ELSE s[i - 1] + (t.stsc[i].first - t.stsc[i - 1].first) * t.stsc[i - 1].samples]
            u == [i \in 1..R |-> F[A[i]]]
            s == FirstSamples(t)
<1>1. /\ R \in Nat /\ A \in [1..R + 1 -> 1..C + 1] /\ A[R + 1] = C + 1
      /\ \A i \in 1..R : t.stsc[i].first = A[i] /\ t.stsc[i].samples \in Nat
  BY StartsAre
<1>2. /\ C \in Nat /\ F \in [1..C + 1 -> Nat] /\ F[1] = 1 /\ A[1] = 1
      /\ \A i \in 1..R : /\ A[i] < A[i + 1] /\ t.stsc[i].samples >= 1
                         /\ \A k \in A[i]..A[i + 1] - 1 : F[k + 1] = F[k] + t.stsc[i].samples
  BY DEF ChunkRuns
<1>. HIDE DEF A
<1>3. Is(u)
  <2>1. ASSUME NEW i \in 1..R
        PROVE  u[i] = IF i = 1 THEN 1
                      ELSE u[i - 1] + (t.stsc[i].first - t.stsc[i - 1].first) * t.stsc[i - 1].samples
    <3>1. CASE i = 1
      BY <1>2, <3>1
    <3>2. CASE i # 1
      <4>1. i - 1 \in 1..R /\ i \in 1..R + 1 /\ i - 1 \in 1..R + 1 /\ (i - 1) + 1 = i
        BY <1>1, <3>2
      <4>. DEFINE a == A[i - 1]
                  b == A[i]
                  c == t.stsc[i - 1].samples
                  S == {m \in a..b : F[m] = F[a] + (m - a) * c}
      <4>2. a \in 1..C + 1 /\ b \in 1..C + 1 /\ a < b /\ c \in Nat
            /\ \A k \in a..b - 1 : F[k + 1] = F[k] + c
        BY <1>1, <1>2, <4>1
      <4>. HIDE DEF a, b, c
      <4>3. \A m \in a..b : F[m] \in Nat
        BY <1>2, <4>2
      <4>4. a \in S
        <5>1. a \in a..b /\ F[a] \in Nat /\ a - a = 0 /\ 0 * c = 0
          BY <4>2, <4>3
        <5>. QED BY <5>1
      <4>5. ASSUME NEW k \in a + 1..b, k - 1 \in S PROVE k \in S
        <5>1. k - 1 \in a..b - 1 /\ (k - 1) + 1 = k /\ k \in a..b /\ a \in a..b
          BY <4>2
        <5>2. F[k] = F[k - 1] + c /\ F[k - 1] = F[a] + ((k - 1) - a) * c
          BY <4>2, <4>5, <5>1
        <5>3. ((k - 1) - a) * c + c = (k - a) * c /\ ((k - 1) - a) * c \in Int /\ (k - a) * c \in Int
          BY <4>2
        <5>4. F[k] = F[a] + (k - a) * c
          BY <4>2, <4>3, <5>1, <5>2, <5>3
        <5>. QED BY <5>1, <5>4
      <4>6. b \in S
        <5>. HIDE DEF S
        <5>1. \A k \in a + 1..b : k - 1 \in S => k \in S
          BY <4>5
        <5>2. a \in Int /\ b \in Int /\ b \in a..b
          BY <4>2
        <5>. QED BY <4>4, <5>1, <5>2, Upwards
      <4>7. F[b] = F[a] + (b - a) * c
        BY <4>6
      <4>8. u[i] = F[b] /\ u[i - 1] = F[a] /\ t.stsc[i].first = b /\ t.stsc[i - 1].first = a
        BY <1>1, <4>1 DEF a, b
      <4>. QED BY <3>2, <4>7, <4>8 DEF c
    <3>. QED BY <3>1, <3>2
  <2>. QED BY <2>1
<1>4. Is(s)
  <2>1. s = CHOOSE z : Is(z)
    BY DEF FirstSamples
  <2>. HIDE DEF Is, s
  <2>. QED BY <1>3, <2>1
<1>. HIDE DEF s
<1>5. \A i \in 1..R : s[i] = IF i = 1 THEN 1
                             ELSE s[i - 1] + (t.stsc[i].first - t.stsc[i - 1].first) * t.stsc[i - 1].samples
  BY <1>4
<1>6. \A i \in 1..R : u[i] = IF i = 1 THEN 1
                             ELSE u[i - 1] + (t.stsc[i].first - t.stsc[i - 1].first) * t.stsc[i - 1].samples
  BY <1>3
<1>. DEFINE S == {i \in 1..R : s[i] = u[i]}
<1>7. ASSUME NEW i \in 1..R PROVE i \in S
  <2>. HIDE DEF R, u
  <2>1. 1 \in 1..R
    BY <1>1
  <2>2. 1 \in S
    <3>1. s[1] = 1 /\ u[1] = 1
      BY <1>5, <1>6, <2>1
    <3>. QED BY <2>1, <3>1
  <2>3. ASSUME NEW k \in 1 + 1..R, k - 1 \in S PROVE k \in S
    <3>1. k \in 1..R /\ k # 1
      BY <1>1
    <3>2. s[k - 1] = u[k - 1]
      BY <2>3
    <3>3. s[k] = s[k - 1] + (t.stsc[k].first - t.stsc[k - 1].first) * t.stsc[k - 1].samples
      BY <1>5, <3>1
    <3>4. u[k] = u[k - 1] + (t.stsc[k].first - t.stsc[k - 1].first) * t.stsc[k - 1].samples
      BY <1>6, <3>1
    <3>. QED BY <3>1, <3>2, <3>3, <3>4
  <2>4. \A k \in 1 + 1..R : k - 1 \in S => k \in S
    BY <2>3
  <2>. HIDE DEF S
  <2>5. 1 \in Int /\ R \in Int
    BY <1>1
  <2>. QED BY <2>2, <2>4, <2>5, Upwards
<1>8. DOMAIN t.stsc = 1..R
  BY StartsAre
<1>. QED BY <1>7, <1>8 DEF s, A, FirstsSaid

(* Quotients.                                                                 *)
LEMMA Quotient ==
    ASSUME NEW d \in Nat, NEW m \in Nat, m >= 1
    PROVE  d \div m \in Nat /\ d % m \in 0..m - 1 /\ d = (d \div m) * m + (d % m)
<1>1. d \div m \in Nat
  OBVIOUS
<1>2. d % m \in 0..m - 1
  OBVIOUS
<1>3. d = m * (d \div m) + (d % m)
  OBVIOUS
<1>4. m * (d \div m) = (d \div m) * m
  BY <1>1
<1>. QED BY <1>1, <1>2, <1>3, <1>4

LEMMA DivMod ==
    ASSUME NEW d \in Nat, NEW m \in Nat, m >= 1, NEW e \in Nat, d < e * m
    PROVE  /\ d \div m \in Nat /\ d % m \in Nat /\ d % m < m
           /\ d = (d \div m) * m + (d % m) /\ d \div m < e
<1>. DEFINE q == d \div m
            r == d % m
<1>2. q \in Nat /\ r \in 0..m - 1 /\ d = q * m + r
  BY Quotient
<1>. HIDE DEF q, r
<1>3. q < e
  <2>1. SUFFICES ASSUME ~ (q < e) PROVE FALSE
    OBVIOUS
  <2>2. PICK x \in Nat : q = e + x
    <3>1. q - e \in Nat /\ q = e + (q - e)
      BY <1>2, <2>1
    <3>. QED BY <3>1
  <2>3. (e + x) * m = e * m + x * m /\ x * m \in Nat /\ e * m \in Nat
    OBVIOUS
  <2>4. d = e * m + x * m + r
    BY <1>2, <2>2, <2>3
  <2>. QED BY <1>2, <2>3, <2>4
<1>4. q \in Nat /\ r \in Nat /\ r < m /\ d = q * m + r /\ q < e
  BY <1>2, <1>3
<1>. QED BY <1>4 DEF q, r

(* The chunk of a sample, and the sample at its head, are found.              *)
ChunkThere(t, C, F, id) ==
    \E k \in 1..C :
        /\ F[k] <= id /\ id < F[k + 1] /\ F[k] \in Nat \ {0}
        /\ SampleOffset(t, id) =
             {t.chunks[k] + Sum([j \in 1..id - F[k] |-> SampleSize(t, F[k] + j - 1)], id - F[k])}

LEMMA ChunkFound ==
    ASSUME NEW t, NEW C, NEW F, ChunkRuns(t.stsc, C, F), Len(t.chunks) = C,
           NEW id \in Nat, 1 <= id, id < F[C + 1]
    PROVE  ChunkThere(t, C, F, id)
<1>0. FirstsSaid(t, C, F)
  BY FirstsAre
<1>. DEFINE R == Len(t.stsc)
            A == Starts(t.stsc, C)
            first == FirstSamples(t)
            J == {j \in 1..R : first[j] <= id}
            i == Highest(J)
<1>1. /\ R \in Nat /\ DOMAIN t.stsc = 1..R /\ A \in [1..R + 1 -> 1..C + 1] /\ A[R + 1] = C + 1
      /\ \A j \in 1..R : t.stsc[j].first = A[j] /\ t.stsc[j].samples \in Nat
  BY StartsAre
<1>2. /\ C \in Nat /\ F \in [1..C + 1 -> Nat] /\ F[1] = 1 /\ A[1] = 1
      /\ \A j \in 1..R : /\ A[j] < A[j + 1] /\ t.stsc[j].samples >= 1
                         /\ \A k \in A[j]..A[j + 1] - 1 : F[k + 1] = F[k] + t.stsc[j].samples
  BY DEF ChunkRuns
<1>3. \A j \in 1..R : first[j] = F[A[j]]
  BY <1>0, <1>1 DEF FirstsSaid
<1>4. SampleOffset(t, id) =
        LET chunk == ((id - first[i]) \div t.stsc[i].samples) + t.stsc[i].first
            head == id - ((id - first[i]) % t.stsc[i].samples)
        IN  IF chunk > Len(t.chunks) THEN {}
            ELSE {t.chunks[chunk] + Sum([j \in 1..id - head |-> SampleSize(t, head + j - 1)], id - head)}
  BY DEF SampleOffset
<1>. HIDE DEF A, first, R
<1>5. 1 \in J
  <2>1. R # 0
    <3>1. ASSUME R = 0 PROVE FALSE
      <4>1. A[1] = C + 1
        BY <1>1, <3>1
      <4>2. C = 0
        BY <1>2, <4>1
      <4>3. F[C + 1] = 1
        BY <1>2, <4>2
      <4>. QED BY <4>3
    <3>. QED BY <3>1
  <2>2. 1 \in 1..R
    BY <1>1, <2>1
  <2>. QED BY <1>2, <1>3, <2>2
<1>6. i \in J /\ \A j \in J : j <= i
  <2>. HIDE DEF i
  <2>1. J \in SUBSET (0..R) /\ J # {}
    BY <1>1, <1>5
  <2>. HIDE DEF J
  <2>. QED BY <1>1, <2>1, HighestIs DEF i
<1>. HIDE DEF i
<1>. DEFINE a == A[i]
            b == A[i + 1]
            m == t.stsc[i].samples
<1>7. /\ i \in 1..R /\ i \in 1..R + 1 /\ i + 1 \in 1..R + 1
      /\ first[i] = F[a] /\ t.stsc[i].first = a /\ F[a] <= id
  <2>1. i \in 1..R /\ first[i] <= id
    BY <1>6
  <2>2. i \in 1..R + 1 /\ i + 1 \in 1..R + 1
    BY <1>1, <2>1
  <2>. QED BY <1>1, <1>3, <2>1, <2>2
<1>8. a \in 1..C + 1 /\ b \in 1..C + 1 /\ a < b /\ m \in Nat /\ m >= 1
      /\ \A k \in a..b - 1 : F[k + 1] = F[k] + m
  BY <1>1, <1>2, <1>7
<1>9. id < F[b]
  <2>1. CASE i = R
    BY <1>1, <1>2, <2>1
  <2>2. CASE i # R
    <3>1. i + 1 \in 1..R /\ ~ (i + 1 <= i)
      BY <1>1, <1>7, <2>2
    <3>2. ~ (first[i + 1] <= id) /\ first[i + 1] = F[b]
      BY <1>3, <1>6, <3>1
    <3>3. F[b] \in Nat
      BY <1>2, <1>8
    <3>. QED BY <3>2, <3>3
  <2>. QED BY <2>1, <2>2
<1>. HIDE DEF J, a, b, m
<1>10. ASSUME NEW x \in a..b PROVE F[x] = F[a] + (x - a) * m
  <2>. DEFINE S == {y \in a..b : F[y] = F[a] + (y - a) * m}
  <2>1. \A y \in a..b : F[y] \in Nat
    BY <1>2, <1>8
  <2>2. a \in S
    <3>1. a \in a..b /\ F[a] \in Nat /\ a - a = 0 /\ 0 * m = 0
      BY <1>8, <2>1
    <3>. QED BY <3>1
  <2>3. ASSUME NEW k \in a + 1..b, k - 1 \in S PROVE k \in S
    <3>1. k - 1 \in a..b - 1 /\ (k - 1) + 1 = k /\ k \in a..b /\ a \in a..b
      BY <1>8
    <3>2. F[k] = F[k - 1] + m /\ F[k - 1] = F[a] + ((k - 1) - a) * m
      BY <1>8, <2>3, <3>1
    <3>3. ((k - 1) - a) * m + m = (k - a) * m /\ ((k - 1) - a) * m \in Int /\ (k - a) * m \in Int
      BY <1>8
    <3>4. F[k] = F[a] + (k - a) * m
      BY <1>8, <2>1, <3>1, <3>2, <3>3
    <3>. QED BY <3>1, <3>4
  <2>4. x \in S
    <3>. HIDE DEF S
    <3>1. \A k \in a + 1..b : k - 1 \in S => k \in S
      BY <2>3
    <3>2. a \in Int /\ b \in Int
      BY <1>8
    <3>. QED BY <2>2, <3>1, <3>2, Upwards
  <2>. QED BY <2>4
<1>11. F[a] \in Nat /\ F[b] = F[a] + (b - a) * m
  <2>1. b \in a..b /\ a \in 1..C + 1
    BY <1>8
  <2>. QED BY <1>2, <1>10, <2>1
<1>. DEFINE d == id - F[a]
            q == d \div m
            r == d % m
            k == q + a
<1>12. d \in Nat /\ b - a \in Nat /\ d < (b - a) * m
  <2>1. (b - a) * m \in Int /\ b - a \in Nat
    BY <1>8
  <2>. QED BY <1>7, <1>9, <1>11, <2>1
<1>13. q \in Nat /\ r \in Nat /\ r < m /\ d = q * m + r /\ q < b - a
  <2>. HIDE DEF d
  <2>. QED BY <1>8, <1>12, DivMod
<1>14. k \in a..b - 1 /\ k \in a..b /\ k \in 1..C /\ k - a = q /\ ~ (k > C)
  <2>1. C \in Nat /\ a \in 1..C + 1 /\ b \in 1..C + 1 /\ q \in Nat /\ q < b - a
    BY <1>2, <1>8, <1>13
  <2>. HIDE DEF q
  <2>. QED BY <2>1
<1>15. F[k] = F[a] + q * m /\ F[k + 1] = F[k] + m
  <2>. HIDE DEF k
  <2>. QED BY <1>8, <1>10, <1>14
<1>16. F[k] = id - r
  <2>1. q * m \in Nat
    <3>. HIDE DEF q
    <3>. QED BY <1>8, <1>13
  <2>2. d = id - F[a] /\ id \in Int
    OBVIOUS
  <2>. DEFINE p == q * m
  <2>3. p \in Nat /\ d = p + r /\ F[k] = F[a] + p /\ r \in Nat /\ F[a] \in Nat
    BY <1>11, <1>13, <1>15, <2>1
  <2>. HIDE DEF d, q, r, k, p
  <2>. QED BY <2>2, <2>3
<1>17. F[k] <= id /\ id < F[k + 1]
  <2>. HIDE DEF d, q, r, k
  <2>. QED BY <1>8, <1>13, <1>15, <1>16
<1>18. F[k] \in Nat \ {0}
  <2>. HIDE DEF k
  <2>1. k \in 1..C + 1
    BY <1>2, <1>14, SMTT(30)
  <2>. QED BY <2>1 DEF ChunkRuns
<1>19. SampleOffset(t, id) =
         {t.chunks[k] + Sum([j \in 1..id - F[k] |-> SampleSize(t, F[k] + j - 1)], id - F[k])}
  <2>1. ((id - first[i]) \div t.stsc[i].samples) + t.stsc[i].first = k
    BY <1>7 DEF m
  <2>2. id - ((id - first[i]) % t.stsc[i].samples) = F[k]
    BY <1>7, <1>16 DEF m
  <2>. HIDE DEF k
  <2>. QED BY <1>4, <1>14, <2>1, <2>2
<1>. HIDE DEF k
<1>. QED BY <1>14, <1>17, <1>18, <1>19 DEF ChunkThere

--------------------------------------------------------------------------------
(* Bytes.                                                                     *)

(* The samples a + 1..b lie one after the other in m, from place o on.        *)
Lies(m, o, S, a, b) ==
    \A id \in a + 1..b :
        /\ o + (EndBytes(S)[id - 1] - EndBytes(S)[a]) + Len(S[id].bytes) <= Len(m)
        /\ \A i \in 1..Len(S[id].bytes) : m[o + (EndBytes(S)[id - 1] - EndBytes(S)[a]) + i] = S[id].bytes[i]

LEMMA EndsAre ==
    ASSUME NEW S \in Seq(Sample)
    PROVE  /\ EndBytes(S) \in [0..Len(S) -> Nat] /\ EndBytes(S)[0] = 0
           /\ \A k \in 1..Len(S) : EndBytes(S)[k] = EndBytes(S)[k - 1] + Len(S[k].bytes)
           /\ \A a \in 0..Len(S) : \A b \in a..Len(S) : EndBytes(S)[a] <= EndBytes(S)[b]
<1>. DEFINE N == Len(S)
            f == ByteCounts(S)
            B == EndBytes(S)
<1>1. N \in Nat /\ f \in [1..N -> Nat]
  BY SamplesAre
<1>2. \A k \in 1..N : f[k] = Len(S[k].bytes)
  BY DEF ByteCounts
<1>3. B = UpTo(f, N)
  BY DEF EndBytes
<1>. HIDE DEF N, f, B
<1>4. AddsUp(B, f, N)
  BY <1>1, <1>3, UpToIs
<1>5. B \in [0..N -> Nat] /\ B[0] = 0 /\ \A k \in 1..N : B[k] = B[k - 1] + Len(S[k].bytes)
  BY <1>2, <1>4 DEF AddsUp
<1>6. ASSUME NEW a \in 0..N, NEW b \in a..N PROVE B[a] <= B[b]
  BY <1>1, <1>4, SumGrows
<1>. QED BY <1>5, <1>6 DEF N, B

LEMMA LiesLonger ==
    ASSUME NEW S \in Seq(Sample), NEW m \in Seq(Byte), NEW x \in Seq(Byte), NEW o \in Nat,
           NEW a \in 0..Len(S), NEW b \in a..Len(S), Lies(m, o, S, a, b)
    PROVE  Lies(m \o x, o, S, a, b)
<1>. DEFINE B == EndBytes(S)
            more == m \o x
<1>1. Len(m) \in Nat /\ Len(x) \in Nat /\ Len(more) = Len(m) + Len(x)
      /\ \A i \in 1..Len(m) + Len(x) : more[i] = IF i <= Len(m) THEN m[i] ELSE x[i - Len(m)]
  BY LenProperties, ConcatProperties
<1>2. Len(S) \in Nat /\ \A id \in 1..Len(S) : Len(S[id].bytes) \in Nat \ {0}
  BY SamplesAre
<1>3. B \in [0..Len(S) -> Nat] /\ \A k \in a..Len(S) : B[a] <= B[k]
  BY EndsAre
<1>. DEFINE N == Len(S)
<1>. HIDE DEF B, more, N
<1>4. ASSUME NEW id \in a + 1..b
      PROVE  /\ o + (B[id - 1] - B[a]) + Len(S[id].bytes) <= Len(more)
             /\ \A i \in 1..Len(S[id].bytes) : more[o + (B[id - 1] - B[a]) + i] = S[id].bytes[i]
  <2>. DEFINE p == o + (B[id - 1] - B[a])
              l == Len(S[id].bytes)
  <2>1. id \in 1..N /\ id - 1 \in 0..N /\ id - 1 \in a..N /\ a \in 0..N
    BY <1>2 DEF N
  <2>2. l \in Nat /\ p \in Nat
    <3>1. B[id - 1] \in Nat /\ B[a] \in Nat /\ B[a] <= B[id - 1] /\ l \in Nat
      BY <1>2, <1>3, <2>1 DEF N
    <3>. QED BY <3>1
  <2>3. p + l <= Len(m) /\ \A i \in 1..l : m[p + i] = S[id].bytes[i]
    BY DEF Lies, B
  <2>. HIDE DEF p, l
  <2>. DEFINE k == Len(m)
              j == Len(x)
  <2>4. k \in Nat /\ j \in Nat /\ p + l <= k /\ Len(more) = k + j
        /\ \A i \in 1..k + j : more[i] = IF i <= k THEN m[i] ELSE x[i - k]
    BY <1>1, <2>3
  <2>. HIDE DEF k, j
  <2>5. \A i \in 1..l : p + i \in 1..k + j /\ p + i <= k
    BY <2>2, <2>4
  <2>6. \A i \in 1..l : more[p + i] = S[id].bytes[i]
    BY <2>3, <2>4, <2>5
  <2>7. p + l <= Len(more)
    BY <2>2, <2>4
  <2>. QED BY <2>6, <2>7 DEF p, l
<1>. QED BY <1>4 DEF Lies, B, more

LEMMA LiesMoved ==
    ASSUME NEW S \in Seq(Sample), NEW m \in Seq(Byte), NEW x \in Seq(Byte),
           NEW a \in 0..Len(S), NEW b \in a..Len(S), Lies(x, 0, S, a, b)
    PROVE  Lies(m \o x, Len(m), S, a, b)
<1>. DEFINE B == EndBytes(S)
            more == m \o x
<1>1. Len(m) \in Nat /\ Len(x) \in Nat /\ Len(more) = Len(m) + Len(x)
      /\ \A i \in 1..Len(m) + Len(x) : more[i] = IF i <= Len(m) THEN m[i] ELSE x[i - Len(m)]
  BY LenProperties, ConcatProperties
<1>2. Len(S) \in Nat /\ \A id \in 1..Len(S) : Len(S[id].bytes) \in Nat \ {0}
  BY SamplesAre
<1>3. B \in [0..Len(S) -> Nat] /\ \A k \in a..Len(S) : B[a] <= B[k]
  BY EndsAre
<1>. DEFINE N == Len(S)
<1>. HIDE DEF B, more, N
<1>4. ASSUME NEW id \in a + 1..b
      PROVE  /\ Len(m) + (B[id - 1] - B[a]) + Len(S[id].bytes) <= Len(more)
             /\ \A i \in 1..Len(S[id].bytes) : more[Len(m) + (B[id - 1] - B[a]) + i] = S[id].bytes[i]
  <2>. DEFINE p == B[id - 1] - B[a]
              l == Len(S[id].bytes)
  <2>1. id \in 1..N /\ id - 1 \in 0..N /\ id - 1 \in a..N /\ a \in 0..N
    BY <1>2 DEF N
  <2>2. l \in Nat /\ p \in Nat
    <3>1. B[id - 1] \in Nat /\ B[a] \in Nat /\ B[a] <= B[id - 1] /\ l \in Nat
      BY <1>2, <1>3, <2>1 DEF N
    <3>. QED BY <3>1
  <2>3. 0 + p + l <= Len(x) /\ \A i \in 1..l : x[0 + p + i] = S[id].bytes[i]
    BY DEF Lies, B
  <2>. HIDE DEF p, l
  <2>. DEFINE k == Len(m)
              j == Len(x)
  <2>4. k \in Nat /\ j \in Nat /\ 0 + p + l <= j /\ Len(more) = k + j
        /\ \A i \in 1..k + j : more[i] = IF i <= k THEN m[i] ELSE x[i - k]
    BY <1>1, <2>3
  <2>. HIDE DEF k, j
  <2>5. \A i \in 1..l : k + p + i \in 1..k + j /\ ~ (k + p + i <= k) /\ (k + p + i) - k = 0 + p + i
    BY <2>2, <2>4
  <2>6. ASSUME NEW i \in 1..l PROVE more[k + p + i] = S[id].bytes[i]
    <3>. DEFINE e == k + p + i
    <3>2. e \in 1..k + j /\ ~ (e <= k) /\ e - k = 0 + p + i
      BY <2>5
    <3>. HIDE DEF e
    <3>3. more[e] = x[e - k]
      BY <2>4, <3>2
    <3>4. more[e] = x[0 + p + i]
      BY <3>2, <3>3
    <3>. QED BY <2>3, <3>4 DEF e
  <2>7. k + p + l <= Len(more)
    BY <2>2, <2>4
  <2>. QED BY <2>6, <2>7 DEF p, l, k
<1>. QED BY <1>4 DEF Lies, B, more

(* The samples a + 1..n, and nothing else, are pending.                       *)
PendingHolds(x, S, a, n) ==
    x \in Seq(Byte) /\ Len(x) = EndBytes(S)[n] - EndBytes(S)[a] /\ Lies(x, 0, S, a, n)

LEMMA PendingKept ==
    ASSUME NEW S \in Seq(Sample), NEW n \in Nat, n + 1 \in 1..Len(S), NEW a \in 0..n, NEW x,
           PendingHolds(x, S, a, n)
    PROVE  PendingHolds(x \o S[n + 1].bytes, S, a, n + 1)
<1>. DEFINE N == Len(S)
            B == EndBytes(S)
            y == S[n + 1].bytes
            more == x \o y
<1>1. N \in Nat /\ y \in Seq(Byte) /\ Len(y) \in Nat
  BY SamplesAre
<1>2. B \in [0..N -> Nat] /\ B[n + 1] = B[n] + Len(y) /\ B[a] <= B[n]
  <2>1. n + 1 \in 1..Len(S) /\ (n + 1) - 1 = n /\ a \in 0..Len(S) /\ n \in a..Len(S)
    BY <1>1
  <2>. QED BY <2>1, EndsAre
<1>3. x \in Seq(Byte) /\ Len(x) \in Nat /\ Len(x) = B[n] - B[a] /\ Lies(x, 0, S, a, n)
  BY LenProperties DEF PendingHolds
<1>4. /\ more \in Seq(Byte) /\ Len(more) = Len(x) + Len(y)
      /\ \A i \in 1..Len(x) + Len(y) : more[i] = IF i <= Len(x) THEN x[i] ELSE y[i - Len(x)]
  BY <1>1, <1>3, ConcatProperties
<1>. DEFINE k == Len(x)
            j == Len(y)
<1>5. k \in Nat /\ j \in Nat /\ k = B[n] - B[a] /\ Len(more) = k + j /\ B[n + 1] = B[n] + j
      /\ \A i \in 1..k + j : more[i] = IF i <= k THEN x[i] ELSE y[i - k]
  BY <1>1, <1>2, <1>3, <1>4
<1>6. B[n] \in Nat /\ B[a] \in Nat /\ n \in Nat /\ a \in 0..N /\ n \in a..N
  <2>1. n \in 0..N /\ a \in 0..N /\ n \in a..N
    BY <1>1
  <2>. QED BY <1>2, <2>1
<1>7. Lies(more, 0, S, a, n)
  <2>. HIDE DEF y
  <2>. QED BY <1>1, <1>3, <1>6, LiesLonger DEF N
<1>. HIDE DEF B, k, j, more, N
<1>8. Len(more) = B[n + 1] - B[a]
  BY <1>5, <1>6
<1>9. ASSUME NEW id \in a + 1..n + 1
      PROVE  /\ 0 + (B[id - 1] - B[a]) + Len(S[id].bytes) <= Len(more)
             /\ \A i \in 1..Len(S[id].bytes) : more[0 + (B[id - 1] - B[a]) + i] = S[id].bytes[i]
  <2>1. CASE id = n + 1
    <3>1. id - 1 = n /\ S[id].bytes = y /\ Len(S[id].bytes) = j
      BY <2>1 DEF j
    <3>2. 0 + (B[id - 1] - B[a]) = k
      BY <1>5, <1>6, <3>1
    <3>. HIDE DEF y
    <3>3. k + j <= Len(more) /\ \A i \in 1..j : k + i \in 1..k + j /\ ~ (k + i <= k) /\ (k + i) - k = i
      BY <1>5
    <3>4. \A i \in 1..j : more[k + i] = y[i]
      BY <1>5, <3>3
    <3>. QED BY <3>1, <3>2, <3>3, <3>4
  <2>2. CASE id # n + 1
    <3>1. id \in a + 1..n
      BY <1>6, <2>2
    <3>. QED BY <1>7, <3>1 DEF Lies, B
  <2>. QED BY <2>1, <2>2
<1>. QED BY <1>4, <1>8, <1>9 DEF PendingHolds, Lies, B, more

(* Nothing is pending only when no sample is.                                 *)
LEMMA PendingNone ==
    ASSUME NEW S \in Seq(Sample), NEW n \in 0..Len(S), NEW a \in 0..n, NEW x, PendingHolds(x, S, a, n)
    PROVE  x = <<>> <=> a = n
<1>. DEFINE B == EndBytes(S)
<1>1. x \in Seq(Byte) /\ Len(x) = B[n] - B[a] /\ Len(x) \in Nat
  BY LenProperties DEF PendingHolds
<1>2. /\ Len(S) \in Nat /\ B \in [0..Len(S) -> Nat]
      /\ \A k \in 1..Len(S) : B[k] = B[k - 1] + Len(S[k].bytes)
      /\ \A k \in 1..Len(S) : Len(S[k].bytes) \in Nat \ {0}
      /\ \A c \in 0..Len(S) : \A b \in c..Len(S) : B[c] <= B[b]
  BY EndsAre, SamplesAre
<1>. DEFINE N == Len(S)
<1>. HIDE DEF B, N
<1>3. CASE a = n
  <2>1. n \in 0..N
    BY DEF N
  <2>2. B[n] \in Nat
    BY <1>2, <2>1 DEF N
  <2>3. Len(x) = 0
    BY <1>1, <1>3, <2>2
  <2>. QED BY <1>1, <1>3, <2>3, EmptySeq
<1>4. CASE a # n
  <2>1. n \in 1..N /\ n - 1 \in 0..N /\ n - 1 \in a..N /\ a \in 0..N
    BY <1>2, <1>4 DEF N
  <2>2. B[n] = B[n - 1] + Len(S[n].bytes) /\ Len(S[n].bytes) \in Nat \ {0} /\ B[a] <= B[n - 1]
    BY <1>2, <2>1 DEF N
  <2>3. B[n - 1] \in Nat /\ B[a] \in Nat
    BY <1>2, <2>1 DEF N
  <2>. DEFINE u == B[n]
              v == B[n - 1]
              w == B[a]
              l == Len(S[n].bytes)
  <2>4. u = v + l /\ l \in Nat \ {0} /\ w <= v /\ v \in Nat /\ w \in Nat
    BY <2>2, <2>3
  <2>5. Len(x) = u - w
    BY <1>1
  <2>. HIDE DEF u, v, w, l
  <2>6. u - w # 0
    BY <2>4
  <2>7. Len(x) # 0
    BY <2>5, <2>6
  <2>. QED BY <1>1, <1>4, <2>7, EmptySeq
<1>. QED BY <1>3, <1>4

(* The first samples up to done lie in the chunks.                            *)
ChunksHold(m, stsc, chunks, S, done) ==
    /\ chunks \in Seq(Nat)
    /\ \E F : /\ ChunkRuns(stsc, Len(chunks), F) /\ F[Len(chunks) + 1] = done + 1
              /\ \A k \in 1..Len(chunks) : F[k + 1] - 1 \in F[k] - 1..done /\ F[k] - 1 \in 0..done
                                           /\ Lies(m, chunks[k], S, F[k] - 1, F[k + 1] - 1)

LEMMA ChunksLonger ==
    ASSUME NEW S \in Seq(Sample), NEW m \in Seq(Byte), NEW x \in Seq(Byte), NEW stsc, NEW chunks,
           NEW done \in 0..Len(S), ChunksHold(m, stsc, chunks, S, done)
    PROVE  ChunksHold(m \o x, stsc, chunks, S, done)
<1>. DEFINE C == Len(chunks)
<1>1. PICK F : /\ ChunkRuns(stsc, C, F) /\ F[C + 1] = done + 1
               /\ \A k \in 1..C : F[k + 1] - 1 \in F[k] - 1..done /\ F[k] - 1 \in 0..done
                                  /\ Lies(m, chunks[k], S, F[k] - 1, F[k + 1] - 1)
  BY DEF ChunksHold
<1>2. chunks \in Seq(Nat) /\ \A k \in 1..C : chunks[k] \in Nat
  BY ElementOfSeq DEF ChunksHold
<1>3. ASSUME NEW k \in 1..C PROVE Lies(m \o x, chunks[k], S, F[k] - 1, F[k + 1] - 1)
  <2>. DEFINE a == F[k] - 1
              b == F[k + 1] - 1
              o == chunks[k]
  <2>1. b \in a..done /\ a \in 0..done /\ Lies(m, o, S, a, b) /\ o \in Nat
    BY <1>1, <1>2
  <2>2. Len(S) \in Nat
    BY SamplesAre
  <2>. HIDE DEF a, b, o
  <2>3. a \in 0..Len(S) /\ b \in a..Len(S)
    BY <2>1, <2>2
  <2>4. Lies(m \o x, o, S, a, b)
    BY <2>1, <2>3, LiesLonger
  <2>. QED BY <2>4 DEF a, b, o
<1>. QED BY <1>1, <1>2, <1>3 DEF ChunksHold

(* What was pending is the next chunk.                                        *)
LEMMA ChunkWritten ==
    ASSUME NEW S \in Seq(Sample), NEW m \in Seq(Byte), NEW x, NEW stsc, NEW chunks,
           NEW n \in 0..Len(S), NEW done \in 0..n, done # n,
           ChunksHold(m, stsc, chunks, S, done), PendingHolds(x, S, done, n)
    PROVE  ChunksHold(m \o x, RunsWith(stsc, Len(chunks), n - done), Append(chunks, Len(m)), S, n)
<1>. DEFINE C == Len(chunks)
            s == n - done
            more == RunsWith(stsc, C, s)
            all == Append(chunks, Len(m))
<1>0. x \in Seq(Byte) /\ Lies(x, 0, S, done, n) /\ Len(S) \in Nat /\ n \in Nat /\ done \in Nat
  BY SamplesAre DEF PendingHolds
<1>1. ChunksHold(m \o x, stsc, chunks, S, done)
  <2>1. done \in 0..Len(S)
    BY <1>0
  <2>. QED BY <1>0, <2>1, ChunksLonger
<1>2. PICK F : /\ ChunkRuns(stsc, C, F) /\ F[C + 1] = done + 1
               /\ \A k \in 1..C : F[k + 1] - 1 \in F[k] - 1..done /\ F[k] - 1 \in 0..done
                                  /\ Lies(m \o x, chunks[k], S, F[k] - 1, F[k + 1] - 1)
  BY <1>1 DEF ChunksHold
<1>3. chunks \in Seq(Nat) /\ C \in Nat /\ Len(m) \in Nat
  BY LenProperties DEF ChunksHold
<1>4. all \in Seq(Nat) /\ Len(all) = C + 1 /\ all[C + 1] = Len(m) /\ \A i \in 1..C : all[i] = chunks[i]
  BY <1>3, AppendProperties
<1>. DEFINE G == HeadsWith(F, C, s)
<1>5. ChunkRuns(more, C + 1, G)
  <2>1. s \in Nat \ {0}
    BY <1>0
  <2>. HIDE DEF s
  <2>. QED BY <1>2, <2>1, ChunkAdded
<1>6. \A k \in 1..C + 1 : G[k] = F[k]
  <2>1. \A k \in 1..C + 1 : k \in 1..C + 2 /\ k # C + 2
    BY <1>3
  <2>. QED BY <2>1 DEF HeadsWith
<1>7. G[(C + 1) + 1] = n + 1
  <2>1. (C + 1) + 1 = C + 2 /\ C + 2 \in 1..C + 2
    BY <1>3
  <2>2. F[C + 1] + s = n + 1
    BY <1>0, <1>2
  <2>. QED BY <2>1, <2>2 DEF HeadsWith
<1>. HIDE DEF G, more, all, s, C
<1>8. ASSUME NEW k \in 1..C + 1
      PROVE  /\ G[k + 1] - 1 \in G[k] - 1..n /\ G[k] - 1 \in 0..n
             /\ Lies(m \o x, all[k], S, G[k] - 1, G[k + 1] - 1)
  <2>1. CASE k = C + 1
    <3>0. k \in 1..C + 1 /\ G[k] = done + 1 /\ G[k + 1] = n + 1 /\ all[k] = Len(m)
      BY <1>2, <1>4, <1>6, <1>7, <2>1
    <3>1. G[k] - 1 = done /\ G[k + 1] - 1 = n /\ all[k] = Len(m)
      BY <1>0, <3>0
    <3>2. done \in 0..Len(S) /\ n \in done..Len(S) /\ n \in done..n /\ done \in 0..n
      BY <1>0
    <3>3. Lies(m \o x, Len(m), S, done, n)
      BY <1>0, <3>2, LiesMoved
    <3>. QED BY <3>1, <3>2, <3>3
  <2>2. CASE k # C + 1
    <3>1. k \in 1..C /\ k \in 1..C + 1 /\ k + 1 \in 1..C + 1
      BY <1>3, <2>2
    <3>2. G[k] = F[k] /\ G[k + 1] = F[k + 1] /\ all[k] = chunks[k]
      BY <1>4, <1>6, <3>1
    <3>3. F[k + 1] - 1 \in F[k] - 1..done /\ F[k] - 1 \in 0..done
          /\ Lies(m \o x, chunks[k], S, F[k] - 1, F[k + 1] - 1)
      BY <1>2, <3>1
    <3>. DEFINE a == F[k] - 1
                b == F[k + 1] - 1
    <3>4. a \in 0..n /\ b \in a..n
      <4>1. b \in a..done /\ a \in 0..done
        BY <3>3
      <4>. HIDE DEF a, b
      <4>. QED BY <1>0, <4>1
    <3>. QED BY <3>2, <3>3, <3>4
  <2>. QED BY <2>1, <2>2
<1>9. ChunksHold(m \o x, more, all, S, n)
  BY <1>4, <1>5, <1>7, <1>8 DEF ChunksHold
<1>. QED BY <1>9 DEF more, all, s, C

(* A file without samples.                                                    *)
LEMMA NoChunks ==
    ASSUME NEW m, NEW S \in Seq(Sample)
    PROVE  ChunksHold(m, <<>>, <<>>, S, 0) /\ PendingHolds(<<>>, S, 0, 0)
<1>. DEFINE F == [k \in 1..0 + 1 |-> 1]
<1>0. <<>> \in Seq(Nat) /\ <<>> \in Seq(Byte) /\ Len(<<>>) = 0 /\ <<>> \in Seq([first : Nat, samples : Nat])
  OBVIOUS
<1>1. F \in [1..0 + 1 -> Nat \ {0}] /\ F[1] = 1 /\ 1 \in 1..0 + 1 /\ ~ (1 <= 0)
  OBVIOUS
<1>. HIDE DEF F
<1>2. Starts(<<>>, 0)[1] = 1
  BY <1>0, <1>1 DEF Starts
<1>3. \A i \in 1..0 : FALSE
  OBVIOUS
<1>4. ChunkRuns(<<>>, 0, F)
  BY <1>0, <1>1, <1>2, <1>3 DEF ChunkRuns
<1>5. F[0 + 1] = 0 + 1
  BY <1>1
<1>6. ChunksHold(m, <<>>, <<>>, S, 0)
  BY <1>0, <1>3, <1>4, <1>5 DEF ChunksHold
<1>7. EndBytes(S)[0] - EndBytes(S)[0] = 0
  BY EndsAre
<1>. QED BY <1>0, <1>6, <1>7 DEF PendingHolds, Lies

(* A sample in a chunk is found, and its bytes are there.                     *)
SampleThere(m, t, S, id) ==
    \E o \in Nat : /\ SampleOffset(t, id) = {o} /\ o + Len(S[id].bytes) <= Len(m)
                   /\ \A i \in 1..Len(S[id].bytes) : m[o + i] = S[id].bytes[i]

LEMMA SampleFound ==
    ASSUME NEW S \in Seq(Sample), NEW m, NEW t, NEW n \in 0..Len(S), SizesHold(t.stsz, ByteCounts(S), n),
           NEW done \in 0..n, ChunksHold(m, t.stsc, t.chunks, S, done), NEW id \in 1..done
    PROVE  SampleThere(m, t, S, id)
<1>. DEFINE C == Len(t.chunks)
            B == EndBytes(S)
            N == Len(S)
<1>1. PICK F : /\ ChunkRuns(t.stsc, C, F) /\ F[C + 1] = done + 1
               /\ \A k \in 1..C : F[k + 1] - 1 \in F[k] - 1..done /\ F[k] - 1 \in 0..done
                                  /\ Lies(m, t.chunks[k], S, F[k] - 1, F[k + 1] - 1)
  BY DEF ChunksHold
<1>2. \A k \in 1..C : t.chunks[k] \in Nat
  BY ElementOfSeq DEF ChunksHold
<1>3. N \in Nat /\ n \in 0..N /\ \A k \in 1..N : Len(S[k].bytes) \in Nat \ {0}
  BY SamplesAre
<1>4. /\ B \in [0..N -> Nat] /\ B[0] = 0 /\ \A k \in 1..N : B[k] = B[k - 1] + Len(S[k].bytes)
      /\ \A a \in 0..N : \A b \in a..N : B[a] <= B[b]
  BY EndsAre
<1>5. \A k \in 1..n : SampleSize(t, k) = Len(S[k].bytes)
  <2>1. ASSUME NEW k \in 1..n PROVE SampleSize(t, k) = Len(S[k].bytes)
    <3>1. SampleSize(t, k) = ByteCounts(S)[k]
      BY SizeReads
    <3>2. k \in 1..N
      BY <1>3
    <3>. QED BY <3>1, <3>2 DEF ByteCounts
  <2>. QED BY <2>1
<1>6. PICK k \in 1..C :
        /\ F[k] <= id /\ id < F[k + 1] /\ F[k] \in Nat \ {0}
        /\ SampleOffset(t, id) =
             {t.chunks[k] + Sum([j \in 1..id - F[k] |-> SampleSize(t, F[k] + j - 1)], id - F[k])}
  <2>1. id \in Nat /\ 1 <= id /\ id < F[C + 1]
    BY <1>1
  <2>2. ChunkThere(t, C, F, id)
    BY <1>1, <2>1, ChunkFound
  <2>. QED BY <2>2 DEF ChunkThere
<1>. DEFINE o == t.chunks[k]
            h == F[k]
            q == id - h
            f == [j \in 1..q |-> SampleSize(t, h + j - 1)]
            P == [j \in 0..q |-> B[(h - 1) + j] - B[h - 1]]
<1>. HIDE DEF B, N, C
<1>7. o \in Nat /\ h \in Nat \ {0} /\ h <= id /\ Lies(m, o, S, h - 1, F[k + 1] - 1) /\ id <= F[k + 1] - 1
      /\ F[k + 1] - 1 \in h - 1..done
  <2>1. F[k + 1] - 1 \in h - 1..done /\ Lies(m, o, S, h - 1, F[k + 1] - 1)
    BY <1>1, <1>6
  <2>2. F[k + 1] - 1 \in Int /\ id < F[k + 1] /\ id \in Int
    BY <1>6, <2>1
  <2>3. F[k + 1] \in Int
    BY <1>1, <1>6 DEF ChunkRuns
  <2>4. id <= F[k + 1] - 1
    BY <2>2, <2>3
  <2>. QED BY <1>2, <1>6, <2>1, <2>4
<1>8. SampleOffset(t, id) = {o + Sum(f, q)}
  BY <1>6
<1>. HIDE DEF o, h
<1>9. q \in Nat /\ h - 1 \in 0..N /\ id \in 1..N /\ id - 1 \in h - 1..N /\ id - 1 \in 0..N
  BY <1>3, <1>7
<1>10. Sum(f, q) = B[id - 1] - B[h - 1]
  <2>1. P[0] = 0 /\ P[q] = B[id - 1] - B[h - 1]
    <3>1. 0 \in 0..q /\ q \in 0..q /\ (h - 1) + 0 = h - 1 /\ (h - 1) + q = id - 1
      BY <1>7, <1>9
    <3>2. B[h - 1] \in Nat
      BY <1>4, <1>9
    <3>. QED BY <3>1, <3>2
  <2>2. ASSUME NEW j \in 1..q PROVE P[j] = P[j - 1] + f[j]
    <3>. DEFINE e == (h - 1) + j
    <3>1. j \in 0..q /\ j - 1 \in 0..q /\ (h - 1) + (j - 1) = e - 1 /\ h + j - 1 = e
          /\ e \in 1..n /\ e \in 1..N /\ e - 1 \in 0..N /\ e \in 0..N
      BY <1>3, <1>7, <1>9
    <3>. HIDE DEF e
    <3>2. P[j] = B[e] - B[h - 1] /\ P[j - 1] = B[e - 1] - B[h - 1] /\ f[j] = SampleSize(t, e)
      BY <3>1 DEF e
    <3>3. B[e] = B[e - 1] + Len(S[e].bytes) /\ SampleSize(t, e) = Len(S[e].bytes)
          /\ Len(S[e].bytes) \in Nat /\ B[e - 1] \in Nat
      BY <1>3, <1>4, <1>5, <3>1
    <3>4. B[h - 1] \in Nat
      BY <1>4, <1>9
    <3>. QED BY <3>2, <3>3, <3>4, SMTT(30)
  <2>. HIDE DEF P, f, q
  <2>. QED BY <1>9, <2>1, <2>2, SumIs
<1>. DEFINE p == o + (B[id - 1] - B[h - 1])
<1>11. p \in Nat /\ SampleOffset(t, id) = {p}
  <2>1. B[h - 1] \in Nat /\ B[id - 1] \in Nat /\ B[h - 1] <= B[id - 1]
    BY <1>4, <1>9
  <2>2. B[id - 1] - B[h - 1] \in Nat
    BY <2>1
  <2>. HIDE DEF f, q
  <2>. QED BY <1>7, <1>8, <1>10, <2>2
<1>12. p + Len(S[id].bytes) <= Len(m) /\ \A i \in 1..Len(S[id].bytes) : m[p + i] = S[id].bytes[i]
  <2>1. id \in (h - 1) + 1..F[k + 1] - 1
    BY <1>7, <1>9
  <2>. QED BY <1>7, <2>1 DEF Lies, B
<1>. QED BY <1>11, <1>12 DEF SampleThere

--------------------------------------------------------------------------------
(* The writer.                                                                *)
TrackTable ==
    [rate : Nat, next : Nat, stts : Seq(Run), ctts : Seq(Run), stss : Seq(Nat),
     stsc : Seq([first : Nat, samples : Nat]), chunks : Seq(Nat), stsz : SizeTable,
     pending : Seq(Byte), samples : Nat, span : Nat]

(* A table, and the file m, hold the first n samples of S.                    *)
TableHolds(m, t, S, n) ==
    /\ t \in TrackTable /\ n \in 0..Len(S) /\ t.next = n + 1 /\ t.samples \in 0..n
    /\ RunsHold(t.stts, Durations(S), n)
    /\ OffsetsHold(t.ctts, Renderings(S), n)
    /\ SyncHolds(t.stss, S, n) /\ \A i \in 1..Len(t.stss) : t.stss[i] \in 1..n
    /\ SizesHold(t.stsz, ByteCounts(S), n)
    /\ ChunksHold(m, t.stsc, t.chunks, S, n - t.samples)
    /\ PendingHolds(t.pending, S, n - t.samples, n)

TableWith(t, sample) ==
    [t EXCEPT !.pending = @ \o sample.bytes, !.samples = @ + 1, !.span = @ + sample.duration,
              !.stsz = SampleSizes(@, Len(sample.bytes)), !.stts = Counted(@, sample.duration),
              !.ctts = Offsets(@, t.next - 1, sample.offset),
              !.stss = IF sample.sync THEN Append(@, t.next) ELSE @, !.next = @ + 1]

TableChunked(t, at) ==
    [t EXCEPT !.stsc = RunsWith(@, Len(t.chunks), t.samples), !.chunks = Append(@, at),
              !.pending = <<>>, !.samples = 0, !.span = 0]

LEMMA EmptyHolds ==
    ASSUME NEW m, NEW S \in Seq(Sample), NEW rate \in Nat
    PROVE  TableHolds(m, EmptyTable(rate), S, 0)
<1>. DEFINE t == EmptyTable(rate)
<1>1. /\ t \in TrackTable /\ t.next = 0 + 1 /\ t.samples = 0 /\ t.stts = <<>> /\ t.ctts = <<>> /\ t.stss = <<>>
      /\ t.stsc = <<>> /\ t.chunks = <<>> /\ t.pending = <<>>
      /\ t.stsz \in SizeTable /\ t.stsz.count = 0
  BY DEF EmptyTable, TrackTable, SizeTable
<1>. HIDE DEF t
<1>2. Len(S) \in Nat
  BY SamplesAre
<1>3. 0 \in 0..Len(S) /\ t.samples \in 0..0 /\ 0 - t.samples = 0
  BY <1>1, <1>2
<1>4. RunsHold(t.stts, Durations(S), 0)
  BY <1>1, NoRuns
<1>5. OffsetsHold(t.ctts, Renderings(S), 0)
  BY <1>1 DEF OffsetsHold
<1>6. SyncHolds(t.stss, S, 0) /\ \A i \in 1..Len(t.stss) : t.stss[i] \in 1..0
  BY <1>1 DEF SyncHolds
<1>7. SizesHold(t.stsz, ByteCounts(S), 0)
  BY <1>1 DEF SizesHold
<1>8. ChunksHold(m, t.stsc, t.chunks, S, 0) /\ PendingHolds(t.pending, S, 0, 0)
  BY <1>1, NoChunks
<1>. QED BY <1>1, <1>3, <1>4, <1>5, <1>6, <1>7, <1>8 DEF TableHolds, t

LEMMA SampleKept ==
    ASSUME NEW S \in Seq(Sample), NEW m, NEW t, NEW n \in Nat, TableHolds(m, t, S, n), n + 1 \in 1..Len(S)
    PROVE  TableHolds(m, TableWith(t, S[n + 1]), S, n + 1)
<1>. DEFINE s == S[n + 1]
            u == TableWith(t, s)
<1>1. /\ t \in TrackTable /\ t.next = n + 1 /\ t.samples \in 0..n
      /\ RunsHold(t.stts, Durations(S), n)
      /\ OffsetsHold(t.ctts, Renderings(S), n)
      /\ SyncHolds(t.stss, S, n) /\ \A i \in 1..Len(t.stss) : t.stss[i] \in 1..n
      /\ SizesHold(t.stsz, ByteCounts(S), n)
      /\ ChunksHold(m, t.stsc, t.chunks, S, n - t.samples)
      /\ PendingHolds(t.pending, S, n - t.samples, n)
  BY DEF TableHolds
<1>2. /\ s.duration = Durations(S)[n + 1] /\ s.offset = Renderings(S)[n + 1]
      /\ Len(s.bytes) = ByteCounts(S)[n + 1]
      /\ s.duration \in Nat /\ s.offset \in Nat /\ s.sync \in BOOLEAN
      /\ s.bytes \in Seq(Byte) /\ Len(s.bytes) \in Nat \ {0}
  BY SamplesAre DEF Durations, Renderings, ByteCounts
<1>. HIDE DEF s
<1>3. /\ u.pending = t.pending \o s.bytes /\ u.samples = t.samples + 1 /\ u.span = t.span + s.duration
      /\ u.stsz = SampleSizes(t.stsz, Len(s.bytes)) /\ u.stts = Counted(t.stts, s.duration)
      /\ u.ctts = Offsets(t.ctts, t.next - 1, s.offset)
      /\ u.stss = (IF s.sync THEN Append(t.stss, t.next) ELSE t.stss)
      /\ u.next = t.next + 1 /\ u.rate = t.rate /\ u.stsc = t.stsc /\ u.chunks = t.chunks
      /\ u = [rate |-> u.rate, next |-> u.next, stts |-> u.stts, ctts |-> u.ctts, stss |-> u.stss,
              stsc |-> u.stsc, chunks |-> u.chunks, stsz |-> u.stsz, pending |-> u.pending,
              samples |-> u.samples, span |-> u.span]
  <2>. DEFINE names == {"rate", "next", "stts", "ctts", "stss", "stsc", "chunks", "stsz", "pending",
                        "samples", "span"}
  <2>1. DOMAIN t = names /\ t = [name \in names |-> t[name]]
    BY <1>1 DEF TrackTable
  <2>2. DOMAIN u = names /\ u = [name \in names |-> u[name]]
    BY <2>1 DEF TableWith
  <2>3. u.pending = t.pending \o s.bytes /\ u.samples = t.samples + 1 /\ u.span = t.span + s.duration
    BY <2>1 DEF TableWith
  <2>4. u.stsz = SampleSizes(t.stsz, Len(s.bytes)) /\ u.stts = Counted(t.stts, s.duration)
        /\ u.ctts = Offsets(t.ctts, t.next - 1, s.offset)
    BY <2>1 DEF TableWith
  <2>5. u.stss = (IF s.sync THEN Append(t.stss, t.next) ELSE t.stss) /\ u.next = t.next + 1
    BY <2>1 DEF TableWith
  <2>6. u.rate = t.rate /\ u.stsc = t.stsc /\ u.chunks = t.chunks
    BY <2>1 DEF TableWith
  <2>. HIDE DEF u
  <2>7. u = [rate |-> u.rate, next |-> u.next, stts |-> u.stts, ctts |-> u.ctts, stss |-> u.stss,
             stsc |-> u.stsc, chunks |-> u.chunks, stsz |-> u.stsz, pending |-> u.pending,
             samples |-> u.samples, span |-> u.span]
    BY <2>2
  <2>. QED BY <2>3, <2>4, <2>5, <2>6, <2>7
<1>. HIDE DEF u
<1>4. /\ t.rate \in Nat /\ t.next \in Nat /\ t.samples \in Nat /\ t.span \in Nat
      /\ t.stsc \in Seq([first : Nat, samples : Nat]) /\ t.chunks \in Seq(Nat)
  BY <1>1 DEF TrackTable
<1>5. t.next - 1 = n /\ u.next = (n + 1) + 1 /\ u.samples \in 0..n + 1 /\ u.samples \in Nat
      /\ (n + 1) - u.samples = n - t.samples /\ u.next \in Nat /\ u.span \in Nat
      /\ n - t.samples \in 0..n
  <2>. DEFINE a == t.samples
              b == t.span
              c == s.duration
              e == t.next
  <2>1. a \in 0..n /\ b \in Nat /\ c \in Nat /\ e = n + 1 /\ u.samples = a + 1 /\ u.span = b + c
        /\ u.next = e + 1
    BY <1>1, <1>2, <1>3, <1>4
  <2>. HIDE DEF a, b, c, e
  <2>2. e - 1 = n /\ e + 1 = (n + 1) + 1 /\ a + 1 \in 0..n + 1 /\ a + 1 \in Nat
        /\ (n + 1) - (a + 1) = n - a /\ e + 1 \in Nat /\ b + c \in Nat /\ n - a \in 0..n
    BY <2>1
  <2>. QED BY <2>1, <2>2 DEF a, e
<1>6. RunsHold(u.stts, Durations(S), n + 1)
  <2>. DEFINE v == Durations(S)
  <2>1. v[n + 1] \in Nat /\ u.stts = Counted(t.stts, v[n + 1]) /\ RunsHold(t.stts, v, n)
    BY <1>1, <1>2, <1>3
  <2>. HIDE DEF v
  <2>2. RunsHold(Counted(t.stts, v[n + 1]), v, n + 1)
    BY <2>1, CountedHolds
  <2>. QED BY <2>1, <2>2 DEF v
<1>7. OffsetsHold(u.ctts, Renderings(S), n + 1)
  <2>. DEFINE v == Renderings(S)
  <2>1. v[n + 1] \in Nat /\ u.ctts = Offsets(t.ctts, n, v[n + 1]) /\ OffsetsHold(t.ctts, v, n)
    BY <1>1, <1>2, <1>3, <1>5
  <2>. HIDE DEF v
  <2>2. OffsetsHold(Offsets(t.ctts, n, v[n + 1]), v, n + 1)
    BY <2>1, OffsetsKept
  <2>. QED BY <2>1, <2>2 DEF v
<1>8. SyncHolds(u.stss, S, n + 1) /\ \A i \in 1..Len(u.stss) : u.stss[i] \in 1..n + 1
  <2>1. u.stss = IF S[n + 1].sync THEN Append(t.stss, n + 1) ELSE t.stss
    BY <1>1, <1>3 DEF s
  <2>. DEFINE old == t.stss
              new == u.stss
  <2>2. SyncHolds(old, S, n) /\ \A i \in 1..Len(old) : old[i] \in 1..n
    BY <1>1
  <2>. HIDE DEF old, new
  <2>3. new = IF S[n + 1].sync THEN Append(old, n + 1) ELSE old
    BY <2>1 DEF old, new
  <2>4. SyncHolds(new, S, n + 1) /\ \A i \in 1..Len(new) : new[i] \in 1..n + 1
    BY <2>2, <2>3, SyncKept
  <2>. QED BY <2>4 DEF new
<1>9. SizesHold(u.stsz, ByteCounts(S), n + 1)
  <2>. DEFINE v == ByteCounts(S)
  <2>1. v[n + 1] \in Nat \ {0} /\ u.stsz = SampleSizes(t.stsz, v[n + 1]) /\ SizesHold(t.stsz, v, n)
    BY <1>1, <1>2, <1>3
  <2>. HIDE DEF v
  <2>2. SizesHold(SampleSizes(t.stsz, v[n + 1]), v, n + 1)
    BY <2>1, SizesKept
  <2>. QED BY <2>1, <2>2 DEF v
<1>10. ChunksHold(m, u.stsc, u.chunks, S, (n + 1) - u.samples)
  BY <1>1, <1>3, <1>5
<1>11. PendingHolds(u.pending, S, (n + 1) - u.samples, n + 1)
  <2>. DEFINE a == n - t.samples
  <2>1. a \in 0..n /\ PendingHolds(t.pending, S, a, n) /\ u.pending = t.pending \o S[n + 1].bytes
    BY <1>1, <1>3, <1>5 DEF s
  <2>. HIDE DEF a
  <2>2. PendingHolds(t.pending \o S[n + 1].bytes, S, a, n + 1)
    BY <2>1, PendingKept
  <2>. QED BY <1>5, <2>1, <2>2 DEF a
<1>12. u \in TrackTable
  <2>1. u.stts \in Seq(Run) /\ u.ctts \in Seq(Run)
    <3>1. <<>> \in Seq(Run)
      OBVIOUS
    <3>. QED BY <1>6, <1>7, <3>1 DEF RunsHold, OffsetsHold
  <2>2. u.stss \in Seq(Nat) /\ u.stsz \in SizeTable /\ u.pending \in Seq(Byte)
    BY <1>8, <1>9, <1>11 DEF SyncHolds, SizesHold, PendingHolds
  <2>3. u.rate \in Nat /\ u.stsc \in Seq([first : Nat, samples : Nat]) /\ u.chunks \in Seq(Nat)
    BY <1>3, <1>4
  <2>. QED BY <1>3, <1>5, <2>1, <2>2, <2>3 DEF TrackTable
<1>13. n + 1 \in 0..Len(S)
  BY SamplesAre
<1>. QED BY <1>5, <1>6, <1>7, <1>8, <1>9, <1>10, <1>11, <1>12, <1>13 DEF TableHolds, u, s

(* The rest of a file may grow.                                               *)
LEMMA TableLonger ==
    ASSUME NEW S \in Seq(Sample), NEW m \in Seq(Byte), NEW x \in Seq(Byte), NEW t, NEW n \in Nat,
           TableHolds(m, t, S, n)
    PROVE  TableHolds(m \o x, t, S, n)
<1>1. ChunksHold(m, t.stsc, t.chunks, S, n - t.samples) /\ n \in 0..Len(S) /\ t.samples \in 0..n
  BY DEF TableHolds
<1>. DEFINE done == n - t.samples
<1>2. done \in 0..Len(S)
  BY <1>1, SamplesAre
<1>3. ChunksHold(m \o x, t.stsc, t.chunks, S, done)
  <2>1. ChunksHold(m, t.stsc, t.chunks, S, done)
    BY <1>1
  <2>. HIDE DEF done
  <2>. QED BY <1>2, <2>1, ChunksLonger
<1>. QED BY <1>3 DEF TableHolds

LEMMA TableChunkedHolds ==
    ASSUME NEW S \in Seq(Sample), NEW m \in Seq(Byte), NEW t, NEW n \in Nat, TableHolds(m, t, S, n),
           t.pending # <<>>
    PROVE  TableHolds(m \o t.pending, TableChunked(t, Len(m)), S, n)
<1>. DEFINE u == TableChunked(t, Len(m))
            done == n - t.samples
<1>1. /\ t \in TrackTable /\ t.next = n + 1 /\ t.samples \in 0..n /\ n \in 0..Len(S)
      /\ ChunksHold(m, t.stsc, t.chunks, S, done)
      /\ PendingHolds(t.pending, S, done, n)
  BY DEF TableHolds
<1>2. Len(S) \in Nat /\ Len(m) \in Nat /\ done \in 0..n /\ n - done = t.samples
  BY <1>1, SamplesAre, LenProperties
<1>. HIDE DEF done
<1>3. done # n
  BY <1>1, <1>2, PendingNone
<1>4. ChunksHold(m \o t.pending, RunsWith(t.stsc, Len(t.chunks), n - done), Append(t.chunks, Len(m)), S, n)
  <2>. DEFINE x == t.pending
              a == t.stsc
              b == t.chunks
  <2>1. ChunksHold(m, a, b, S, done) /\ PendingHolds(x, S, done, n)
    BY <1>1
  <2>. HIDE DEF x, a, b
  <2>2. ChunksHold(m \o x, RunsWith(a, Len(b), n - done), Append(b, Len(m)), S, n)
    BY <1>1, <1>2, <1>3, <2>1, ChunkWritten
  <2>. QED BY <2>2 DEF x, a, b
<1>5. /\ u.stsc = RunsWith(t.stsc, Len(t.chunks), t.samples) /\ u.chunks = Append(t.chunks, Len(m))
      /\ u.pending = <<>> /\ u.samples = 0 /\ u.span = 0 /\ u.rate = t.rate /\ u.next = t.next
      /\ u.stts = t.stts /\ u.ctts = t.ctts /\ u.stss = t.stss /\ u.stsz = t.stsz
      /\ u = [rate |-> u.rate, next |-> u.next, stts |-> u.stts, ctts |-> u.ctts, stss |-> u.stss,
              stsc |-> u.stsc, chunks |-> u.chunks, stsz |-> u.stsz, pending |-> u.pending,
              samples |-> u.samples, span |-> u.span]
  <2>. DEFINE names == {"rate", "next", "stts", "ctts", "stss", "stsc", "chunks", "stsz", "pending",
                        "samples", "span"}
  <2>1. DOMAIN t = names
    BY <1>1 DEF TrackTable
  <2>2. DOMAIN u = names /\ u = [name \in names |-> u[name]]
    BY <2>1 DEF TableChunked
  <2>3. u.stsc = RunsWith(t.stsc, Len(t.chunks), t.samples) /\ u.chunks = Append(t.chunks, Len(m))
    BY <2>1 DEF TableChunked
  <2>4. u.pending = <<>> /\ u.samples = 0 /\ u.span = 0 /\ u.rate = t.rate /\ u.next = t.next
    BY <2>1 DEF TableChunked
  <2>5. u.stts = t.stts /\ u.ctts = t.ctts /\ u.stss = t.stss /\ u.stsz = t.stsz
    BY <2>1 DEF TableChunked
  <2>. HIDE DEF u
  <2>6. u = [rate |-> u.rate, next |-> u.next, stts |-> u.stts, ctts |-> u.ctts, stss |-> u.stss,
             stsc |-> u.stsc, chunks |-> u.chunks, stsz |-> u.stsz, pending |-> u.pending,
             samples |-> u.samples, span |-> u.span]
    BY <2>2
  <2>. QED BY <2>3, <2>4, <2>5, <2>6
<1>. HIDE DEF u
<1>6. ChunksHold(m \o t.pending, u.stsc, u.chunks, S, n - u.samples)
  <2>1. n - u.samples = n
    BY <1>5
  <2>. QED BY <1>2, <1>4, <1>5, <2>1
<1>7. PendingHolds(u.pending, S, n - u.samples, n)
  <2>1. n - u.samples = n /\ u.pending = <<>> /\ <<>> \in Seq(Byte) /\ Len(<<>>) = 0
    BY <1>5
  <2>2. EndBytes(S)[n] - EndBytes(S)[n] = 0
    BY <1>1, EndsAre
  <2>3. Lies(<<>>, 0, S, n, n)
    BY DEF Lies
  <2>. QED BY <2>1, <2>2, <2>3 DEF PendingHolds
<1>8. u \in TrackTable
  <2>1. u.stsc \in Seq([first : Nat, samples : Nat]) /\ u.chunks \in Seq(Nat)
    BY <1>6 DEF ChunksHold, ChunkRuns
  <2>2. /\ u.rate \in Nat /\ u.next \in Nat /\ u.stts \in Seq(Run) /\ u.ctts \in Seq(Run)
        /\ u.stss \in Seq(Nat) /\ u.stsz \in SizeTable
    BY <1>1, <1>5 DEF TrackTable
  <2>3. u.pending \in Seq(Byte) /\ u.samples \in Nat /\ u.span \in Nat
    BY <1>5
  <2>. QED BY <1>5, <2>1, <2>2, <2>3 DEF TrackTable
<1>9. u.samples \in 0..n
  BY <1>5
<1>. QED BY <1>1, <1>5, <1>6, <1>7, <1>8, <1>9 DEF TableHolds, u

(* A file holds the first samples of each track, as many as its tables count. *)
File(T) == [mdat : Seq(Byte), tables : [T -> TrackTable]]
Tracks(all) == all \in [DOMAIN all -> Seq(Sample)]
Written(w, all) ==
    /\ w \in File(DOMAIN all)
    /\ \A track \in DOMAIN all : \E n \in Nat : TableHolds(w.mdat, w.tables[track], all[track], n)
Complete(w, all) ==
    /\ Written(w, all)
    /\ \A track \in DOMAIN all : /\ w.tables[track].next = Len(all[track]) + 1
                                 /\ w.tables[track].samples = 0

(* Writing a chunk.                                                           *)
ChunkStep(w, v, T, track) ==
    /\ \A other \in T : v.tables[other].next = w.tables[other].next
    /\ \A other \in T \ {track} : v.tables[other] = w.tables[other]
    /\ v.tables[track].samples = 0

LEMMA WithChunkHolds ==
    ASSUME NEW all, Tracks(all), NEW w, Written(w, all), NEW track \in DOMAIN all
    PROVE  Written(WithChunk(w, track), all) /\ ChunkStep(w, WithChunk(w, track), DOMAIN all, track)
<1>. DEFINE T == DOMAIN all
            v == WithChunk(w, track)
            t == w.tables[track]
            u == TableChunked(t, Len(w.mdat))
<1>1. w \in File(T) /\ w.mdat \in Seq(Byte) /\ w.tables \in [T -> TrackTable]
  BY DEF Written, File
<1>2. \A other \in T : all[other] \in Seq(Sample)
                       /\ \E n \in Nat : TableHolds(w.mdat, w.tables[other], all[other], n)
  BY DEF Written, Tracks
<1>3. PICK n \in Nat : TableHolds(w.mdat, t, all[track], n)
  BY <1>2
<1>4. t \in TrackTable /\ PendingHolds(t.pending, all[track], n - t.samples, n) /\ n \in 0..Len(all[track])
      /\ t.samples \in 0..n
  BY <1>3 DEF TableHolds
<1>5. t.pending \in Seq(Byte)
  BY <1>4 DEF PendingHolds
<1>6. CASE t.pending = <<>>
  <2>1. v = w
    BY <1>6 DEF WithChunk
  <2>2. t.samples = 0
    <3>. DEFINE a == n - t.samples
                x == t.pending
    <3>1. a \in 0..n /\ PendingHolds(x, all[track], a, n) /\ x = <<>>
      BY <1>4, <1>6
    <3>2. a = n
      <4>. HIDE DEF a, x
      <4>. QED BY <1>2, <1>4, <3>1, PendingNone
    <3>. QED BY <1>4, <3>2
  <2>. QED BY <2>1, <2>2 DEF ChunkStep
<1>7. CASE t.pending # <<>>
  <2>1. v = [mdat |-> w.mdat \o t.pending, tables |-> [w.tables EXCEPT ![track] = u]]
    BY <1>7 DEF WithChunk, TableChunked, RunsWith
  <2>. HIDE DEF u
  <2>2. v.mdat = w.mdat \o t.pending /\ v.tables = [w.tables EXCEPT ![track] = u]
    <3>. DEFINE m == w.mdat \o t.pending
                f == [w.tables EXCEPT ![track] = u]
    <3>1. v = [mdat |-> m, tables |-> f]
      BY <2>1
    <3>. HIDE DEF m, f, v
    <3>2. v.mdat = m /\ v.tables = f
      BY <3>1
    <3>. QED BY <3>2 DEF m, f
  <2>3. v.mdat \in Seq(Byte)
    BY <1>1, <1>5, <2>2, ConcatProperties
  <2>4. TableHolds(v.mdat, u, all[track], n)
    <3>. DEFINE m == w.mdat
                S == all[track]
    <3>1. S \in Seq(Sample) /\ m \in Seq(Byte) /\ TableHolds(m, t, S, n) /\ t.pending # <<>>
      BY <1>1, <1>2, <1>3, <1>7
    <3>. HIDE DEF m, S, t
    <3>2. TableHolds(m \o t.pending, TableChunked(t, Len(m)), S, n)
      BY <3>1, TableChunkedHolds
    <3>. QED BY <2>2, <3>2 DEF m, S, u
  <2>5. u \in TrackTable /\ u.next = n + 1 /\ t.next = n + 1
    BY <1>3, <2>4 DEF TableHolds
  <2>6. u.samples = 0
    BY <1>4 DEF u, TableChunked, TrackTable
  <2>7. \A other \in T : v.tables[other] = IF other = track THEN u ELSE w.tables[other]
    BY <1>1, <2>2
  <2>8. v.tables \in [T -> TrackTable]
    BY <1>1, <2>2, <2>5
  <2>9. v \in File(T)
    BY <2>1, <2>3, <2>8 DEF File
  <2>10. ASSUME NEW other \in T PROVE \E k \in Nat : TableHolds(v.mdat, v.tables[other], all[other], k)
    <3>1. CASE other = track
      BY <2>4, <2>7, <3>1
    <3>2. CASE other # track
      <4>1. PICK k \in Nat : TableHolds(w.mdat, w.tables[other], all[other], k)
        BY <1>2
      <4>. DEFINE m == w.mdat
                  x == t.pending
                  S == all[other]
                  o == w.tables[other]
      <4>2. S \in Seq(Sample) /\ m \in Seq(Byte) /\ x \in Seq(Byte) /\ TableHolds(m, o, S, k)
        BY <1>1, <1>2, <1>5, <4>1
      <4>3. TableHolds(m \o x, o, S, k)
        <5>. HIDE DEF m, x, S, o
        <5>. QED BY <4>2, TableLonger
      <4>4. v.tables[other] = o /\ v.mdat = m \o x
        BY <2>2, <2>7, <3>2
      <4>. QED BY <4>3, <4>4
    <3>. QED BY <3>1, <3>2
  <2>. HIDE DEF v
  <2>11. Written(v, all)
    BY <2>9, <2>10 DEF Written
  <2>12. ChunkStep(w, v, T, track)
    BY <2>5, <2>6, <2>7 DEF ChunkStep
  <2>. QED BY <2>11, <2>12 DEF v
<1>. QED BY <1>6, <1>7

(* Writing a sample.                                                          *)
SampleStep(w, v, T, track) ==
    /\ \A other \in T \ {track} : v.tables[other] = w.tables[other]
    /\ v.tables[track].next = w.tables[track].next + 1

LEMMA WithSampleHolds ==
    ASSUME NEW all, Tracks(all), NEW w, Written(w, all), NEW track \in DOMAIN all, NEW n \in Nat,
           w.tables[track].next = n + 1, n + 1 \in 1..Len(all[track])
    PROVE  LET v == WithSample(w, track, all[track][n + 1])
           IN  Written(v, all) /\ SampleStep(w, v, DOMAIN all, track)
<1>. DEFINE T == DOMAIN all
            S == all[track]
            s == S[n + 1]
            t == w.tables[track]
            u == TableWith(t, s)
            grown == [w EXCEPT !.tables[track] = u]
            v == WithSample(w, track, s)
<1>1. w \in File(T) /\ w.mdat \in Seq(Byte) /\ w.tables \in [T -> TrackTable]
      /\ w = [mdat |-> w.mdat, tables |-> w.tables]
  BY DEF Written, File
<1>2. \A other \in T : all[other] \in Seq(Sample)
                       /\ \E k \in Nat : TableHolds(w.mdat, w.tables[other], all[other], k)
  BY DEF Written, Tracks
<1>3. TableHolds(w.mdat, t, S, n)
  <2>1. PICK k \in Nat : TableHolds(w.mdat, t, S, k)
    BY <1>2
  <2>2. k = n
    BY <2>1 DEF TableHolds
  <2>. QED BY <2>1, <2>2
<1>4. TableHolds(w.mdat, u, S, n + 1)
  <2>. HIDE DEF t, S
  <2>. QED BY <1>2, <1>3, SampleKept DEF S
<1>5. v = IF u.span >= u.rate THEN WithChunk(grown, track) ELSE grown
  BY DEF WithSample, TableWith
<1>. HIDE DEF u
<1>6. u \in TrackTable /\ u.next = (n + 1) + 1 /\ t.next = n + 1
  BY <1>3, <1>4 DEF TableHolds
<1>7. grown.mdat = w.mdat /\ grown.tables = [w.tables EXCEPT ![track] = u]
      /\ grown = [mdat |-> grown.mdat, tables |-> grown.tables]
  BY <1>1
<1>. HIDE DEF grown
<1>8. \A other \in T : grown.tables[other] = IF other = track THEN u ELSE w.tables[other]
  BY <1>1, <1>7
<1>9. grown \in File(T)
  <2>1. grown.tables \in [T -> TrackTable] /\ grown.mdat \in Seq(Byte)
    BY <1>1, <1>6, <1>7
  <2>. QED BY <1>7, <2>1 DEF File
<1>10. Written(grown, all)
  <2>1. ASSUME NEW other \in T PROVE \E k \in Nat : TableHolds(grown.mdat, grown.tables[other], all[other], k)
    <3>1. CASE other = track
      <4>1. n + 1 \in Nat
        OBVIOUS
      <4>. QED BY <1>4, <1>7, <1>8, <3>1, <4>1
    <3>2. CASE other # track
      BY <1>2, <1>7, <1>8, <3>2
    <3>. QED BY <3>1, <3>2
  <2>. QED BY <1>9, <2>1 DEF Written
<1>11. SampleStep(w, grown, T, track)
  BY <1>6, <1>8 DEF SampleStep
<1>12. CASE ~ (u.span >= u.rate)
  BY <1>5, <1>10, <1>11, <1>12
<1>13. CASE u.span >= u.rate
  <2>1. v = WithChunk(grown, track)
    BY <1>5, <1>13
  <2>2. Written(WithChunk(grown, track), all) /\ ChunkStep(grown, WithChunk(grown, track), T, track)
    BY <1>10, WithChunkHolds
  <2>. HIDE DEF v
  <2>3. Written(v, all) /\ SampleStep(w, v, T, track)
    BY <1>11, <2>1, <2>2 DEF SampleStep, ChunkStep
  <2>. QED BY <2>3 DEF v
<1>. QED BY <1>12, <1>13

(* Writing what is left.                                                      *)
LEMMA FinishedHolds ==
    ASSUME NEW all, Tracks(all), DOMAIN all \subseteq {"video", "audio"}, NEW w, Written(w, all),
           \A track \in DOMAIN all : w.tables[track].next = Len(all[track]) + 1
    PROVE  Complete(Finished(w), all)
<1>. DEFINE T == DOMAIN all
            video == IF "video" \in T THEN WithChunk(w, "video") ELSE w
            both == IF "audio" \in T THEN WithChunk(video, "audio") ELSE video
<1>1. w \in File(T) /\ DOMAIN w.tables = T
  BY DEF Written, File
<1>2. Finished(w) = both
  BY <1>1 DEF Finished
<1>3. Written(video, all) /\ (\A other \in T : video.tables[other].next = w.tables[other].next)
      /\ ("video" \in T => video.tables["video"].samples = 0)
  <2>1. CASE "video" \in T
    BY <2>1, WithChunkHolds DEF ChunkStep
  <2>2. CASE "video" \notin T
    BY <2>2
  <2>. QED BY <2>1, <2>2
<1>. HIDE DEF video
<1>4. Written(both, all) /\ (\A other \in T : both.tables[other].next = w.tables[other].next)
      /\ ("video" \in T => both.tables["video"].samples = 0)
      /\ ("audio" \in T => both.tables["audio"].samples = 0)
  <2>1. CASE "audio" \in T
    <3>1. both = WithChunk(video, "audio")
      BY <2>1
    <3>2. Written(WithChunk(video, "audio"), all) /\ ChunkStep(video, WithChunk(video, "audio"), T, "audio")
      BY <1>3, <2>1, WithChunkHolds
    <3>. HIDE DEF both
    <3>3. Written(both, all) /\ ChunkStep(video, both, T, "audio")
      BY <3>1, <3>2
    <3>4. "video" \in T => both.tables["video"] = video.tables["video"]
      <4>1. "video" # "audio"
        OBVIOUS
      <4>. QED BY <3>3, <4>1 DEF ChunkStep
    <3>. QED BY <1>3, <3>3, <3>4 DEF ChunkStep
  <2>2. CASE "audio" \notin T
    BY <1>3, <2>2
  <2>. QED BY <2>1, <2>2
<1>. HIDE DEF both
<1>5. \A track \in T : both.tables[track].samples = 0 /\ both.tables[track].next = Len(all[track]) + 1
  BY <1>4
<1>. QED BY <1>2, <1>4, <1>5 DEF Complete

--------------------------------------------------------------------------------
(* The reader.                                                                *)
Reading(S, id) == [bytes |-> S[id].bytes, start |-> Elapsed(S)[id - 1], duration |-> S[id].duration,
                   offset |-> S[id].offset, sync |-> S[id].sync]

(* What the reader finds in a track of a file is S.                           *)
Says(file, track, S) ==
    /\ SampleCount(file.tables[track]) = Len(S)
    /\ \A id \in 1..Len(S) :
        /\ ReadSample(file, track, id) = Reading(S, id)
        /\ SampleTime(file.tables[track], id) = Elapsed(S)[id - 1]
        /\ RenderingOffset(file.tables[track], id) = S[id].offset
        /\ IsSync(file.tables[track], id) = S[id].sync

LEMMA OffsetReads ==
    ASSUME NEW N \in Nat, NEW v \in [1..N -> Nat], NEW runs, OffsetsHold(runs, v, N), NEW id \in 1..N
    PROVE  (IF id > Sum(Counts(runs), Len(runs)) THEN 0 ELSE RunOf(runs, id).value) = v[id]
<1>1. CASE runs = <<>>
  <2>1. Sum(Counts(<<>>), 0) = 0
    <3>. DEFINE P == [k \in 0..0 |-> 0]
    <3>1. P[0] = 0 /\ \A k \in 1..0 : FALSE
      OBVIOUS
    <3>. HIDE DEF P
    <3>. QED BY <3>1, SumIs
  <2>2. Sum(Counts(runs), Len(runs)) = 0
    BY <1>1, <2>1
  <2>. QED BY <1>1, <2>2 DEF OffsetsHold
<1>2. CASE runs # <<>>
  <2>1. RunsHold(runs, v, N) /\ N \in 0..N
    BY <1>2 DEF OffsetsHold
  <2>. DEFINE total == Sum(Counts(runs), Len(runs))
  <2>2. RunOf(runs, id).value = v[id] /\ id <= total
    BY <2>1, RunOfHolds
  <2>3. total \in Nat
    <3>1. runs \in Seq(Run)
      BY <2>1 DEF RunsHold
    <3>2. Len(runs) \in Nat /\ Counts(runs) \in [1..Len(runs) -> Nat] /\ Len(runs) \in 0..Len(runs)
      BY <3>1, RunParts
    <3>. QED BY <3>2, SumsOf
  <2>4. ~ (id > total)
    <3>. HIDE DEF total
    <3>. QED BY <2>2, <2>3
  <2>. QED BY <2>2, <2>4
<1>. QED BY <1>1, <1>2

LEMMA Reads ==
    ASSUME NEW S \in Seq(Sample), Len(S) >= 1 => S[1].sync, NEW file, NEW track,
           TableHolds(file.mdat, file.tables[track], S, Len(S)), file.tables[track].samples = 0
    PROVE  Says(file, track, S)
<1>. DEFINE t == file.tables[track]
            m == file.mdat
            N == Len(S)
<1>1. /\ N \in Nat
      /\ RunsHold(t.stts, Durations(S), N) /\ OffsetsHold(t.ctts, Renderings(S), N)
      /\ SyncHolds(t.stss, S, N) /\ SizesHold(t.stsz, ByteCounts(S), N)
      /\ ChunksHold(m, t.stsc, t.chunks, S, N) /\ t \in TrackTable
  <2>1. N \in Nat
    BY SamplesAre
  <2>2. N - t.samples = N
    BY <2>1
  <2>. QED BY <2>1, <2>2 DEF TableHolds
<1>2. SampleCount(t) = N
  BY <1>1 DEF SampleCount, SizesHold
<1>3. ASSUME NEW id \in 1..N
      PROVE  /\ ReadSample(file, track, id) = Reading(S, id)
             /\ SampleTime(t, id) = Elapsed(S)[id - 1]
             /\ RenderingOffset(t, id) = S[id].offset
             /\ IsSync(t, id) = S[id].sync
  <2>1. /\ Durations(S) \in [1..N -> Nat] /\ Durations(S)[id] = S[id].duration
        /\ Renderings(S) \in [1..N -> Nat] /\ Renderings(S)[id] = S[id].offset
        /\ ByteCounts(S)[id] = Len(S[id].bytes) /\ S[id].sync \in BOOLEAN
        /\ S[id].bytes \in Seq(Byte) /\ Len(S[id].bytes) \in Nat \ {0}
    BY SamplesAre DEF Durations, Renderings, ByteCounts
  <2>2. SampleTime(t, id) = Elapsed(S)[id - 1] /\ RunOf(t.stts, id).value = S[id].duration
    <3>. DEFINE v == Durations(S)
                r == t.stts
    <3>1. v \in [1..N -> Nat] /\ RunsHold(r, v, N) /\ N \in 0..N
      BY <1>1, <2>1
    <3>. DEFINE run == RunOf(r, id)
    <3>2. run.value = v[id] /\ (id - run.before - 1) * run.value + run.elapsed = UpTo(v, N)[id - 1]
      <4>. HIDE DEF v, r, N
      <4>1. N \in Nat /\ id \in 1..N /\ v \in [1..N -> Nat] /\ RunsHold(r, v, N) /\ N \in 0..N
        BY <1>1, <3>1
      <4>. QED BY <4>1, RunOfHolds, SMTT(30)
    <3>3. SampleTime(t, id) = (id - run.before - 1) * run.value + run.elapsed
      BY DEF SampleTime
    <3>4. UpTo(v, N) = Elapsed(S)
      BY DEF Elapsed
    <3>. HIDE DEF run
    <3>. QED BY <2>1, <3>2, <3>3, <3>4 DEF run
  <2>3. RenderingOffset(t, id) = S[id].offset
    <3>. DEFINE v == Renderings(S)
                r == t.ctts
    <3>1. v \in [1..N -> Nat] /\ OffsetsHold(r, v, N)
      BY <1>1, <2>1
    <3>2. (IF id > Sum(Counts(r), Len(r)) THEN 0 ELSE RunOf(r, id).value) = v[id]
      <4>. HIDE DEF v, r, N
      <4>. QED BY <1>1, <3>1, OffsetReads
    <3>. QED BY <2>1, <3>2 DEF RenderingOffset, Counts
  <2>4. IsSync(t, id) = S[id].sync
    <3>. DEFINE r == t.stss
                listed(k) == \E i \in 1..Len(r) : r[i] = k
    <3>1. S[id].sync = listed(id) /\ (1 \in 1..N => S[1].sync = listed(1))
      BY <1>1 DEF SyncHolds
    <3>2. 1 \in 1..N /\ N >= 1
      BY <1>1
    <3>3. r # <<>>
      <4>1. listed(1)
        BY <3>1, <3>2
      <4>2. Len(r) \in Nat /\ Len(r) # 0
        <5>1. r \in Seq(Nat)
          BY <1>1 DEF SyncHolds
        <5>2. Len(r) \in Nat
          BY <5>1, LenProperties
        <5>. QED BY <4>1, <5>2
      <4>. QED BY <4>2
    <3>. QED BY <3>1, <3>3 DEF IsSync
  <2>5. SampleSize(t, id) = Len(S[id].bytes)
    <3>. DEFINE v == ByteCounts(S)
    <3>1. SizesHold(t.stsz, v, N) /\ v[id] = Len(S[id].bytes)
      BY <1>1, <2>1
    <3>2. SampleSize(t, id) = v[id]
      <4>. HIDE DEF v, N, t
      <4>. QED BY <1>1, <3>1, SizeReads
    <3>. QED BY <3>1, <3>2
  <2>6. SampleThere(m, t, S, id)
    <3>1. N \in 0..Len(S) /\ N \in 0..N
      BY <1>1
    <3>. HIDE DEF N, t, m
    <3>. QED BY <1>1, <3>1, SampleFound
  <2>7. ReadSample(file, track, id).bytes = S[id].bytes /\ ReadSample(file, track, id) =
          [bytes |-> ReadSample(file, track, id).bytes,
           start |-> SampleTime(t, id), duration |-> RunOf(t.stts, id).value,
           offset |-> RenderingOffset(t, id), sync |-> IsSync(t, id)]
    <3>. DEFINE l == Len(S[id].bytes)
                whole == {o \in SampleOffset(t, id) : o + SampleSize(t, id) <= Len(m)}
    <3>1. PICK p \in Nat : /\ SampleOffset(t, id) = {p} /\ p + l <= Len(m)
                           /\ \A i \in 1..l : m[p + i] = S[id].bytes[i]
      BY <2>6 DEF SampleThere
    <3>2. whole = {p}
      BY <2>5, <3>1
    <3>3. Lowest(whole) = p
      <4>. HIDE DEF whole
      <4>1. whole \in SUBSET Nat /\ whole # {}
        BY <3>2
      <4>2. Lowest(whole) \in whole
        BY <4>1, LowestIs
      <4>. QED BY <3>2, <4>2
    <3>4. SubSeq(m, p + 1, p + l) = S[id].bytes
      <4>. DEFINE b == SubSeq(m, p + 1, p + l)
      <4>1. l \in Nat /\ l >= 1 /\ p \in Nat
        BY <2>1
      <4>2. \A i \in p + 1..p + l : m[i] \in Byte
        <5>1. ASSUME NEW i \in p + 1..p + l PROVE m[i] \in Byte
          <6>1. i - p \in 1..l /\ p + (i - p) = i
            BY <4>1
          <6>2. m[i] = S[id].bytes[i - p]
            BY <3>1, <6>1
          <6>3. S[id].bytes[i - p] \in Byte
            BY <2>1, <6>1, ElementOfSeq
          <6>. QED BY <6>2, <6>3
        <5>. QED BY <5>1
      <4>. DEFINE c == p + 1
                  d == p + l
      <4>3. c \in Int /\ d \in Int /\ c <= d /\ (d - c) + 1 = l /\ \A i \in 1..l : (c + i) - 1 = p + i
        BY <4>1
      <4>. HIDE DEF c, d
      <4>4. /\ SubSeq(m, c, d) \in Seq(Byte)
            /\ Len(SubSeq(m, c, d)) = (IF c <= d THEN d - c + 1 ELSE 0)
            /\ \A i \in 1..d - c + 1 : SubSeq(m, c, d)[i] = m[c + i - 1]
        BY <4>2, <4>3, SubSeqProperties DEF c, d
      <4>5. b = SubSeq(m, c, d)
        BY DEF c, d
      <4>. HIDE DEF b, l
      <4>6. b \in Seq(Byte) /\ Len(b) = l /\ \A i \in 1..l : b[i] = m[p + i]
        BY <4>1, <4>3, <4>4, <4>5, SMTT(30)
      <4>7. \A i \in 1..l : b[i] = S[id].bytes[i]
        BY <3>1, <4>6
      <4>8. b = S[id].bytes
        BY <2>1, <4>6, <4>7, SeqEqual DEF l
      <4>. QED BY <4>8 DEF b
    <3>5. ReadSample(file, track, id) =
            [bytes |-> SubSeq(m, p + 1, p + l), start |-> SampleTime(t, id), duration |-> RunOf(t.stts, id).value,
             offset |-> RenderingOffset(t, id), sync |-> IsSync(t, id)]
      <4>1. whole # {}
        BY <3>2
      <4>2. ReadSample(file, track, id) = IF whole = {} THEN NoSample
              ELSE [bytes |-> SubSeq(m, Lowest(whole) + 1, Lowest(whole) + SampleSize(t, id)),
                    start |-> SampleTime(t, id), duration |-> RunOf(t.stts, id).value,
                    offset |-> RenderingOffset(t, id), sync |-> IsSync(t, id)]
        BY DEF ReadSample
      <4>. HIDE DEF whole
      <4>. QED BY <2>5, <3>3, <4>1, <4>2
    <3>. HIDE DEF m, t
    <3>. QED BY <3>4, <3>5
  <2>8. ReadSample(file, track, id) = Reading(S, id)
    <3>. DEFINE x == ReadSample(file, track, id)
    <3>1. x.bytes = S[id].bytes
          /\ x = [bytes |-> x.bytes, start |-> SampleTime(t, id), duration |-> RunOf(t.stts, id).value,
                  offset |-> RenderingOffset(t, id), sync |-> IsSync(t, id)]
      BY <2>7
    <3>. HIDE DEF x, t
    <3>2. x = Reading(S, id)
      BY <2>2, <2>3, <2>4, <3>1 DEF Reading
    <3>. QED BY <3>2 DEF x
  <2>. QED BY <2>2, <2>3, <2>4, <2>8
<1>. QED BY <1>2, <1>3 DEF Says

--------------------------------------------------------------------------------
(* Copying a stretch of a clip.                                               *)
LEMMA ElapsedIs ==
    ASSUME NEW S \in Seq(Sample)
    PROVE  /\ Elapsed(S) \in [0..Len(S) -> Nat] /\ Elapsed(S)[0] = 0
           /\ \A k \in 1..Len(S) : Elapsed(S)[k] = Elapsed(S)[k - 1] + S[k].duration
           /\ \A a \in 0..Len(S) : \A b \in a..Len(S) : Elapsed(S)[a] <= Elapsed(S)[b]
<1>. DEFINE N == Len(S)
            f == Durations(S)
            B == Elapsed(S)
<1>1. N \in Nat /\ f \in [1..N -> Nat]
  BY SamplesAre
<1>2. \A k \in 1..N : f[k] = S[k].duration
  BY DEF Durations
<1>3. B = UpTo(f, N)
  BY DEF Elapsed
<1>. HIDE DEF N, f, B
<1>4. AddsUp(B, f, N)
  BY <1>1, <1>3, UpToIs
<1>5. B \in [0..N -> Nat] /\ B[0] = 0 /\ \A k \in 1..N : B[k] = B[k - 1] + S[k].duration
  BY <1>2, <1>4 DEF AddsUp
<1>6. ASSUME NEW a \in 0..N, NEW b \in a..N PROVE B[a] <= B[b]
  BY <1>1, <1>4, SumGrows
<1>. QED BY <1>5, <1>6 DEF N, B

(* A set of numbers without gaps.                                             *)
LEMMA Stretch ==
    ASSUME NEW N \in Nat, NEW ids \in SUBSET (1..N), \A x, z \in ids : \A y \in x..z : y \in ids
    PROVE  \/ ids = {}
           \/ \E a \in 1..N : \E b \in a..N : ids = a..b /\ Lowest(ids) = a
<1>. SUFFICES ASSUME ids # {} PROVE \E a \in 1..N : \E b \in a..N : ids = a..b /\ Lowest(ids) = a
  OBVIOUS
<1>. DEFINE a == Lowest(ids)
            b == Highest(ids)
<1>1. a \in ids /\ \A y \in ids : a <= y
  <2>1. ids \in SUBSET Nat
    OBVIOUS
  <2>. QED BY <2>1, LowestIs
<1>2. b \in ids /\ \A y \in ids : y <= b
  <2>1. ids \in SUBSET (0..N)
    OBVIOUS
  <2>. QED BY <2>1, HighestIs
<1>. HIDE DEF a, b
<1>3. a \in 1..N /\ b \in a..N
  BY <1>1, <1>2
<1>4. ids = a..b
  <2>1. \A y \in a..b : y \in ids
    BY <1>1, <1>2
  <2>2. \A y \in ids : y \in a..b
    BY <1>1, <1>2, <1>3
  <2>. QED BY <2>1, <2>2
<1>. QED BY <1>3, <1>4 DEF a

(* c is a copy of the samples a..b of S.                                      *)
CopyOf(c, S, a, b) ==
    /\ c \in Seq(Sample) /\ Len(c) = (b - a) + 1
    /\ \A k \in 1..Len(c) :
        /\ c[k].duration = S[a + k - 1].duration /\ c[k].offset = S[a + k - 1].offset
        /\ c[k].sync = S[a + k - 1].sync /\ c[k].bytes = S[a + k - 1].bytes

LEMMA CopiesAre ==
    ASSUME NEW S \in Seq(Sample), NEW track, Says(clip, track, S),
           NEW a \in 1..Len(S), NEW b \in a..Len(S), NEW ids, ids = a..b, Lowest(ids) = a
    PROVE  CopyOf(Copies(track, ids), S, a, b)
<1>. DEFINE c == Copies(track, ids)
            n == (b - a) + 1
            B == Elapsed(S)
            r == IF track = "video" THEN 0 ELSE 1
<1>0. Len(S) \in Nat /\ a \in Nat /\ b \in Nat /\ a <= b /\ b <= Len(S) /\ a >= 1
  BY SamplesAre
<1>1. Cardinality(ids) = n
  <2>1. Cardinality(a..b) = IF a > b THEN 0 ELSE b - a + 1
    BY <1>0, FS_Interval
  <2>2. ~ (a > b)
    BY <1>0
  <2>. QED BY <2>1, <2>2
<1>2. c = [k \in 1..n |->
             LET was == ReadSample(clip, track, a + k - 1)
             IN  [start |-> was.start, duration |-> was.duration, offset |-> was.offset, sync |-> was.sync,
                  bytes |-> was.bytes, rank |-> r]]
  BY <1>1 DEF Copies
<1>3. n \in Nat /\ r \in Int
  BY <1>0
<1>4. B \in [0..Len(S) -> Nat]
  BY ElapsedIs
<1>. HIDE DEF c, n, B, r
<1>5. ASSUME NEW k \in 1..n
      PROVE  /\ c[k] \in Sample
             /\ c[k].duration = S[a + k - 1].duration /\ c[k].offset = S[a + k - 1].offset
             /\ c[k].sync = S[a + k - 1].sync /\ c[k].bytes = S[a + k - 1].bytes
  <2>. DEFINE i == a + k - 1
              was == ReadSample(clip, track, i)
  <2>1. i \in 1..Len(S) /\ i - 1 \in 0..Len(S)
    BY <1>0 DEF n
  <2>2. c[k] = [start |-> was.start, duration |-> was.duration, offset |-> was.offset, sync |-> was.sync,
                bytes |-> was.bytes, rank |-> r]
    BY <1>2
  <2>. HIDE DEF i
  <2>3. was = Reading(S, i)
    BY <2>1 DEF Says
  <2>. HIDE DEF was
  <2>4. was.start = B[i - 1] /\ was.duration = S[i].duration /\ was.offset = S[i].offset
        /\ was.sync = S[i].sync /\ was.bytes = S[i].bytes
    BY <2>3 DEF Reading, B
  <2>5. /\ S[i].duration \in Nat /\ S[i].offset \in Nat /\ S[i].sync \in BOOLEAN
        /\ S[i].bytes \in Seq(Byte) /\ Len(S[i].bytes) \in Nat \ {0}
    BY <2>1, SamplesAre
  <2>6. S[i].bytes \in Seq(Byte) \ {<<>>} /\ B[i - 1] \in Int
    <3>1. S[i].bytes \in Seq(Byte) /\ Len(S[i].bytes) # 0
      BY <2>5
    <3>2. S[i].bytes # <<>>
      BY <3>1
    <3>3. B[i - 1] \in Nat
      BY <1>4, <2>1
    <3>. QED BY <3>1, <3>2, <3>3
  <2>7. c[k] \in Sample
    <3>1. c[k] = [start |-> B[i - 1], duration |-> S[i].duration, offset |-> S[i].offset,
                  sync |-> S[i].sync, bytes |-> S[i].bytes, rank |-> r]
      BY <2>2, <2>4
    <3>. QED BY <1>3, <2>5, <2>6, <3>1 DEF Sample
  <2>8. c[k].duration = S[i].duration /\ c[k].offset = S[i].offset /\ c[k].sync = S[i].sync
        /\ c[k].bytes = S[i].bytes
    BY <2>2, <2>4
  <2>. QED BY <2>7, <2>8 DEF i
<1>6. c \in Seq(Sample) /\ Len(c) = n
  <2>1. c \in [1..n -> Sample]
    BY <1>2, <1>5
  <2>. QED BY <1>3, <2>1
<1>. QED BY <1>5, <1>6 DEF CopyOf, c, n

LEMMA NoCopies ==
    ASSUME NEW track
    PROVE  Copies(track, {}) = <<>> /\ Copies(track, {}) \in Seq(Sample) /\ Len(Copies(track, {})) = 0
<1>1. Cardinality({}) = 0
  BY FS_EmptySet
<1>2. Copies(track, {}) = <<>>
  BY <1>1 DEF Copies
<1>3. <<>> \in Seq(Sample) /\ Len(<<>>) = 0
  OBVIOUS
<1>. QED BY <1>2, <1>3

(* The copy is as far apart as the original.                                  *)
LEMMA CopyReads ==
    ASSUME NEW S \in Seq(Sample), NEW c, NEW a \in 1..Len(S), NEW b \in a..Len(S), CopyOf(c, S, a, b),
           NEW track, Says(clip, track, S), Says(writer, track, c)
    PROVE  SameFrom(track, a)
<1>. DEFINE n == Len(c)
            B == Elapsed(S)
            D == Elapsed(c)
            old == clip.tables[track]
            new == writer.tables[track]
<1>0. Len(S) \in Nat /\ a \in Nat /\ b \in Nat /\ a <= b /\ b <= Len(S) /\ a >= 1 /\ c \in Seq(Sample)
      /\ n = (b - a) + 1 /\ n \in Nat
  BY SamplesAre DEF CopyOf
<1>1. /\ B \in [0..Len(S) -> Nat] /\ \A k \in 1..Len(S) : B[k] = B[k - 1] + S[k].duration
  BY ElapsedIs
<1>2. /\ D \in [0..n -> Nat] /\ D[0] = 0 /\ \A k \in 1..n : D[k] = D[k - 1] + c[k].duration
  BY <1>0, ElapsedIs
<1>3. SampleTime(old, a) = B[a - 1]
  BY DEF Says
<1>4. SampleCount(new) = n
  BY DEF Says
<1>. HIDE DEF n, B, D, old, new
<1>5. ASSUME NEW k \in 0..n - 1 PROVE D[k] = B[(a - 1) + k] - B[a - 1]
  <2>. DEFINE T == {i \in 0..n - 1 : D[i] = B[(a - 1) + i] - B[a - 1]}
  <2>1. 0 \in T
    <3>1. a - 1 \in 0..Len(S) /\ (a - 1) + 0 = a - 1 /\ 0 \in 0..n - 1
      BY <1>0
    <3>2. B[a - 1] \in Nat
      BY <1>1, <3>1
    <3>. QED BY <1>2, <3>1, <3>2
  <2>2. ASSUME NEW i \in 0 + 1..n - 1, i - 1 \in T PROVE i \in T
    <3>. DEFINE e == (a - 1) + i
    <3>1. i \in 1..n /\ e \in 1..Len(S) /\ e - 1 = (a - 1) + (i - 1) /\ a + i - 1 = e /\ i \in 0..n - 1
          /\ e - 1 \in 0..Len(S) /\ a - 1 \in 0..Len(S)
      BY <1>0
    <3>. HIDE DEF e
    <3>2. c[i].duration = S[e].duration
      <4>1. i \in 1..Len(c)
        BY <3>1 DEF n
      <4>. QED BY <3>1, <4>1 DEF CopyOf
    <3>3. D[i] = D[i - 1] + S[e].duration /\ B[e] = B[e - 1] + S[e].duration /\ D[i - 1] = B[e - 1] - B[a - 1]
      BY <1>1, <1>2, <2>2, <3>1, <3>2
    <3>4. S[e].duration \in Nat /\ B[e - 1] \in Nat /\ B[a - 1] \in Nat
      BY <1>1, <3>1, SamplesAre
    <3>5. D[i] = B[e] - B[a - 1]
      BY <3>3, <3>4, SMTT(30)
    <3>. QED BY <3>1, <3>5 DEF e
  <2>3. k \in T
    <3>. HIDE DEF T
    <3>1. \A i \in 0 + 1..n - 1 : i - 1 \in T => i \in T
      BY <2>2
    <3>2. 0 \in Int /\ n - 1 \in Int
      BY <1>0
    <3>. QED BY <2>1, <3>1, <3>2, Upwards
  <2>. QED BY <2>3
<1>6. ASSUME NEW id \in 1..n
      PROVE  LET was == ReadSample(clip, track, a + id - 1)
                 is == ReadSample(writer, track, id)
             IN  was # NoSample /\ is = [was EXCEPT !.start = @ - SampleTime(old, a)]
  <2>. DEFINE e == a + id - 1
              was == ReadSample(clip, track, e)
              is == ReadSample(writer, track, id)
  <2>1. e \in 1..Len(S) /\ id - 1 \in 0..n - 1 /\ (a - 1) + (id - 1) = e - 1
    BY <1>0
  <2>. HIDE DEF e
  <2>2. was = Reading(S, e)
    BY <2>1 DEF Says
  <2>3. is = Reading(c, id)
    BY DEF Says, n
  <2>4. /\ c[id].duration = S[e].duration /\ c[id].offset = S[e].offset
        /\ c[id].sync = S[e].sync /\ c[id].bytes = S[e].bytes
    BY DEF CopyOf, n, e
  <2>5. D[id - 1] = B[e - 1] - B[a - 1]
    BY <1>5, <2>1
  <2>. HIDE DEF was, is
  <2>6. was # NoSample
    <3>1. S[e].bytes \in Seq(Byte) /\ Len(S[e].bytes) # 0
      BY <2>1, SamplesAre
    <3>2. S[e].bytes # <<>>
      BY <3>1
    <3>3. was.bytes = S[e].bytes
      BY <2>2 DEF Reading
    <3>4. NoSample.bytes = <<>>
      BY DEF NoSample
    <3>. QED BY <3>2, <3>3, <3>4
  <2>7. is = [was EXCEPT !.start = @ - SampleTime(old, a)]
    <3>1. was = [bytes |-> S[e].bytes, start |-> B[e - 1], duration |-> S[e].duration,
                 offset |-> S[e].offset, sync |-> S[e].sync]
      BY <2>2 DEF Reading, B
    <3>2. is = [bytes |-> c[id].bytes, start |-> D[id - 1], duration |-> c[id].duration,
                offset |-> c[id].offset, sync |-> c[id].sync]
      BY <2>3 DEF Reading, D
    <3>3. is = [bytes |-> S[e].bytes, start |-> B[e - 1] - B[a - 1], duration |-> S[e].duration,
                offset |-> S[e].offset, sync |-> S[e].sync]
      BY <2>4, <2>5, <3>2
    <3>4. [was EXCEPT !.start = @ - SampleTime(old, a)] =
            [bytes |-> S[e].bytes, start |-> B[e - 1] - B[a - 1], duration |-> S[e].duration,
             offset |-> S[e].offset, sync |-> S[e].sync]
      BY <1>3, <3>1
    <3>. QED BY <3>3, <3>4
  <2>. QED BY <2>6, <2>7 DEF was, is, e
<1>. QED BY <1>4, <1>6 DEF SameFrom, Ids, old, new

LEMMA NoneReads ==
    ASSUME NEW c, Len(c) = 0, NEW track, Says(writer, track, c), NEW a
    PROVE  SameFrom(track, a)
<1>1. SampleCount(writer.tables[track]) = 0
  BY DEF Says
<1>2. Ids(writer.tables[track]) = {}
  BY <1>1 DEF Ids
<1>. QED BY <1>2 DEF SameFrom

--------------------------------------------------------------------------------
(* The snapshot, and what the muxer makes of it.                              *)
VideoPacket == [dts : Int, key : BOOLEAN, offset : Nat, size : Nat \ {0}]
AudioPacket == [dts : Int, size : Nat \ {0}]

InOrder(p) == \A k \in 1..Len(p) - 1 : p[k].dts <= p[k + 1].dts
IsSnapshot(s) ==
    /\ DOMAIN s \in {{"video"}, {"video", "audio"}}
    /\ s["video"] \in Seq(VideoPacket) /\ Len(s["video"]) >= 1 /\ s["video"][1].key /\ InOrder(s["video"])
    /\ "audio" \in DOMAIN s => s["audio"] \in Seq(AudioPacket) /\ Len(s["audio"]) >= 1

(* The samples of a track are numbered, and the first can be decoded alone.   *)
Numbered(S) ==
    /\ S \in Seq(Sample) /\ Len(S) >= 1 /\ S[1].sync
    /\ \A k \in 1..Len(S) : S[k].bytes[1].of = k

(* A frame lasts until the next, or its nominal time.                         *)
Paced(S) ==
    \A k \in 1..Len(S) - 1 :
        \/ S[k + 1].start > S[k].start /\ S[k].duration = S[k + 1].start - S[k].start
        \/ S[k + 1].start = S[k].start

Even(S) == \A k \in 1..Len(S) : S[k].duration = FrameTicks /\ S[k].sync

LEMMA BytesAre ==
    ASSUME NEW k \in Nat, NEW size \in Nat \ {0}
    PROVE  Bytes(k, size) \in Seq(Byte) \ {<<>>} /\ Bytes(k, size)[1].of = k
<1>. DEFINE b == Bytes(k, size)
<1>1. b = [i \in 1..size |-> [of |-> k, at |-> i]]
  BY DEF Bytes
<1>2. \A i \in 1..size : [of |-> k, at |-> i] \in Byte
  BY DEF Byte
<1>3. b \in [1..size -> Byte] /\ size \in Nat /\ 1 \in 1..size
  BY <1>1, <1>2
<1>4. b[1].of = k
  BY <1>1, <1>3
<1>. HIDE DEF b
<1>5. b \in Seq(Byte) /\ Len(b) = size
  BY <1>3
<1>6. b # <<>>
  BY <1>3, <1>5
<1>. QED BY <1>4, <1>5, <1>6 DEF b

LEMMA VideoSamplesAre ==
    ASSUME NEW p \in Seq(VideoPacket), Len(p) >= 1, p[1].key, InOrder(p)
    PROVE  /\ Numbered(VideoSamples(p)) /\ Paced(VideoSamples(p)) /\ Len(VideoSamples(p)) = Len(p)
<1>. DEFINE n == Len(p)
            S == VideoSamples(p)
            gap(k) == IF k < n THEN p[k + 1].dts - p[k].dts ELSE 0
            long(k) == IF gap(k) > 0 THEN gap(k) ELSE FrameTime
<1>1. n \in Nat /\ n >= 1 /\ \A k \in 1..n : p[k] \in VideoPacket
  BY LenProperties, ElementOfSeq
<1>2. \A k \in 1..n : p[k].dts \in Int /\ p[k].key \in BOOLEAN /\ p[k].offset \in Nat /\ p[k].size \in Nat \ {0}
  BY <1>1 DEF VideoPacket
<1>3. FrameTime \in Nat
  BY ClipFileAssumption
<1>4. S = [k \in 1..n |-> [start |-> p[k].dts, duration |-> long(k), offset |-> p[k].offset,
                           sync |-> p[k].key, bytes |-> Bytes(k, p[k].size), rank |-> p[k].dts]]
  BY DEF VideoSamples
<1>. HIDE DEF S, n
<1>5. ASSUME NEW k \in 1..n PROVE long(k) \in Nat
  <2>1. CASE k < n
    <3>1. k + 1 \in 1..n
      BY <1>1, <2>1
    <3>. DEFINE x == p[k].dts
                y == p[k + 1].dts
    <3>2. x \in Int /\ y \in Int /\ long(k) = IF y - x > 0 THEN y - x ELSE FrameTime
      BY <1>2, <2>1, <3>1
    <3>. HIDE DEF x, y, long
    <3>. QED BY <1>3, <3>2
  <2>2. CASE ~ (k < n)
    BY <1>3, <2>2
  <2>. QED BY <2>1, <2>2
<1>6. ASSUME NEW k \in 1..n
      PROVE  /\ S[k] \in Sample /\ S[k].start = p[k].dts /\ S[k].duration = long(k) /\ S[k].sync = p[k].key
             /\ S[k].bytes[1].of = k
  <2>. DEFINE b == Bytes(k, p[k].size)
              d == long(k)
  <2>1. S[k] = [start |-> p[k].dts, duration |-> d, offset |-> p[k].offset,
                sync |-> p[k].key, bytes |-> b, rank |-> p[k].dts]
    BY <1>4
  <2>0. k \in Nat /\ p[k].size \in Nat \ {0}
    BY <1>1, <1>2
  <2>2. b \in Seq(Byte) \ {<<>>} /\ b[1].of = k
    BY <2>0, BytesAre
  <2>3. d \in Nat
    BY <1>5
  <2>. HIDE DEF b, d
  <2>4. S[k] \in Sample
    BY <1>2, <2>1, <2>2, <2>3 DEF Sample
  <2>5. S[k].start = p[k].dts /\ S[k].duration = d /\ S[k].sync = p[k].key /\ S[k].bytes = b
    BY <2>1
  <2>. QED BY <2>2, <2>4, <2>5 DEF d
<1>7. S \in Seq(Sample) /\ Len(S) = n
  <2>1. S \in [1..n -> Sample]
    BY <1>4, <1>6
  <2>. QED BY <1>1, <2>1
<1>8. Numbered(S)
  <2>1. 1 \in 1..n
    BY <1>1
  <2>. QED BY <1>1, <1>6, <1>7, <2>1 DEF Numbered
<1>9. ASSUME NEW k \in 1..n - 1
      PROVE  \/ S[k + 1].start > S[k].start /\ S[k].duration = S[k + 1].start - S[k].start
             \/ S[k + 1].start = S[k].start
  <2>. DEFINE x == p[k].dts
              y == p[k + 1].dts
  <2>1. k \in 1..n /\ k + 1 \in 1..n /\ k < n
    BY <1>1
  <2>. DEFINE d == long(k)
  <2>2. x \in Int /\ y \in Int /\ x <= y
    BY <1>2, <2>1 DEF InOrder, n
  <2>5. d = IF y - x > 0 THEN y - x ELSE FrameTime
    BY <2>1
  <2>3. S[k].start = x /\ S[k + 1].start = y /\ S[k].duration = d
    BY <1>6, <2>1
  <2>. HIDE DEF x, y, d
  <2>6. y = x \/ y - x > 0
    BY <2>2
  <2>7. y - x > 0 => y > x
    BY <2>2
  <2>4. (y > x /\ d = y - x) \/ y = x
    BY <2>5, <2>6, <2>7
  <2>. QED BY <2>3, <2>4
<1>. QED BY <1>7, <1>8, <1>9 DEF Paced, S, n

(* A recursion over whole numbers has its values.                             *)
Unfolds(s, n, a, step) == \A k \in 1..n : s[k] = IF k = 1 THEN a ELSE step[<<k, s[k - 1]>>]
LEMMA Recursion ==
    ASSUME NEW n \in Nat, NEW a \in Int, NEW step \in [(1..n) \X Int -> Int]
    PROVE  \E s \in [1..n -> Int] : Unfolds(s, n, a, step)
<1>. USE DEF Unfolds
<1>. DEFINE Is(s, m) == \A k \in 1..m : s[k] = IF k = 1 THEN a ELSE step[<<k, s[k - 1]>>]
            T == {m \in 0..n : \E s \in [1..m -> Int] : Is(s, m)}
<1>1. 0 \in T
  <2>. DEFINE s == [k \in 1..0 |-> 0]
  <2>1. \A k \in 1..0 : FALSE
    OBVIOUS
  <2>2. s \in [1..0 -> Int]
    OBVIOUS
  <2>3. Is(s, 0)
    BY <2>1
  <2>4. 0 \in 0..n
    OBVIOUS
  <2>. HIDE DEF s, Is
  <2>. QED BY <2>2, <2>3, <2>4
<1>2. ASSUME NEW m \in 0 + 1..n, m - 1 \in T PROVE m \in T
  <2>1. PICK s \in [1..m - 1 -> Int] : Is(s, m - 1)
    BY <1>2
  <2>. DEFINE e == IF m = 1 THEN a ELSE step[<<m, s[m - 1]>>]
              u == [k \in 1..m |-> IF k = m THEN e ELSE s[k]]
  <2>2. e \in Int
    <3>1. CASE m = 1
      BY <3>1
    <3>2. CASE m # 1
      <4>1. m - 1 \in 1..m - 1 /\ m \in 1..n
        BY <3>2
      <4>2. s[m - 1] \in Int
        BY <4>1
      <4>. QED BY <3>2, <4>1, <4>2
    <3>. QED BY <3>1, <3>2
  <2>. HIDE DEF e
  <2>3. ASSUME NEW k \in 1..m PROVE u[k] \in Int
    <3>1. k = m \/ k \in 1..m - 1
      OBVIOUS
    <3>. QED BY <2>2, <3>1
  <2>4. ASSUME NEW k \in 1..m PROVE u[k] = IF k = 1 THEN a ELSE step[<<k, u[k - 1]>>]
    <3>1. k # 1 => u[k - 1] = s[k - 1]
      <4>1. k # 1 => k - 1 \in 1..m /\ k - 1 # m
        OBVIOUS
      <4>. QED BY <4>1
    <3>2. CASE k = m
      <4>1. u[k] = e
        BY <3>2
      <4>. HIDE DEF u
      <4>. QED BY <3>1, <3>2, <4>1 DEF e
    <3>3. CASE k # m
      <4>1. k \in 1..m - 1 /\ u[k] = s[k]
        BY <3>3
      <4>2. s[k] = IF k = 1 THEN a ELSE step[<<k, s[k - 1]>>]
        BY <2>1, <4>1
      <4>. HIDE DEF u
      <4>. QED BY <3>1, <4>1, <4>2
    <3>. QED BY <3>2, <3>3
  <2>5. u \in [1..m -> Int]
    BY <2>3
  <2>. HIDE DEF u
  <2>6. Is(u, m)
    BY <2>4
  <2>7. m \in 0..n
    OBVIOUS
  <2>. HIDE DEF Is
  <2>. QED BY <2>5, <2>6, <2>7
<1>3. n \in T
  <2>. HIDE DEF T
  <2>1. \A m \in 0 + 1..n : m - 1 \in T => m \in T
    BY <1>2
  <2>2. 0 \in Int /\ n \in Int /\ n \in 0..n
    OBVIOUS
  <2>. QED BY <1>1, <2>1, <2>2, Upwards
<1>. QED BY <1>3

LEMMA AudioSamplesAre ==
    ASSUME NEW p \in Seq(AudioPacket), Len(p) >= 1
    PROVE  Numbered(AudioSamples(p)) /\ Even(AudioSamples(p)) /\ Len(AudioSamples(p)) = Len(p)
<1>. DEFINE n == Len(p)
            S == AudioSamples(p)
            ticks(k) == (p[k].dts * AudioRate) \div Second
            next(k, x) == IF ticks(k) > (x + FrameTicks) + PauseTicks THEN ticks(k) ELSE x + FrameTicks
            Is(s) == s = [k \in 1..n |-> IF k = 1 THEN ticks(1)
                                         ELSE LET expected == s[k - 1] + FrameTicks
                                              IN  IF ticks(k) > expected + PauseTicks THEN ticks(k) ELSE expected]
            start == CHOOSE s : Is(s)
<1>1. n \in Nat /\ n >= 1 /\ \A k \in 1..n : p[k] \in AudioPacket
  BY LenProperties, ElementOfSeq
<1>2. \A k \in 1..n : p[k].dts \in Int /\ p[k].size \in Nat \ {0}
  BY <1>1 DEF AudioPacket
<1>3. FrameTicks \in Nat /\ PauseTicks \in Nat /\ AudioRate \in Nat /\ Second \in Nat /\ Second > 0
  BY ClipFileAssumption
<1>4. S = [k \in 1..n |-> [start |-> start[k], duration |-> FrameTicks, offset |-> 0, sync |-> TRUE,
                           bytes |-> Bytes(k, p[k].size), rank |-> p[k].dts]]
  BY DEF AudioSamples
<1>. HIDE DEF S, n
<1>5. ASSUME NEW k \in 1..n PROVE ticks(k) \in Int
  <2>. DEFINE x == p[k].dts * AudioRate
  <2>1. x \in Int
    BY <1>2, <1>3
  <2>2. ticks(k) = x \div Second
    OBVIOUS
  <2>. HIDE DEF x, ticks
  <2>3. x \div Second \in Int
    BY <1>3, <2>1
  <2>. QED BY <2>2, <2>3
<1>. HIDE DEF ticks
<1>6. ASSUME NEW k \in 1..n, NEW x \in Int PROVE next(k, x) \in Int
  BY <1>3, <1>5
<1>7. PICK u \in [1..n -> Int] : \A k \in 1..n : u[k] = IF k = 1 THEN ticks(1) ELSE next(k, u[k - 1])
  <2>. DEFINE step == [q \in (1..n) \X Int |-> next(q[1], q[2])]
  <2>. HIDE DEF next
  <2>1. \A q \in (1..n) \X Int : q[1] \in 1..n /\ q[2] \in Int
    OBVIOUS
  <2>2. step \in [(1..n) \X Int -> Int]
    BY <1>6, <2>1
  <2>3. \A k \in 1..n : \A x \in Int : step[<<k, x>>] = next(k, x)
    OBVIOUS
  <2>. HIDE DEF step
  <2>4. ticks(1) \in Int
    <3>1. 1 \in 1..n
      BY <1>1
    <3>. QED BY <1>5, <3>1
  <2>5. PICK u \in [1..n -> Int] : \A k \in 1..n : u[k] = IF k = 1 THEN ticks(1) ELSE step[<<k, u[k - 1]>>]
    <3>. DEFINE a == ticks(1)
    <3>1. a \in Int
      BY <2>4
    <3>. HIDE DEF a
    <3>2. \E u \in [1..n -> Int] : Unfolds(u, n, a, step)
      BY <1>1, <2>2, <3>1, Recursion
    <3>. QED BY <3>2 DEF a, Unfolds
  <2>6. ASSUME NEW k \in 1..n PROVE u[k] = IF k = 1 THEN ticks(1) ELSE next(k, u[k - 1])
    <3>1. k # 1 => u[k - 1] \in Int
      <4>1. k # 1 => k - 1 \in 1..n
        BY <1>1
      <4>. QED BY <2>5, <4>1
    <3>. QED BY <2>3, <2>5, <3>1
  <2>. QED BY <2>6
<1>8. Is(u)
  <2>1. u = [k \in 1..n |-> u[k]]
    OBVIOUS
  <2>. QED BY <1>7, <2>1
<1>9. Is(start)
  <2>. HIDE DEF Is
  <2>. QED BY <1>8
<1>. HIDE DEF start
<1>10. \A k \in 1..n : start[k] \in Int
  <2>1. \A k \in 1..n : start[k] = IF k = 1 THEN ticks(1) ELSE next(k, start[k - 1])
    BY <1>9
  <2>. HIDE DEF next, Is
  <2>. DEFINE T == {k \in 1..n : start[k] = u[k]}
  <2>2. 1 \in 1..n
    BY <1>1
  <2>3. 1 \in T
    BY <1>7, <2>1, <2>2
  <2>4. ASSUME NEW k \in 1 + 1..n, k - 1 \in T PROVE k \in T
    <3>1. k \in 1..n /\ k # 1 /\ start[k - 1] = u[k - 1]
      BY <1>1, <2>4
    <3>2. start[k] = next(k, start[k - 1]) /\ u[k] = next(k, u[k - 1])
      BY <1>7, <2>1, <3>1
    <3>. QED BY <3>1, <3>2
  <2>5. \A k \in 1..n : k \in T
    <3>. HIDE DEF T
    <3>1. \A k \in 1 + 1..n : k - 1 \in T => k \in T
      BY <2>4
    <3>2. 1 \in Int /\ n \in Int
      BY <1>1
    <3>. QED BY <2>3, <3>1, <3>2, Upwards
  <2>. QED BY <1>7, <2>5
<1>. HIDE DEF Is, next
<1>11. ASSUME NEW k \in 1..n
       PROVE  S[k] \in Sample /\ S[k].duration = FrameTicks /\ S[k].sync /\ S[k].bytes[1].of = k
  <2>. DEFINE b == Bytes(k, p[k].size)
  <2>1. S[k] = [start |-> start[k], duration |-> FrameTicks, offset |-> 0, sync |-> TRUE,
                bytes |-> b, rank |-> p[k].dts]
    BY <1>4
  <2>0. k \in Nat /\ p[k].size \in Nat \ {0}
    BY <1>1, <1>2
  <2>2. b \in Seq(Byte) \ {<<>>} /\ b[1].of = k
    BY <2>0, BytesAre
  <2>. HIDE DEF b
  <2>3. S[k] \in Sample
    BY <1>2, <1>3, <1>10, <2>1, <2>2 DEF Sample
  <2>4. S[k].duration = FrameTicks /\ S[k].sync = TRUE /\ S[k].bytes = b
    BY <2>1
  <2>. QED BY <2>2, <2>3, <2>4
<1>12. S \in Seq(Sample) /\ Len(S) = n
  <2>1. S \in [1..n -> Sample]
    BY <1>4, <1>11
  <2>. QED BY <1>1, <2>1
<1>13. 1 \in 1..n
  BY <1>1
<1>. QED BY <1>1, <1>11, <1>12, <1>13 DEF Numbered, Even, S, n

(* What Save puts together is a snapshot.                                     *)
LEMMA VideoOfIs ==
    ASSUME NEW n \in Nat, n >= 1, NEW kinds \in [1..n -> VideoKinds], kinds[1].key,
           NEW steps \in [1..n - 1 -> VideoSteps]
    PROVE  LET p == VideoOf(kinds, steps)
           IN  p \in Seq(VideoPacket) /\ Len(p) = n /\ p[1].key /\ InOrder(p)
<1>. DEFINE p == VideoOf(kinds, steps)
            N == n - 1
            P == UpTo(steps, N)
<1>1. N \in Nat /\ steps \in [1..N -> Nat] /\ Len(kinds) = n
  BY ClipFileAssumption
<1>2. \A k \in 0..N : Sum(steps, k) = P[k] /\ Sum(steps, k) \in Nat
  BY <1>1, SumsOf
<1>3. \A k \in 1..N : P[k] = P[k - 1] + steps[k]
  BY <1>1, UpToIs DEF AddsUp
<1>4. p = [k \in 1..n |-> [dts |-> Sum(steps, k - 1), key |-> kinds[k].key,
                           offset |-> kinds[k].offset, size |-> kinds[k].size]]
  BY <1>1 DEF VideoOf
<1>. HIDE DEF p, P
<1>5. ASSUME NEW k \in 1..n PROVE p[k] \in VideoPacket /\ p[k].dts = P[k - 1] /\ p[k].key = kinds[k].key
  <2>1. k - 1 \in 0..N
    OBVIOUS
  <2>. DEFINE d == Sum(steps, k - 1)
              kind == kinds[k]
  <2>2. d \in Nat /\ d = P[k - 1]
    BY <1>2, <2>1
  <2>3. kind \in VideoKinds
    OBVIOUS
  <2>4. p[k] = [dts |-> d, key |-> kind.key, offset |-> kind.offset, size |-> kind.size]
    BY <1>4
  <2>. HIDE DEF d, kind
  <2>5. kind.key \in BOOLEAN /\ kind.size \in Nat \ {0} /\ kind.offset \in Nat
    BY <2>3, ClipFileAssumption
  <2>6. p[k] \in VideoPacket /\ p[k].dts = d /\ p[k].key = kind.key
    BY <2>2, <2>4, <2>5 DEF VideoPacket
  <2>. QED BY <2>2, <2>6 DEF kind
<1>6. p \in Seq(VideoPacket) /\ Len(p) = n
  <2>1. p \in [1..n -> VideoPacket]
    BY <1>4, <1>5
  <2>. QED BY <2>1
<1>7. p[1].key
  <2>1. 1 \in 1..n
    OBVIOUS
  <2>. QED BY <1>5, <2>1
<1>8. ASSUME NEW k \in 1..n - 1 PROVE p[k].dts <= p[k + 1].dts
  <2>1. k \in 1..n /\ k + 1 \in 1..n /\ k \in 1..N /\ (k + 1) - 1 = k /\ k - 1 \in 0..N /\ k \in 0..N
    OBVIOUS
  <2>. DEFINE x == P[k - 1]
              y == P[k]
              z == steps[k]
  <2>2. p[k].dts = x /\ p[k + 1].dts = y
    BY <1>5, <2>1
  <2>3. y = x + z
    BY <1>3, <2>1
  <2>4. x \in Nat /\ z \in Nat
    BY <1>1, <1>2, <2>1
  <2>. HIDE DEF x, y, z
  <2>5. x <= y
    BY <2>3, <2>4
  <2>. QED BY <2>2, <2>5
<1>9. InOrder(p)
  BY <1>6, <1>8 DEF InOrder
<1>. QED BY <1>6, <1>7, <1>9 DEF p

LEMMA AudioOfIs ==
    ASSUME NEW m \in Nat, NEW first \in AudioStarts, NEW pace \in [1..m -> AudioSteps]
    PROVE  AudioOf(first, pace) \in Seq(AudioPacket) /\ Len(AudioOf(first, pace)) = m
<1>. DEFINE p == AudioOf(first, pace)
<1>1. pace \in [1..m -> Nat] /\ Len(pace) = m /\ first \in Int
  BY ClipFileAssumption
<1>2. \A k \in 0..m : Sum(pace, k) \in Nat
  BY <1>1, SumsOf
<1>3. p = [k \in 1..m |-> [dts |-> first + Sum(pace, k - 1), size |-> 1]]
  BY <1>1 DEF AudioOf
<1>. HIDE DEF p
<1>4. ASSUME NEW k \in 1..m PROVE p[k] \in AudioPacket
  <2>1. k - 1 \in 0..m
    OBVIOUS
  <2>. DEFINE d == Sum(pace, k - 1)
  <2>2. d \in Nat
    BY <1>2, <2>1
  <2>3. p[k] = [dts |-> first + d, size |-> 1]
    BY <1>3
  <2>. HIDE DEF d
  <2>4. first + d \in Int /\ 1 \in Nat \ {0}
    BY <1>1, <2>2
  <2>. QED BY <2>3, <2>4 DEF AudioPacket
<1>5. p \in [1..m -> AudioPacket]
  BY <1>3, <1>4
<1>. QED BY <1>5 DEF p

(* Shifting a snapshot in time leaves it one.                                 *)
Shifted(p, shift) == [k \in 1..Len(p) |-> [p[k] EXCEPT !.dts = @ - shift]]

LEMMA ShiftedVideo ==
    ASSUME NEW p \in Seq(VideoPacket), Len(p) >= 1, p[1].key, InOrder(p), NEW shift \in Int
    PROVE  LET q == Shifted(p, shift)
           IN  q \in Seq(VideoPacket) /\ Len(q) = Len(p) /\ q[1].key /\ InOrder(q)
<1>. DEFINE q == Shifted(p, shift)
            n == Len(p)
<1>1. n \in Nat /\ 1 \in 1..n /\ \A k \in 1..n : p[k] \in VideoPacket
  BY LenProperties, ElementOfSeq
<1>2. \A k \in 1..n : p[k].dts \in Int
  BY <1>1 DEF VideoPacket
<1>3. q = [k \in 1..n |-> [p[k] EXCEPT !.dts = @ - shift]]
  BY DEF Shifted
<1>9. \A k \in 1..n - 1 : p[k].dts <= p[k + 1].dts
  BY DEF InOrder
<1>. HIDE DEF q, n
<1>4. ASSUME NEW k \in 1..n
      PROVE  q[k] \in VideoPacket /\ q[k].dts = p[k].dts - shift /\ q[k].key = p[k].key
  <2>. DEFINE r == p[k]
  <2>1. r \in VideoPacket /\ q[k] = [r EXCEPT !.dts = @ - shift]
    BY <1>1, <1>3
  <2>. HIDE DEF r
  <2>3. r.dts \in Int /\ r.key \in BOOLEAN /\ r.offset \in Nat /\ r.size \in Nat \ {0}
        /\ r = [dts |-> r.dts, key |-> r.key, offset |-> r.offset, size |-> r.size]
    BY <2>1 DEF VideoPacket
  <2>. DEFINE d == r.dts - shift
  <2>4. q[k] = [dts |-> d, key |-> r.key, offset |-> r.offset, size |-> r.size]
    BY <2>1, <2>3
  <2>5. d \in Int
    BY <2>3
  <2>. HIDE DEF d
  <2>6. q[k] \in VideoPacket
    BY <2>3, <2>4, <2>5 DEF VideoPacket
  <2>7. q[k].dts = d /\ q[k].key = r.key
    BY <2>4
  <2>. QED BY <2>6, <2>7 DEF r, d
<1>5. q \in Seq(VideoPacket) /\ Len(q) = n
  <2>1. q \in [1..n -> VideoPacket]
    BY <1>3, <1>4
  <2>. QED BY <1>1, <2>1
<1>6. q[1].key
  BY <1>1, <1>4 DEF n
<1>7. ASSUME NEW k \in 1..n - 1 PROVE q[k].dts <= q[k + 1].dts
  <2>. DEFINE x == p[k].dts
              y == p[k + 1].dts
  <2>1. k \in 1..n /\ k + 1 \in 1..n
    BY <1>1
  <2>2. x \in Int /\ y \in Int /\ x <= y
    BY <1>2, <1>9, <2>1
  <2>3. q[k].dts = x - shift /\ q[k + 1].dts = y - shift
    BY <1>4, <2>1
  <2>. HIDE DEF x, y
  <2>4. x - shift <= y - shift
    BY <2>2
  <2>. QED BY <2>3, <2>4
<1>8. InOrder(q)
  BY <1>5, <1>7 DEF InOrder
<1>. QED BY <1>5, <1>6, <1>8 DEF q, n

LEMMA ShiftedAudio ==
    ASSUME NEW p \in Seq(AudioPacket), NEW shift \in Int
    PROVE  Shifted(p, shift) \in Seq(AudioPacket) /\ Len(Shifted(p, shift)) = Len(p)
<1>. DEFINE q == Shifted(p, shift)
            n == Len(p)
<1>1. n \in Nat /\ \A k \in 1..n : p[k] \in AudioPacket
  BY LenProperties, ElementOfSeq
<1>3. q = [k \in 1..n |-> [p[k] EXCEPT !.dts = @ - shift]]
  BY DEF Shifted
<1>. HIDE DEF q, n
<1>4. ASSUME NEW k \in 1..n PROVE q[k] \in AudioPacket
  <2>. DEFINE r == p[k]
  <2>1. r \in AudioPacket /\ q[k] = [r EXCEPT !.dts = @ - shift]
    BY <1>1, <1>3
  <2>. HIDE DEF r
  <2>. QED BY <2>1 DEF AudioPacket
<1>5. q \in [1..n -> AudioPacket]
  BY <1>3, <1>4
<1>. QED BY <1>1, <1>5 DEF q, n

(* The earliest of three times is one.                                        *)
LEMMA Earliest ==
    ASSUME NEW a \in Int, NEW b \in Int, NEW S, S = {0, a, b}
    PROVE  Lowest(S) \in Int
<1>1. \E x \in S : \A y \in S : x <= y
  <2>1. \/ 0 <= a /\ 0 <= b
        \/ a <= 0 /\ a <= b
        \/ b <= 0 /\ b <= a
    OBVIOUS
  <2>2. CASE 0 <= a /\ 0 <= b
    BY <2>2
  <2>3. CASE a <= 0 /\ a <= b
    BY <2>3
  <2>4. CASE b <= 0 /\ b <= a
    BY <2>4
  <2>. QED BY <2>1, <2>2, <2>3, <2>4
<1>2. Lowest(S) \in S
  BY <1>1 DEF Lowest
<1>. QED BY <1>2

(* What the muxer hands to the writer.                                        *)
Ready(all) ==
    /\ Tracks(all) /\ DOMAIN all \in {{"video"}, {"video", "audio"}}
    /\ Numbered(all["video"]) /\ Paced(all["video"])
    /\ "audio" \in DOMAIN all => Numbered(all["audio"]) /\ Even(all["audio"])

LEMMA PreparedIs ==
    ASSUME NEW s, IsSnapshot(s)
    PROVE  Ready(Prepared(s)) /\ DOMAIN Prepared(s) = DOMAIN s
<1>. DEFINE D == DOMAIN s
            S == {0} \cup {s[track][1].dts : track \in D}
            shift == Lowest(S)
            all == Prepared(s)
            v == s["video"]
            u == s["audio"]
<1>1. D \in {{"video"}, {"video", "audio"}} /\ "video" \in D
  BY DEF IsSnapshot
<1>2. v \in Seq(VideoPacket) /\ Len(v) >= 1 /\ v[1].key /\ InOrder(v)
  BY DEF IsSnapshot
<1>3. "audio" \in D => u \in Seq(AudioPacket) /\ Len(u) >= 1
  BY DEF IsSnapshot
<1>4. shift \in Int
  <2>. DEFINE a == v[1].dts
  <2>1. a \in Int
    <3>1. v[1] \in VideoPacket
      BY <1>2, LenProperties, ElementOfSeq
    <3>. QED BY <3>1 DEF VideoPacket
  <2>2. CASE D = {"video"}
    <3>. HIDE DEF D
    <3>1. S = {0} \cup {s[track][1].dts : track \in {"video"}}
      BY <2>2
    <3>2. S = {0, a, a}
      BY <3>1
    <3>. HIDE DEF S, a
    <3>. QED BY <2>1, <3>2, Earliest
  <2>3. CASE D = {"video", "audio"}
    <3>. DEFINE b == u[1].dts
    <3>1. b \in Int
      <4>1. u[1] \in AudioPacket
        BY <1>3, <2>3, LenProperties, ElementOfSeq
      <4>. QED BY <4>1 DEF AudioPacket
    <3>. HIDE DEF D
    <3>2. S = {0} \cup {s[track][1].dts : track \in {"video", "audio"}}
      BY <2>3
    <3>3. S = {0, a, b}
      BY <3>2
    <3>. HIDE DEF S, a, b
    <3>. QED BY <2>1, <3>1, <3>3, Earliest
  <2>. QED BY <1>1, <2>2, <2>3
<1>5. Normalized(s) = [track \in D |-> Shifted(s[track], shift)]
  BY DEF Normalized, Shifted
<1>. HIDE DEF D, S, shift
<1>6. all = [track \in D |-> IF track = "video" THEN VideoSamples(Shifted(s[track], shift))
                             ELSE AudioSamples(Shifted(s[track], shift))]
  <2>1. \A track \in D : Normalized(s)[track] = Shifted(s[track], shift)
    BY <1>5
  <2>. QED BY <2>1 DEF Prepared, D
<1>. HIDE DEF all, u, v
<1>7. all["video"] = VideoSamples(Shifted(v, shift)) /\ DOMAIN all = D
  BY <1>1, <1>6 DEF v
<1>8. "audio" \in D => all["audio"] = AudioSamples(Shifted(u, shift))
  BY <1>6 DEF u
<1>9. Numbered(all["video"]) /\ Paced(all["video"])
  <2>. DEFINE p == Shifted(v, shift)
  <2>1. p \in Seq(VideoPacket) /\ Len(p) >= 1 /\ p[1].key /\ InOrder(p)
    BY <1>2, <1>4, ShiftedVideo
  <2>. HIDE DEF p
  <2>2. Numbered(VideoSamples(p)) /\ Paced(VideoSamples(p))
    BY <2>1, VideoSamplesAre
  <2>. QED BY <1>7, <2>2 DEF p
<1>10. "audio" \in D => Numbered(all["audio"]) /\ Even(all["audio"])
  <2>. DEFINE p == Shifted(u, shift)
  <2>. HAVE "audio" \in D
  <2>1. p \in Seq(AudioPacket) /\ Len(p) >= 1
    BY <1>3, <1>4, ShiftedAudio
  <2>. HIDE DEF p
  <2>2. Numbered(AudioSamples(p)) /\ Even(AudioSamples(p))
    BY <2>1, AudioSamplesAre
  <2>. QED BY <1>8, <2>2 DEF p
<1>11. Tracks(all)
  <2>1. ASSUME NEW track \in D PROVE all[track] \in Seq(Sample)
    <3>1. track = "video" \/ track = "audio"
      BY <1>1
    <3>. QED BY <1>9, <1>10, <3>1 DEF Numbered
  <2>. QED BY <1>6, <1>7, <2>1 DEF Tracks
<1>. QED BY <1>1, <1>7, <1>9, <1>10, <1>11 DEF Ready, all, D

(* What the writer completed the reader reads.                                *)
Playable(all) == Tracks(all) /\ \A track \in DOMAIN all : Len(all[track]) >= 1 => all[track][1].sync

LEMMA CompleteSays ==
    ASSUME NEW all, Playable(all), NEW w, Complete(w, all), NEW track \in DOMAIN all
    PROVE  all[track] \in Seq(Sample) /\ Says(w, track, all[track])
<1>. DEFINE S == all[track]
<1>1. S \in Seq(Sample) /\ (Len(S) >= 1 => S[1].sync)
  BY DEF Playable, Tracks
<1>2. PICK n \in Nat : TableHolds(w.mdat, w.tables[track], S, n)
  BY DEF Complete, Written
<1>3. w.tables[track].next = Len(S) + 1 /\ w.tables[track].samples = 0
  BY DEF Complete
<1>4. w.tables[track].next = n + 1
  BY <1>2 DEF TableHolds
<1>. HIDE DEF S
<1>5. Len(S) \in Nat
  BY <1>1
<1>6. n = Len(S)
  BY <1>3, <1>4, <1>5
<1>7. TableHolds(w.mdat, w.tables[track], S, Len(S))
  BY <1>2, <1>6
<1>. QED BY <1>1, <1>3, <1>7, Reads DEF S

LEMMA ReadySound ==
    ASSUME NEW all, Ready(all)
    PROVE  Playable(all)
<1>1. ASSUME NEW track \in DOMAIN all PROVE all[track][1].sync
  <2>1. track = "video" \/ track = "audio"
    BY DEF Ready
  <2>. QED BY <2>1 DEF Ready, Numbered
<1>. QED BY <1>1 DEF Playable, Ready

(* A frame is read at its decode time from the first, or later.               *)
OnTime(S, id) ==
    LET due == S[id].start - S[1].start
    IN  \/ Elapsed(S)[id - 1] = due
        \/ /\ Elapsed(S)[id - 1] > due
           /\ \E k \in 1..id - 1 : S[k].start = S[k + 1].start

LEMMA DueTimes ==
    ASSUME NEW S \in Seq(Sample), Paced(S)
    PROVE  \A id \in 1..Len(S) : OnTime(S, id)
<1>. DEFINE n == Len(S)
            B == Elapsed(S)
            T == {id \in 1..n : OnTime(S, id)}
<1>1. n \in Nat /\ \A k \in 1..n : S[k].start \in Int /\ S[k].duration \in Nat
  <2>1. n \in Nat /\ \A k \in 1..n : S[k] \in Sample
    BY LenProperties, ElementOfSeq
  <2>. QED BY <2>1 DEF Sample
<1>2. B \in [0..n -> Nat] /\ B[0] = 0 /\ \A k \in 1..n : B[k] = B[k - 1] + S[k].duration
  BY ElapsedIs
<1>3. \A k \in 1..n - 1 : \/ S[k + 1].start > S[k].start /\ S[k].duration = S[k + 1].start - S[k].start
                          \/ S[k + 1].start = S[k].start
  BY DEF Paced
<1>. HIDE DEF n
<1>4. 1 \in 1..n => 1 \in T
  <2>. HAVE 1 \in 1..n
  <2>. DEFINE x == S[1].start
  <2>1. x \in Int
    BY <1>1
  <2>. HIDE DEF x
  <2>2. x - x = 0
    BY <2>1
  <2>3. B[1 - 1] = 0
    BY <1>2
  <2>. HIDE DEF B
  <2>4. OnTime(S, 1)
    BY <2>2, <2>3 DEF OnTime, B, x
  <2>. QED BY <2>4
<1>5. ASSUME NEW id \in 1 + 1..n, id - 1 \in T PROVE id \in T
  <2>. DEFINE e == id - 1
              x == S[e].start
              y == S[id].start
              z == S[1].start
              d == S[e].duration
              b == B[e - 1]
              c == B[e]
  <2>1. e \in 1..n - 1 /\ e \in 1..n /\ e + 1 = id /\ id \in 1..n /\ 1 \in 1..n /\ e - 1 \in 0..n /\ e \in 1..id - 1
    BY <1>1
  <2>2. x \in Int /\ y \in Int /\ z \in Int /\ d \in Nat
    BY <1>1, <2>1
  <2>3. c = b + d /\ b \in Nat
    BY <1>2, <2>1
  <2>4. \/ y > x /\ d = y - x
        \/ y = x
    BY <1>3, <2>1
  <2>5. OnTime(S, e)
    BY <1>5
  <2>. HIDE DEF B, e
  <2>6. \/ b = x - z
        \/ b > x - z /\ \E k \in 1..e - 1 : S[k].start = S[k + 1].start
    BY <2>5 DEF OnTime, B
  <2>7. (\E k \in 1..e - 1 : S[k].start = S[k + 1].start) => \E k \in 1..id - 1 : S[k].start = S[k + 1].start
    <3>1. 1..e - 1 \subseteq 1..id - 1
      BY <1>1, <2>1
    <3>. QED BY <3>1
  <2>8. y = x => \E k \in 1..id - 1 : S[k].start = S[k + 1].start
    BY <2>1
  <2>. DEFINE repeated == \E k \in 1..id - 1 : S[k].start = S[k + 1].start
  <2>9. (b = x - z \/ (b > x - z /\ repeated)) /\ (y = x => repeated)
    BY <2>6, <2>7, <2>8
  <2>. HIDE DEF x, y, z, d, b, c, repeated
  <2>10. \/ c = y - z
         \/ c > y - z /\ repeated
    <3>1. CASE y = x
      BY <2>2, <2>3, <2>9, <3>1
    <3>2. CASE y > x /\ d = y - x
      <4>1. c - b = y - x
        BY <2>2, <2>3, <3>2
      <4>2. CASE b = x - z
        BY <2>2, <2>3, <3>2, <4>2
      <4>3. CASE b > x - z /\ repeated
        BY <2>2, <2>3, <3>2, <4>3
      <4>. QED BY <2>9, <4>2, <4>3
    <3>. QED BY <2>4, <3>1, <3>2
  <2>11. c = Elapsed(S)[id - 1]
    BY DEF c, B, e
  <2>12. OnTime(S, id)
    BY <2>10, <2>11 DEF OnTime, y, z, repeated
  <2>. QED BY <2>1, <2>12
<1>6. \A id \in 1..n : id \in T
  <2>. HIDE DEF T
  <2>1. CASE 1 \in 1..n
    <3>1. \A id \in 1 + 1..n : id - 1 \in T => id \in T
      BY <1>5
    <3>2. 1 \in Int /\ n \in Int /\ 1 \in T
      BY <1>1, <1>4, <2>1
    <3>. QED BY <3>1, <3>2, Upwards
  <2>2. CASE 1 \notin 1..n
    BY <1>1, <2>2
  <2>. QED BY <2>1, <2>2
<1>. QED BY <1>6 DEF n

(* So the clip is true to the snapshot.                                       *)
LEMMA ClipTrue ==
    ASSUME IsSnapshot(snapshot), Complete(clip, Prepared(snapshot))
    PROVE  FileTrue
<1>. DEFINE all == Prepared(snapshot)
<1>1. Ready(all) /\ Complete(clip, all)
  BY PreparedIs
<1>. HIDE DEF all
<1>2. Playable(all) /\ "video" \in DOMAIN all
  BY <1>1, ReadySound DEF Ready
<1>3. \A track \in DOMAIN all : all[track] \in Seq(Sample) /\ Says(clip, track, all[track])
  BY <1>1, <1>2, CompleteSays
<1>4. DOMAIN clip.tables = DOMAIN all
  BY <1>1 DEF Complete, Written, File
<1>5. ASSUME NEW track \in DOMAIN all
      PROVE  /\ SampleCount(clip.tables[track]) = Len(all[track])
             /\ \A id \in Ids(clip.tables[track]) : Answers(track, id, all[track][id])
  <2>. DEFINE S == all[track]
  <2>1. S \in Seq(Sample) /\ SampleCount(clip.tables[track]) = Len(S)
    BY <1>3 DEF Says
  <2>2. ASSUME NEW id \in Ids(clip.tables[track]) PROVE Answers(track, id, S[id])
    <3>1. id \in 1..Len(S)
      BY <2>1, <2>2 DEF Ids
    <3>2. ReadSample(clip, track, id) = Reading(S, id)
      BY <1>3, <3>1 DEF Says
    <3>. DEFINE r == ReadSample(clip, track, id)
                s == S[id]
    <3>3. s \in Sample
      BY <2>1, <3>1, ElementOfSeq
    <3>4. DOMAIN r = {"bytes", "start", "duration", "offset", "sync"} /\ r.bytes = s.bytes
      BY <3>2 DEF Reading
    <3>5. r.duration = s.duration /\ r.offset = s.offset /\ r.sync = s.sync
      BY <3>2 DEF Reading
    <3>. HIDE DEF r, s
    <3>6. s.bytes # <<>>
      BY <3>3 DEF Sample
    <3>7. r # NoSample
      BY <3>4, <3>6 DEF NoSample
    <3>. QED BY <3>4, <3>5, <3>7 DEF Answers, r, s
  <2>. QED BY <2>1, <2>2
<1>6. ASSUME NEW id \in Ids(clip.tables.video)
      PROVE  LET due == all.video[id].start - all.video[1].start
             IN  \/ SampleTime(clip.tables.video, id) = due
                 \/ /\ SampleTime(clip.tables.video, id) > due
                    /\ \E k \in 1..id - 1 : all.video[k].start = all.video[k + 1].start
  <2>. DEFINE S == all["video"]
  <2>1. S \in Seq(Sample) /\ SampleCount(clip.tables["video"]) = Len(S) /\ Paced(S)
    BY <1>1, <1>2, <1>3 DEF Says, Ready
  <2>2. id \in 1..Len(S)
    BY <2>1 DEF Ids
  <2>3. SampleTime(clip.tables["video"], id) = Elapsed(S)[id - 1]
    BY <1>2, <1>3, <2>2 DEF Says
  <2>4. OnTime(S, id)
    BY <2>1, <2>2, DueTimes
  <2>. QED BY <2>3, <2>4 DEF OnTime
<1>. QED BY <1>4, <1>5, <1>6 DEF FileTrue, all

--------------------------------------------------------------------------------
(* A file in the making: what is left of a track goes on where its table ends. *)
Remains(rest, next, S) ==
    /\ rest \in Seq(Sample) /\ next \in Nat \ {0} /\ Len(rest) + (next - 1) = Len(S)
    /\ \A i \in 1..Len(rest) : rest[i] = S[(next - 1) + i]

Progress(all, w, rest) ==
    /\ Playable(all) /\ DOMAIN all \subseteq {"video", "audio"}
    /\ rest \in [DOMAIN all -> Seq(Sample)] /\ Written(w, all)
    /\ \A track \in DOMAIN all : Remains(rest[track], w.tables[track].next, all[track])

NewFile(samples) ==
    [mdat |-> <<>>, tables |-> [track \in DOMAIN samples |-> EmptyTable(Rate(track))]]

LEMMA ProgressStarts ==
    ASSUME NEW all, Playable(all), DOMAIN all \subseteq {"video", "audio"}
    PROVE  Progress(all, NewFile(all), all)
<1>. DEFINE w == NewFile(all)
            T == DOMAIN all
<1>1. \A track \in T : all[track] \in Seq(Sample)
  BY DEF Playable, Tracks
<1>2. all \in [T -> Seq(Sample)]
  BY DEF Playable, Tracks
<1>3. ASSUME NEW track \in T PROVE Rate(track) \in Nat
  BY ClipFileAssumption DEF Rate
<1>4. w.mdat = <<>> /\ DOMAIN w = {"mdat", "tables"} /\ w.tables = [track \in T |-> EmptyTable(Rate(track))]
      /\ w = [mdat |-> w.mdat, tables |-> w.tables]
  BY DEF NewFile
<1>. HIDE DEF w, T
<1>5. ASSUME NEW track \in T PROVE TableHolds(w.mdat, w.tables[track], all[track], 0)
  BY <1>1, <1>3, <1>4, EmptyHolds
<1>6. ASSUME NEW track \in T PROVE w.tables[track] \in TrackTable /\ w.tables[track].next = 1
  <2>1. w.tables[track].next = 0 + 1 /\ w.tables[track] \in TrackTable
    BY <1>5 DEF TableHolds
  <2>. QED BY <2>1
<1>7. w \in File(T)
  <2>1. w.tables \in [T -> TrackTable]
    BY <1>4, <1>6
  <2>2. w.mdat \in Seq(Byte)
    BY <1>4
  <2>. QED BY <1>4, <2>1, <2>2 DEF File
<1>8. Written(w, all)
  <2>1. 0 \in Nat
    OBVIOUS
  <2>. QED BY <1>5, <1>7, <2>1 DEF Written, T
<1>9. ASSUME NEW track \in T PROVE Remains(all[track], w.tables[track].next, all[track])
  <2>. DEFINE S == all[track]
  <2>1. S \in Seq(Sample) /\ Len(S) \in Nat
    BY <1>1
  <2>. HIDE DEF S
  <2>2. Len(S) + (1 - 1) = Len(S) /\ 1 \in Nat \ {0} /\ \A i \in 1..Len(S) : (1 - 1) + i = i
    BY <2>1
  <2>3. Remains(S, 1, S)
    BY <2>1, <2>2 DEF Remains
  <2>. QED BY <1>6, <2>3 DEF S
<1>. QED BY <1>2, <1>8, <1>9 DEF Progress, T, w

LEMMA RemainsLess ==
    ASSUME NEW rest, NEW next, NEW S, Remains(rest, next, S), rest # <<>>
    PROVE  /\ next \in 1..Len(S) /\ Head(rest) = S[next]
           /\ Remains(Tail(rest), next + 1, S)
<1>. DEFINE r == Tail(rest)
            m == Len(rest)
            L == Len(S)
<1>1. rest \in Seq(Sample) /\ next \in Nat \ {0} /\ m + (next - 1) = L
  BY DEF Remains
<1>2. \A i \in 1..m : rest[i] = S[(next - 1) + i]
  BY DEF Remains
<1>3. m \in Nat /\ m >= 1
  BY <1>1
<1>4. r \in Seq(Sample) /\ Len(r) = m - 1 /\ \A i \in 1..m - 1 : r[i] = rest[i + 1]
  BY <1>1
<1>5. Head(rest) = rest[1]
  BY <1>1
<1>. HIDE DEF r, m, L
<1>6. next \in 1..L /\ 1 \in 1..m /\ (next - 1) + 1 = next
  BY <1>1, <1>3
<1>7. Head(rest) = S[next]
  BY <1>2, <1>5, <1>6
<1>8. ASSUME NEW i \in 1..m - 1 PROVE r[i] = S[((next + 1) - 1) + i]
  <2>1. i + 1 \in 1..m /\ (next - 1) + (i + 1) = ((next + 1) - 1) + i
    BY <1>1, <1>3
  <2>2. r[i] = rest[i + 1]
    BY <1>4
  <2>3. rest[i + 1] = S[(next - 1) + (i + 1)]
    BY <1>2, <2>1
  <2>. QED BY <2>1, <2>2, <2>3
<1>9. (m - 1) + ((next + 1) - 1) = L /\ next + 1 \in Nat \ {0}
  BY <1>1, <1>3
<1>10. Remains(r, next + 1, S)
  BY <1>4, <1>8, <1>9 DEF Remains, L
<1>. QED BY <1>6, <1>7, <1>10 DEF r, L

LEMMA ProgressGoesOn ==
    ASSUME NEW all, NEW w, NEW rest, Progress(all, w, rest), NEW track \in DOMAIN rest, rest[track] # <<>>
    PROVE  Progress(all, WithSample(w, track, Head(rest[track])), [rest EXCEPT ![track] = Tail(@)])
<1>. DEFINE T == DOMAIN all
            S == all[track]
            next == w.tables[track].next
            n == next - 1
            v == WithSample(w, track, Head(rest[track]))
            less == [rest EXCEPT ![track] = Tail(@)]
<1>1. Playable(all) /\ Tracks(all) /\ T \subseteq {"video", "audio"} /\ Written(w, all)
  BY DEF Progress, Playable
<1>2. rest \in [T -> Seq(Sample)] /\ track \in T
  BY DEF Progress
<1>3. \A other \in T : Remains(rest[other], w.tables[other].next, all[other])
  BY DEF Progress
<1>4. next \in 1..Len(S) /\ Head(rest[track]) = S[next] /\ Remains(Tail(rest[track]), next + 1, S)
  BY <1>2, <1>3, RemainsLess
<1>5. next \in Nat /\ S \in Seq(Sample)
  BY <1>1, <1>2, <1>4 DEF Tracks
<1>6. less = [other \in T |-> IF other = track THEN Tail(rest[track]) ELSE rest[other]]
  BY <1>2
<1>. HIDE DEF less, T
<1>7. less \in [T -> Seq(Sample)]
  <2>1. Tail(rest[track]) \in Seq(Sample)
    BY <1>4 DEF Remains
  <2>. QED BY <1>2, <1>6, <2>1
<1>8. Written(v, all) /\ SampleStep(w, v, T, track)
  <2>. HIDE DEF v
  <2>1. n \in Nat /\ n + 1 = next
    BY <1>4, <1>5
  <2>. HIDE DEF n, S
  <2>2. w.tables[track].next = n + 1 /\ n + 1 \in 1..Len(all[track])
    BY <1>4, <2>1 DEF S
  <2>3. LET x == WithSample(w, track, all[track][n + 1])
        IN  Written(x, all) /\ SampleStep(w, x, DOMAIN all, track)
    BY <1>1, <1>2, <2>1, <2>2, WithSampleHolds DEF T
  <2>4. v = WithSample(w, track, all[track][n + 1])
    BY <1>4, <2>1 DEF v, S
  <2>. QED BY <2>3, <2>4 DEF T
<1>9. ASSUME NEW other \in T PROVE Remains(less[other], v.tables[other].next, all[other])
  <2>1. CASE other = track
    <3>1. less[other] = Tail(rest[track]) /\ v.tables[other].next = next + 1
      BY <1>6, <1>8, <2>1 DEF SampleStep
    <3>. QED BY <1>4, <2>1, <3>1
  <2>2. CASE other # track
    <3>1. less[other] = rest[other] /\ v.tables[other] = w.tables[other]
      BY <1>6, <1>8, <2>2 DEF SampleStep
    <3>. QED BY <1>3, <3>1
  <2>. QED BY <2>1, <2>2
<1>. QED BY <1>1, <1>7, <1>8, <1>9 DEF Progress, less, T, v

LEMMA ProgressEnds ==
    ASSUME NEW all, NEW w, NEW rest, Progress(all, w, rest), \A track \in DOMAIN rest : rest[track] = <<>>
    PROVE  Complete(Finished(w), all)
<1>1. Playable(all) /\ Tracks(all) /\ DOMAIN all \subseteq {"video", "audio"} /\ Written(w, all)
      /\ DOMAIN rest = DOMAIN all
  BY DEF Progress, Playable
<1>2. ASSUME NEW track \in DOMAIN all PROVE w.tables[track].next = Len(all[track]) + 1
  <2>. DEFINE next == w.tables[track].next
              L == Len(all[track])
  <2>1. Remains(<<>>, next, all[track])
    BY <1>1 DEF Progress
  <2>2. next \in Nat \ {0} /\ 0 + (next - 1) = L
    BY <2>1 DEF Remains
  <2>. HIDE DEF next, L
  <2>3. next = L + 1
    BY <2>2
  <2>. QED BY <2>3 DEF next, L
<1>. QED BY <1>1, <1>2, FinishedHolds

--------------------------------------------------------------------------------
(* What a trim takes. Frames are read later and later, so a frame is beyond a *)
(* time when it is decoded after it.                                          *)
LEMMA BeyondIs ==
    ASSUME NEW S \in Seq(Sample), NEW track, Says(clip, track, S), NEW time \in Int, NEW id \in 1..Len(S)
    PROVE  /\ Elapsed(S)[id - 1] \in Nat /\ SampleTime(clip.tables[track], id) = Elapsed(S)[id - 1]
           /\ Beyond(clip.tables[track], id, time) = (Elapsed(S)[id - 1] > time)
           /\ \A j \in 1..id : Elapsed(S)[j - 1] <= Elapsed(S)[id - 1]
<1>. DEFINE t == clip.tables[track]
            B == Elapsed(S)
            x == B[id - 1]
            o == S[id].offset
<1>1. Len(S) \in Nat /\ S[id] \in Sample
  BY LenProperties, ElementOfSeq
<1>2. o \in Nat
  BY <1>1 DEF Sample
<1>3. id - 1 \in 0..Len(S) /\ \A j \in 1..id : j - 1 \in 0..Len(S) /\ id - 1 \in j - 1..Len(S)
  BY <1>1
<1>4. x \in Nat /\ \A j \in 1..id : B[j - 1] <= x
  BY <1>3, ElapsedIs
<1>5. SampleTime(t, id) = x /\ RenderingOffset(t, id) = o
  BY DEF Says
<1>. HIDE DEF x, o, t
<1>6. Beyond(t, id, time) = (x > time)
  <2>1. Beyond(t, id, time) = (x + o > time /\ x > time)
    BY <1>5 DEF Beyond, Pts
  <2>2. x > time => x + o > time
    BY <1>2, <1>4
  <2>. QED BY <2>1, <2>2
<1>. QED BY <1>4, <1>5, <1>6 DEF x, t

(* The trim starts at the last keyframe that is not after the asked time.     *)
StartsAt(S, a, start) ==
    /\ a \in 1..Len(S) /\ S[a].sync /\ Elapsed(S)[a - 1] <= start
    /\ \A id \in 1..Len(S) : id > a /\ S[id].sync => Elapsed(S)[id - 1] > start

LEMMA StartIs ==
    ASSUME NEW S \in Seq(Sample), Len(S) >= 1, S[1].sync, NEW track, Says(clip, track, S), NEW start \in Nat
    PROVE  StartsAt(S, StartSample(clip.tables[track], start), start)
<1>. DEFINE t == clip.tables[track]
            n == Len(S)
            B == Elapsed(S)
            K == {1} \cup {id \in Ids(t) : IsSync(t, id) /\ \A j \in 1..id : ~ Beyond(t, j, start)}
            a == StartSample(t, start)
<1>1. n \in Nat /\ 1 \in 1..n /\ Ids(t) = 1..n
  <2>1. SampleCount(t) = n
    BY DEF Says
  <2>. QED BY <2>1 DEF Ids
<1>2. \A id \in 1..n : /\ B[id - 1] \in Nat /\ Beyond(t, id, start) = (B[id - 1] > start)
                       /\ \A j \in 1..id : B[j - 1] <= B[id - 1]
  BY BeyondIs
<1>3. \A id \in 1..n : IsSync(t, id) = S[id].sync
  BY DEF Says
<1>4. a = Highest(K)
  BY DEF StartSample
<1>5. B[1 - 1] = 0
  BY ElapsedIs
<1>. HIDE DEF t, n, B, a
<1>6. a \in K /\ \A y \in K : y <= a
  <2>1. K \subseteq 0..n /\ K # {}
    BY <1>1
  <2>. HIDE DEF K
  <2>. QED BY <1>1, <1>4, <2>1, HighestIs
<1>7. ASSUME NEW id \in 1..n, S[id].sync, B[id - 1] <= start PROVE id \in K
  <2>1. ASSUME NEW j \in 1..id PROVE ~ Beyond(t, j, start)
    <3>1. j \in 1..n
      BY <1>1
    <3>. DEFINE x == B[j - 1]
                y == B[id - 1]
    <3>2. x \in Nat /\ y \in Nat /\ x <= y /\ y <= start /\ Beyond(t, j, start) = (x > start)
      BY <1>2, <1>7, <3>1
    <3>. HIDE DEF x, y
    <3>3. ~ (x > start)
      BY <3>2
    <3>. QED BY <3>2, <3>3
  <2>. QED BY <1>1, <1>3, <1>7, <2>1
<1>8. a \in 1..n /\ S[a].sync /\ B[a - 1] <= start
  <2>1. CASE a = 1
    BY <1>1, <1>5, <2>1
  <2>2. CASE a # 1
    <3>1. a \in 1..n /\ S[a].sync /\ \A j \in 1..a : ~ Beyond(t, j, start)
      BY <1>1, <1>3, <1>6, <2>2
    <3>2. a \in 1..a
      BY <3>1
    <3>3. ~ Beyond(t, a, start)
      BY <3>1, <3>2
    <3>. DEFINE x == B[a - 1]
    <3>4. x \in Nat /\ ~ (x > start)
      BY <1>2, <3>1, <3>3
    <3>. HIDE DEF x
    <3>5. x <= start
      BY <3>4
    <3>. QED BY <3>1, <3>5 DEF x
  <2>. QED BY <2>1, <2>2
<1>9. ASSUME NEW id \in 1..n, id > a, S[id].sync PROVE B[id - 1] > start
  <2>1. id \notin K
    <3>1. ~ (id <= a)
      BY <1>8, <1>9
    <3>. QED BY <1>6, <3>1
  <2>. DEFINE x == B[id - 1]
  <2>2. x \in Nat /\ ~ (x <= start)
    BY <1>2, <1>7, <1>9, <2>1
  <2>. HIDE DEF x
  <2>3. x > start
    BY <2>2
  <2>. QED BY <2>3 DEF x
<1>. QED BY <1>8, <1>9 DEF StartsAt, n, B, a, t

(* The samples of a set without gaps.                                         *)
Runs(ids, n, a, b) == a \in 1..n /\ b \in a..n /\ ids = a..b /\ Lowest(ids) = a

LEMMA VideoCutIs ==
    ASSUME NEW S \in Seq(Sample), Len(S) >= 1, S[1].sync, NEW track, Says(clip, track, S),
           NEW start \in Nat, NEW end \in Nat, start < end
    PROVE  \E b \in 1..Len(S) :
            /\ Runs(VideoCut(clip.tables[track], start, end), Len(S), StartSample(clip.tables[track], start), b)
            /\ \A id \in 1..Len(S) : id >= StartSample(clip.tables[track], start) /\ Elapsed(S)[id - 1] <= end
                                        => id <= b
<1>. DEFINE t == clip.tables[track]
            n == Len(S)
            B == Elapsed(S)
            a == StartSample(t, start)
            ids == VideoCut(t, start, end)
<1>1. n \in Nat /\ Ids(t) = 1..n
  <2>1. SampleCount(t) = n
    BY DEF Says
  <2>. QED BY <2>1 DEF Ids
<1>2. \A id \in 1..n : /\ B[id - 1] \in Nat /\ Beyond(t, id, end) = (B[id - 1] > end)
                       /\ \A j \in 1..id : B[j - 1] <= B[id - 1]
  BY BeyondIs
<1>3. a \in 1..n /\ B[a - 1] <= start
  BY StartIs DEF StartsAt
<1>4. ids = {id \in 1..n : id >= a /\ \A j \in a..id : ~ Beyond(t, j, end)}
  BY <1>1 DEF VideoCut
<1>. HIDE DEF t, n, B, a, ids
<1>5. ASSUME NEW id \in 1..n, id >= a, B[id - 1] <= end PROVE id \in ids
  <2>1. ASSUME NEW j \in a..id PROVE ~ Beyond(t, j, end)
    <3>1. j \in 1..n /\ j \in 1..id
      BY <1>1, <1>3
    <3>. DEFINE x == B[j - 1]
                y == B[id - 1]
    <3>2. x \in Nat /\ y \in Nat /\ x <= y /\ y <= end /\ Beyond(t, j, end) = (x > end)
      BY <1>2, <1>5, <3>1
    <3>. HIDE DEF x, y
    <3>3. ~ (x > end)
      BY <3>2
    <3>. QED BY <3>2, <3>3
  <2>. QED BY <1>4, <1>5, <2>1
<1>6. a \in ids
  <2>. DEFINE x == B[a - 1]
  <2>1. x \in Nat /\ x <= start
    BY <1>2, <1>3
  <2>. HIDE DEF x
  <2>2. x <= end
    BY <2>1
  <2>3. a >= a
    BY <1>3
  <2>. QED BY <1>3, <1>5, <2>2, <2>3 DEF x
<1>7. \A x, z \in ids : \A y \in x..z : y \in ids
  <2>. TAKE x, z \in ids
  <2>. TAKE y \in x..z
  <2>1. x \in 1..n /\ z \in 1..n /\ x >= a /\ z >= a /\ \A j \in a..z : ~ Beyond(t, j, end)
    BY <1>4
  <2>2. y \in 1..n /\ y >= a /\ a..y \subseteq a..z
    BY <1>1, <1>3, <2>1
  <2>. QED BY <1>4, <2>1, <2>2
<1>8. PICK c \in 1..n : \E b \in c..n : ids = c..b /\ Lowest(ids) = c
  <2>1. ids \in SUBSET (1..n)
    BY <1>4
  <2>2. \/ ids = {}
        \/ \E c \in 1..n : \E b \in c..n : ids = c..b /\ Lowest(ids) = c
    BY <1>1, <1>7, <2>1, Stretch, ZenonT(60)
  <2>. QED BY <1>6, <2>2
<1>9. PICK b \in c..n : ids = c..b /\ Lowest(ids) = c
  BY <1>8
<1>10. c = a
  <2>1. c \in ids
    BY <1>9
  <2>2. c >= a
    BY <1>4, <2>1
  <2>3. a \in c..b
    BY <1>6, <1>9
  <2>. QED BY <1>3, <2>2, <2>3
<1>11. b \in 1..n /\ Runs(ids, n, a, b)
  BY <1>1, <1>3, <1>9, <1>10 DEF Runs
<1>12. ASSUME NEW id \in 1..n, id >= a, B[id - 1] <= end PROVE id <= b
  <2>1. id \in c..b
    BY <1>5, <1>9, <1>12
  <2>. QED BY <2>1
<1>. QED BY <1>11, <1>12 DEF n, B, a, ids, t

(* The frames of audio between two times.                                     *)
LEMMA AudioCutIs ==
    ASSUME NEW S \in Seq(Sample), Even(S), NEW track, Says(clip, track, S), NEW lo \in Nat, NEW hi \in Int,
           NEW ids, ids = {id \in Ids(clip.tables[track]) : SampleTime(clip.tables[track], id) \in lo..hi}
    PROVE  \/ ids = {}
           \/ \E a, b \in 1..Len(S) : /\ Runs(ids, Len(S), a, b)
                                      /\ Elapsed(S)[a - 1] \in lo..lo + FrameTicks - 1
<1>. DEFINE t == clip.tables[track]
            n == Len(S)
            B == Elapsed(S)
<1>1. n \in Nat /\ Ids(t) = 1..n
  <2>1. SampleCount(t) = n
    BY DEF Says
  <2>. QED BY <2>1 DEF Ids
<1>2. \A id \in 1..n : /\ B[id - 1] \in Nat /\ SampleTime(t, id) = B[id - 1]
                       /\ \A j \in 1..id : B[j - 1] <= B[id - 1]
  <2>1. 0 \in Int
    OBVIOUS
  <2>. QED BY <2>1, BeyondIs
<1>3. B[1 - 1] = 0 /\ \A k \in 1..n : B[k] = B[k - 1] + FrameTicks
  <2>1. \A k \in 1..n : B[k] = B[k - 1] + S[k].duration
    BY ElapsedIs
  <2>2. \A k \in 1..n : S[k].duration = FrameTicks
    BY DEF Even
  <2>3. B[1 - 1] = 0
    BY ElapsedIs
  <2>. QED BY <2>1, <2>2, <2>3
<1>4. FrameTicks \in Nat /\ FrameTicks > 0
  BY ClipFileAssumption
<1>. HIDE DEF t, n, B
<1>5. \A id : id \in ids <=> id \in 1..n /\ B[id - 1] >= lo /\ B[id - 1] <= hi
  <2>. TAKE id
  <2>1. id \in ids <=> id \in 1..n /\ SampleTime(t, id) \in lo..hi
    BY <1>1 DEF t
  <2>2. CASE id \in 1..n
    <3>. DEFINE x == B[id - 1]
    <3>1. x \in Nat /\ SampleTime(t, id) = x
      BY <1>2, <2>2
    <3>. HIDE DEF x
    <3>2. x \in lo..hi <=> x >= lo /\ x <= hi
      BY <3>1
    <3>. QED BY <2>1, <3>1, <3>2 DEF x
  <2>3. CASE id \notin 1..n
    BY <2>1, <2>3
  <2>. QED BY <2>2, <2>3
<1>6. ASSUME NEW x \in ids, NEW z \in ids, NEW y \in x..z PROVE y \in ids
  <2>1. x \in 1..n /\ z \in 1..n /\ B[x - 1] >= lo /\ B[z - 1] <= hi
    BY <1>5
  <2>2. y \in 1..n /\ x \in 1..y /\ y \in 1..z
    BY <1>1, <2>1
  <2>. DEFINE p == B[x - 1]
              q == B[y - 1]
              r == B[z - 1]
  <2>3. p \in Nat /\ q \in Nat /\ r \in Nat /\ p <= q /\ q <= r /\ p >= lo /\ r <= hi
    BY <1>2, <2>1, <2>2
  <2>. HIDE DEF p, q, r
  <2>4. q >= lo /\ q <= hi
    BY <2>3
  <2>. QED BY <1>5, <2>2, <2>4 DEF q
<1>7. \/ ids = {}
      \/ \E a \in 1..n : \E b \in a..n : ids = a..b /\ Lowest(ids) = a
  <2>1. ids \in SUBSET (1..n)
    BY <1>5
  <2>2. \A x, z \in ids : \A y \in x..z : y \in ids
    BY <1>6
  <2>. QED BY <1>1, <2>1, <2>2, Stretch, ZenonT(60)
<1>8. ASSUME NEW a \in 1..n, NEW b \in a..n, ids = a..b, Lowest(ids) = a
      PROVE  /\ b \in 1..n /\ Runs(ids, n, a, b)
             /\ B[a - 1] \in lo..lo + FrameTicks - 1
  <2>1. b \in 1..n /\ Runs(ids, n, a, b)
    BY <1>1, <1>8 DEF Runs
  <2>. DEFINE x == B[a - 1]
  <2>2. a \in ids
    BY <1>8
  <2>3. x \in Nat /\ x >= lo /\ x <= hi
    BY <1>2, <1>5, <2>2
  <2>4. x < lo + FrameTicks
    <3>1. CASE a = 1
      <4>1. x = 0
        BY <1>3, <3>1
      <4>. HIDE DEF x
      <4>. QED BY <1>4, <2>3, <4>1
    <3>2. CASE a # 1
      <4>. DEFINE e == a - 1
                  y == B[e - 1]
      <4>1. e \in 1..n /\ e \notin a..b
        BY <1>1, <3>2
      <4>2. x = y + FrameTicks /\ y \in Nat
        BY <1>2, <1>3, <4>1
      <4>3. ~ (y >= lo /\ y <= hi)
        BY <1>5, <1>8, <4>1
      <4>. HIDE DEF x, y
      <4>. QED BY <1>4, <2>3, <4>2, <4>3
    <3>. QED BY <3>1, <3>2
  <2>. HIDE DEF x
  <2>5. x \in lo..lo + FrameTicks - 1
    BY <1>4, <2>3, <2>4
  <2>. QED BY <2>1, <2>5 DEF x
<1>9. CASE ids # {}
  <2>1. PICK a \in 1..n : \E b \in a..n : ids = a..b /\ Lowest(ids) = a
    BY <1>7, <1>9
  <2>2. PICK b \in a..n : ids = a..b /\ Lowest(ids) = a
    BY <2>1
  <2>3. b \in 1..n /\ Runs(ids, n, a, b) /\ B[a - 1] \in lo..lo + FrameTicks - 1
    BY <1>8, <2>2
  <2>. QED BY <2>3 DEF n, B
<1>. QED BY <1>9

LEMMA TicksAre ==
    ASSUME NEW time \in Nat
    PROVE  AudioTicks(time) \in Nat
<1>1. Second \in Nat \ {0} /\ AudioRate \in Nat
  BY ClipFileAssumption
<1>. DEFINE x == (2 * time * AudioRate) + Second
            y == 2 * Second
<1>2. x \in Nat
  <2>. DEFINE z == 2 * time
  <2>1. z \in Nat
    OBVIOUS
  <2>. HIDE DEF z
  <2>2. z * AudioRate \in Nat
    BY <1>1, <2>1
  <2>. DEFINE u == z * AudioRate
  <2>. HIDE DEF u
  <2>3. u \in Nat
    BY <2>2 DEF u
  <2>4. u + Second \in Nat
    BY <1>1, <2>3
  <2>. QED BY <2>4 DEF u, z
<1>3. y \in Nat /\ y > 0
  BY <1>1
<1>4. AudioTicks(time) = x \div y
  BY DEF AudioTicks
<1>. HIDE DEF x, y
<1>5. x \div y \in Nat
  BY <1>2, <1>3
<1>. QED BY <1>4, <1>5

LEMMA CopyStarts ==
    ASSUME NEW S, NEW c, NEW n \in Nat, NEW a \in 1..n, NEW b \in a..n, CopyOf(c, S, a, b)
    PROVE  /\ c \in Seq(Sample) /\ Len(c) = (b - a) + 1 /\ 1 \in 1..Len(c)
           /\ c[1].sync = S[a].sync /\ c[1].bytes = S[a].bytes
<1>1. c \in Seq(Sample) /\ Len(c) = (b - a) + 1
  BY DEF CopyOf
<1>2. 1 \in 1..(b - a) + 1 /\ a + 1 - 1 = a
  OBVIOUS
<1>3. 1 \in 1..Len(c)
  BY <1>1, <1>2
<1>. QED BY <1>1, <1>2, <1>3 DEF CopyOf

(* The frames of a trim.                                                      *)
FramesTaken(S, c, a, b, start, end) ==
    /\ StartsAt(S, a, start) /\ b \in a..Len(S) /\ CopyOf(c, S, a, b)
    /\ \A id \in 1..Len(S) : id >= a /\ Elapsed(S)[id - 1] <= end => id <= b

LEMMA VideoTaken ==
    ASSUME NEW S \in Seq(Sample), Len(S) >= 1, S[1].sync, Says(clip, "video", S),
           NEW start \in Nat, NEW end \in Nat, start < end
    PROVE  \E b \in 1..Len(S) :
             FramesTaken(S, Copies("video", VideoCut(clip.tables["video"], start, end)),
                         StartSample(clip.tables["video"], start), b, start, end)
<1>. DEFINE t == clip.tables["video"]
            a == StartSample(t, start)
            ids == VideoCut(t, start, end)
<1>1. StartsAt(S, a, start)
  BY StartIs
<1>2. PICK b \in 1..Len(S) :
        /\ Runs(ids, Len(S), a, b)
        /\ \A id \in 1..Len(S) : id >= a /\ Elapsed(S)[id - 1] <= end => id <= b
  BY VideoCutIs
<1>. HIDE DEF t, a, ids
<1>3. a \in 1..Len(S) /\ b \in a..Len(S) /\ ids = a..b /\ Lowest(ids) = a
  BY <1>2 DEF Runs
<1>4. CopyOf(Copies("video", ids), S, a, b)
  BY <1>3, CopiesAre
<1>5. FramesTaken(S, Copies("video", ids), a, b, start, end)
  BY <1>1, <1>2, <1>3, <1>4 DEF FramesTaken
<1>. QED BY <1>5 DEF t, a, ids

(* The audio of a trim.                                                       *)
AudioTaken(S, c, heard, zero) ==
    \/ heard = {} /\ c \in Seq(Sample) /\ Len(c) = 0 /\ Cardinality(heard) = 0
    \/ \E a, b \in 1..Len(S) : /\ heard # {} /\ b \in a..Len(S) /\ CopyOf(c, S, a, b)
                               /\ Cardinality(heard) = (b - a) + 1
                               /\ Elapsed(S)[a - 1] \in zero..zero + FrameTicks - 1

LEMMA AudioTakenIs ==
    ASSUME NEW S \in Seq(Sample), Even(S), Says(clip, "audio", S), NEW lo \in Nat, NEW hi \in Int,
           NEW ids, ids = {id \in Ids(clip.tables["audio"]) : SampleTime(clip.tables["audio"], id) \in lo..hi}
    PROVE  AudioTaken(S, Copies("audio", ids), ids, lo)
<1>1. CASE ids = {}
  <2>1. Cardinality(ids) = 0
    BY <1>1, FS_EmptySet
  <2>. QED BY <1>1, <2>1, NoCopies DEF AudioTaken
<1>2. CASE ids # {}
  <2>1. PICK a, b \in 1..Len(S) : /\ Runs(ids, Len(S), a, b)
                                  /\ Elapsed(S)[a - 1] \in lo..lo + FrameTicks - 1
    BY <1>2, AudioCutIs
  <2>2. b \in a..Len(S) /\ ids = a..b /\ Lowest(ids) = a
    BY <2>1 DEF Runs
  <2>3. CopyOf(Copies("audio", ids), S, a, b)
    BY <2>2, CopiesAre
  <2>4. Cardinality(ids) = (b - a) + 1
    <3>1. Cardinality(a..b) = IF a > b THEN 0 ELSE b - a + 1
      BY FS_Interval
    <3>. DEFINE k == Cardinality(a..b)
    <3>2. k = IF a > b THEN 0 ELSE b - a + 1
      BY <3>1
    <3>3. a \in Int /\ b \in Int /\ ~ (a > b)
      BY <2>2
    <3>. HIDE DEF k
    <3>4. k = (b - a) + 1
      BY <3>2, <3>3
    <3>. QED BY <2>2, <3>4 DEF k
  <2>. QED BY <1>2, <2>1, <2>2, <2>3, <2>4 DEF AudioTaken
<1>. QED BY <1>1, <1>2

(* The samples a trim of the clip, and an extraction, write.                  *)
HeardBetween(start, end) == AudioCut(clip.tables["video"], clip.tables["audio"], start, end)
TrimmedTo(start, end, tracks) ==
    [track \in tracks |->
        IF track = "video" THEN Copies("video", VideoCut(clip.tables["video"], start, end))
        ELSE Copies("audio", HeardBetween(start, end))]
Extracted == [track \in {"audio"} |-> Copies("audio", Ids(clip.tables["audio"]))]

(* The clip holds what the muxer prepared.                                    *)
ClipHolds(all) == Ready(all) /\ Complete(clip, all)

LEMMA ClipSays ==
    ASSUME NEW all, ClipHolds(all), NEW track \in DOMAIN all
    PROVE  /\ all[track] \in Seq(Sample) /\ Len(all[track]) >= 1 /\ all[track][1].sync
           /\ Says(clip, track, all[track]) /\ Numbered(all[track])
<1>1. Playable(all) /\ Complete(clip, all)
  BY ReadySound DEF ClipHolds
<1>2. Numbered(all[track])
  <2>1. track = "video" \/ track = "audio"
    BY DEF ClipHolds, Ready
  <2>. QED BY <2>1 DEF ClipHolds, Ready
<1>. QED BY <1>1, <1>2, CompleteSays DEF Numbered

(* Where a trimmed clip starts, in audio ticks.                               *)
Zero(start) == AudioTicks(SampleTime(clip.tables["video"], StartSample(clip.tables["video"], start)))

LEMMA ZeroIs ==
    ASSUME NEW all, ClipHolds(all), NEW start \in Nat
    PROVE  Zero(start) \in Nat
<1>. DEFINE S == all["video"]
            t == clip.tables["video"]
            a == StartSample(t, start)
<1>1. S \in Seq(Sample) /\ Len(S) >= 1 /\ S[1].sync /\ Says(clip, "video", S)
  BY ClipSays DEF ClipHolds, Ready
<1>2. StartsAt(S, a, start)
  BY <1>1, StartIs
<1>. HIDE DEF S, a
<1>3. a \in 1..Len(S)
  BY <1>2 DEF StartsAt
<1>4. SampleTime(t, a) \in Nat
  <2>1. 0 \in Int
    OBVIOUS
  <2>. QED BY <1>1, <1>3, <2>1, BeyondIs
<1>. QED BY <1>4, TicksAre DEF Zero, a

LEMMA HeardIs ==
    ASSUME NEW all, ClipHolds(all), "audio" \in DOMAIN all, NEW start \in Nat, NEW end \in Nat
    PROVE  AudioTaken(all["audio"], Copies("audio", HeardBetween(start, end)), HeardBetween(start, end), Zero(start))
<1>. DEFINE S == all["audio"]
            t == clip.tables["audio"]
            lo == Zero(start)
            hi == AudioTicks(end)
            ids == HeardBetween(start, end)
<1>1. S \in Seq(Sample) /\ Even(S) /\ Says(clip, "audio", S)
  BY ClipSays DEF ClipHolds, Ready
<1>2. lo \in Nat
  BY ZeroIs
<1>3. hi \in Int
  BY TicksAre
<1>4. ids = {id \in Ids(t) : SampleTime(t, id) \in lo..hi}
  BY DEF HeardBetween, AudioCut, Zero
<1>. HIDE DEF S, lo, hi, ids
<1>5. AudioTaken(S, Copies("audio", ids), ids, lo)
  BY <1>1, <1>2, <1>3, <1>4, AudioTakenIs
<1>. QED BY <1>5 DEF S, lo, ids

LEMMA TrimmedSound ==
    ASSUME NEW all, ClipHolds(all), NEW start \in Nat, NEW end \in Nat, start < end,
           NEW tracks, tracks \in {{"video"}, {"video", "audio"}}, tracks \subseteq DOMAIN all
    PROVE  Playable(TrimmedTo(start, end, tracks)) /\ DOMAIN TrimmedTo(start, end, tracks) = tracks
<1>. DEFINE cut == TrimmedTo(start, end, tracks)
            v == Copies("video", VideoCut(clip.tables["video"], start, end))
            u == Copies("audio", HeardBetween(start, end))
<1>1. cut = [track \in tracks |-> IF track = "video" THEN v ELSE u]
  BY DEF TrimmedTo
<1>2. v \in Seq(Sample) /\ (Len(v) >= 1 => v[1].sync)
  <2>. DEFINE S == all["video"]
              a == StartSample(clip.tables["video"], start)
  <2>1. S \in Seq(Sample) /\ Len(S) >= 1 /\ S[1].sync /\ Says(clip, "video", S)
    BY ClipSays DEF ClipHolds, Ready
  <2>. HIDE DEF S, v, a
  <2>2. PICK b \in 1..Len(S) : FramesTaken(S, v, a, b, start, end)
    BY <2>1, VideoTaken DEF v, a
  <2>3. Len(S) \in Nat /\ a \in 1..Len(S) /\ b \in a..Len(S) /\ CopyOf(v, S, a, b) /\ S[a].sync
    BY <2>1, <2>2 DEF FramesTaken, StartsAt
  <2>. QED BY <2>3, CopyStarts
<1>3. "audio" \in tracks => u \in Seq(Sample) /\ (Len(u) >= 1 => u[1].sync)
  <2>. HAVE "audio" \in tracks
  <2>. DEFINE S == all["audio"]
              heard == HeardBetween(start, end)
              zero == Zero(start)
  <2>1. S \in Seq(Sample) /\ Even(S)
    BY ClipSays DEF ClipHolds, Ready
  <2>2. AudioTaken(S, u, heard, zero)
    BY HeardIs
  <2>. HIDE DEF S, u, heard, zero
  <2>3. CASE heard = {} /\ u \in Seq(Sample) /\ Len(u) = 0
    BY <2>3
  <2>4. CASE \E a, b \in 1..Len(S) : b \in a..Len(S) /\ CopyOf(u, S, a, b)
    <3>1. PICK a, b \in 1..Len(S) : b \in a..Len(S) /\ CopyOf(u, S, a, b)
      BY <2>4
    <3>2. Len(S) \in Nat /\ S[a].sync
      BY <2>1 DEF Even
    <3>. QED BY <3>1, <3>2, CopyStarts
  <2>. QED BY <2>2, <2>3, <2>4 DEF AudioTaken
<1>. HIDE DEF cut, v, u
<1>4. ASSUME NEW track \in tracks PROVE cut[track] \in Seq(Sample) /\ (Len(cut[track]) >= 1 => cut[track][1].sync)
  <2>1. CASE track = "video"
    BY <1>1, <1>2, <2>1
  <2>2. CASE track # "video"
    <3>1. track = "audio"
      BY <2>2
    <3>. QED BY <1>1, <1>3, <2>2, <3>1
  <2>. QED BY <2>1, <2>2
<1>5. DOMAIN cut = tracks /\ Tracks(cut)
  BY <1>1, <1>4 DEF Tracks
<1>. QED BY <1>4, <1>5 DEF Playable, cut

LEMMA ExtractedIs ==
    ASSUME NEW all, ClipHolds(all), "audio" \in DOMAIN all
    PROVE  /\ Playable(Extracted) /\ DOMAIN Extracted = {"audio"}
           /\ CopyOf(Extracted["audio"], all["audio"], 1, Len(all["audio"]))
<1>. DEFINE S == all["audio"]
            n == Len(S)
            t == clip.tables["audio"]
            ids == Ids(t)
            c == Copies("audio", ids)
<1>1. S \in Seq(Sample) /\ n >= 1 /\ S[1].sync /\ Says(clip, "audio", S)
  BY ClipSays
<1>2. n \in Nat /\ ids = 1..n
  BY <1>1 DEF Says, Ids
<1>3. Lowest(ids) = 1
  <2>1. 1..n \subseteq Nat /\ 1 \in 1..n
    BY <1>1, <1>2
  <2>. HIDE DEF n
  <2>2. Lowest(1..n) \in 1..n /\ Lowest(1..n) <= 1
    BY <2>1, LowestIs
  <2>. QED BY <1>2, <2>2
<1>4. DOMAIN Extracted = {"audio"} /\ Extracted["audio"] = c
  BY DEF Extracted
<1>. HIDE DEF S, ids, c, n
<1>5. CopyOf(c, S, 1, n)
  <2>1. 1 \in 1..Len(S) /\ n \in 1..Len(S)
    BY <1>1, <1>2 DEF n
  <2>. QED BY <1>1, <1>2, <1>3, <2>1, CopiesAre DEF c
<1>6. c \in Seq(Sample) /\ c[1].sync
  <2>1. 1 \in 1..n /\ n \in 1..n
    BY <1>1, <1>2
  <2>. QED BY <1>1, <1>2, <1>5, <2>1, CopyStarts
<1>7. Playable(Extracted)
  <2>1. Extracted = [track \in {"audio"} |-> c]
    BY DEF Extracted, c, ids
  <2>. QED BY <1>4, <1>6, <2>1 DEF Playable, Tracks
<1>. QED BY <1>4, <1>5, <1>7 DEF S, n

(* A finished trim is sound, and so is a finished extraction.                 *)
PicturesKept(from) ==
    LET video == clip.tables["video"]
        last == from + SampleCount(writer.tables["video"]) - 1
    IN  /\ IsSync(writer.tables["video"], 1) /\ SampleTime(video, from) <= making.start
        /\ \A id \in Ids(video) :
            /\ id > from /\ IsSync(video, id) => SampleTime(video, id) > making.start
            /\ id >= from /\ SampleTime(video, id) <= making.end => id <= last
        /\ SameFrom("video", from)
SoundKept(zero) ==
    "audio" \in DOMAIN writer.tables =>
        LET audio == clip.tables["audio"]
            heard == {id \in Ids(audio) : SampleTime(audio, id) \in zero..AudioTicks(making.end)}
        IN  /\ SampleCount(writer.tables["audio"]) = Cardinality(heard)
            /\ heard # {} =>
                /\ SampleTime(audio, Origin("audio", 1)) \in zero..zero + FrameTicks - 1
                /\ SameFrom("audio", Origin("audio", 1))

LEMMA TrimIs ==
    ASSUME making.kind = "done", "start" \in DOMAIN making, NEW from, Origin("video", 1) = from,
           PicturesKept(from), SoundKept(AudioTicks(SampleTime(clip.tables["video"], from)))
    PROVE  TrimSound
BY DEF TrimSound, PicturesKept, SoundKept

LEMMA OriginIs ==
    ASSUME NEW S, Numbered(S), NEW track, NEW c, NEW a \in 1..Len(S), NEW b \in a..Len(S),
           CopyOf(c, S, a, b), Says(writer, track, c)
    PROVE  Origin(track, 1) = a
<1>1. Len(S) \in Nat /\ S[a].bytes[1].of = a
  BY DEF Numbered
<1>2. 1 \in 1..Len(c) /\ c[1].bytes = S[a].bytes
  BY <1>1, CopyStarts
<1>3. ReadSample(writer, track, 1) = Reading(c, 1)
  BY <1>2 DEF Says
<1>4. ReadSample(writer, track, 1).bytes = c[1].bytes
  BY <1>3 DEF Reading
<1>. QED BY <1>1, <1>2, <1>4 DEF Origin

LEMMA FramesAreKept ==
    ASSUME NEW S, Numbered(S), Says(clip, "video", S), NEW c, Says(writer, "video", c), NEW a, NEW b,
           making.start \in Nat, making.end \in Nat,
           FramesTaken(S, c, a, b, making.start, making.end)
    PROVE  PicturesKept(a) /\ Origin("video", 1) = a
<1>. DEFINE video == clip.tables["video"]
            n == Len(S)
            B == Elapsed(S)
            last == a + SampleCount(writer.tables["video"]) - 1
<1>1. S \in Seq(Sample) /\ n \in Nat
  BY DEF Numbered
<1>2. a \in 1..n /\ b \in a..n /\ CopyOf(c, S, a, b) /\ S[a].sync /\ B[a - 1] <= making.start
  BY DEF FramesTaken, StartsAt
<1>3. /\ \A id \in 1..n : id > a /\ S[id].sync => B[id - 1] > making.start
      /\ \A id \in 1..n : id >= a /\ B[id - 1] <= making.end => id <= b
  BY DEF FramesTaken, StartsAt
<1>4. Ids(video) = 1..n
  BY DEF Says, Ids
<1>5. \A id \in 1..n : SampleTime(video, id) = B[id - 1] /\ IsSync(video, id) = S[id].sync
  BY DEF Says
<1>6. Origin("video", 1) = a
  BY <1>1, <1>2, OriginIs
<1>7. SameFrom("video", a)
  BY <1>1, <1>2, CopyReads
<1>8. last = b
  <2>1. SampleCount(writer.tables["video"]) = (b - a) + 1
    BY <1>2 DEF Says, CopyOf
  <2>. DEFINE k == SampleCount(writer.tables["video"])
  <2>2. k = (b - a) + 1 /\ a \in Int /\ b \in Int
    BY <1>1, <1>2, <2>1
  <2>. HIDE DEF k
  <2>3. a + k - 1 = b
    BY <2>2
  <2>. QED BY <2>3 DEF k
<1>9. IsSync(writer.tables["video"], 1)
  <2>1. 1 \in 1..Len(c) /\ c[1].sync = S[a].sync
    BY <1>1, <1>2, CopyStarts
  <2>2. IsSync(writer.tables["video"], 1) = c[1].sync
    BY <2>1 DEF Says
  <2>. QED BY <1>2, <2>1, <2>2
<1>10. SampleTime(video, a) <= making.start
  BY <1>2, <1>5
<1>11. ASSUME NEW id \in Ids(video)
       PROVE  /\ id > a /\ IsSync(video, id) => SampleTime(video, id) > making.start
              /\ id >= a /\ SampleTime(video, id) <= making.end => id <= last
  BY <1>3, <1>4, <1>5, <1>8
<1>. HIDE DEF last
<1>12. PicturesKept(a)
  BY <1>7, <1>9, <1>10, <1>11 DEF PicturesKept, last
<1>. QED BY <1>6, <1>12

LEMMA SoundIsKept ==
    ASSUME NEW S, Numbered(S), Says(clip, "audio", S), NEW c, Says(writer, "audio", c),
           NEW heard, NEW zero,
           heard = {id \in Ids(clip.tables["audio"]) :
                        SampleTime(clip.tables["audio"], id) \in zero..AudioTicks(making.end)},
           AudioTaken(S, c, heard, zero)
    PROVE  SoundKept(zero)
<1>. DEFINE n == Len(S)
            audio == clip.tables["audio"]
<1>1. S \in Seq(Sample) /\ n \in Nat
  BY DEF Numbered
<1>2. SampleCount(writer.tables["audio"]) = Len(c)
  BY DEF Says
<1>3. CASE heard = {} /\ c \in Seq(Sample) /\ Len(c) = 0 /\ Cardinality(heard) = 0
  BY <1>2, <1>3 DEF SoundKept
<1>4. CASE \E a, b \in 1..n : /\ heard # {} /\ b \in a..n /\ CopyOf(c, S, a, b)
                              /\ Cardinality(heard) = (b - a) + 1
                              /\ Elapsed(S)[a - 1] \in zero..zero + FrameTicks - 1
  <2>1. PICK a, b \in 1..n : /\ heard # {} /\ b \in a..n /\ CopyOf(c, S, a, b)
                             /\ Cardinality(heard) = (b - a) + 1
                             /\ Elapsed(S)[a - 1] \in zero..zero + FrameTicks - 1
    BY <1>4
  <2>2. Len(c) = (b - a) + 1
    BY <2>1 DEF CopyOf
  <2>3. Origin("audio", 1) = a
    BY <1>1, <2>1, OriginIs
  <2>4. SameFrom("audio", a)
    BY <1>1, <2>1, CopyReads
  <2>5. SampleTime(audio, a) = Elapsed(S)[a - 1]
    BY <1>1, <2>1 DEF Says
  <2>. HIDE DEF n
  <2>6. /\ SampleCount(writer.tables["audio"]) = Cardinality(heard)
        /\ SampleTime(audio, Origin("audio", 1)) \in zero..zero + FrameTicks - 1
        /\ SameFrom("audio", Origin("audio", 1))
    BY <1>2, <2>1, <2>2, <2>3, <2>4, <2>5
  <2>. QED BY <2>6 DEF SoundKept
<1>. QED BY <1>3, <1>4 DEF AudioTaken

LEMMA TrimTrue ==
    ASSUME NEW all, ClipHolds(all), making.kind = "done", "start" \in DOMAIN making,
           making.start \in Nat, making.end \in Nat, making.start < making.end,
           NEW tracks, tracks \in {{"video"}, {"video", "audio"}}, tracks \subseteq DOMAIN all,
           Complete(writer, TrimmedTo(making.start, making.end, tracks))
    PROVE  TrimSound
<1>. DEFINE cut == TrimmedTo(making.start, making.end, tracks)
            a == StartSample(clip.tables["video"], making.start)
            V == all["video"]
            v == Copies("video", VideoCut(clip.tables["video"], making.start, making.end))
            heard == HeardBetween(making.start, making.end)
            u == Copies("audio", heard)
            zero == Zero(making.start)
<1>1. Playable(cut) /\ DOMAIN cut = tracks /\ "video" \in tracks
  BY TrimmedSound
<1>2. \A track \in tracks : Says(writer, track, cut[track])
  <2>. HIDE DEF cut
  <2>1. Complete(writer, cut)
    BY DEF cut
  <2>. QED BY <1>1, <2>1, CompleteSays
<1>3. cut["video"] = v /\ ("audio" \in tracks => cut["audio"] = u)
  <2>1. "video" \in tracks
    BY <1>1
  <2>. QED BY <2>1 DEF TrimmedTo
<1>4. V \in Seq(Sample) /\ Len(V) >= 1 /\ V[1].sync /\ Says(clip, "video", V) /\ Numbered(V)
  BY ClipSays DEF ClipHolds, Ready
<1>5. DOMAIN writer.tables = tracks
  <2>1. writer.tables \in [DOMAIN cut -> TrackTable]
    BY DEF Complete, Written, File
  <2>. HIDE DEF cut
  <2>. QED BY <1>1, <2>1
<1>6. zero = AudioTicks(SampleTime(clip.tables["video"], a))
  BY DEF Zero
<1>. HIDE DEF cut, V, v, u, a, heard, zero
<1>7. PICK b \in 1..Len(V) : FramesTaken(V, v, a, b, making.start, making.end)
  BY <1>4, VideoTaken DEF v, a
<1>8. Says(writer, "video", v)
  BY <1>1, <1>2, <1>3
<1>9. PicturesKept(a) /\ Origin("video", 1) = a
  BY <1>4, <1>7, <1>8, FramesAreKept
<1>10. SoundKept(zero)
  <2>1. CASE "audio" \in tracks
    <3>. DEFINE U == all["audio"]
    <3>1. Numbered(U) /\ Says(clip, "audio", U)
      BY <2>1, ClipSays
    <3>2. AudioTaken(U, u, heard, zero)
      BY <2>1, HeardIs DEF u, heard, zero
    <3>3. Says(writer, "audio", u)
      BY <1>2, <1>3, <2>1
    <3>4. heard = {id \in Ids(clip.tables["audio"]) :
                        SampleTime(clip.tables["audio"], id) \in zero..AudioTicks(making.end)}
      BY DEF heard, HeardBetween, AudioCut, zero, Zero
    <3>. HIDE DEF U
    <3>. QED BY <3>1, <3>2, <3>3, <3>4, SoundIsKept
  <2>2. CASE "audio" \notin tracks
    BY <1>5, <2>2 DEF SoundKept
  <2>. QED BY <2>1, <2>2
<1>. QED BY <1>6, <1>9, <1>10, TrimIs

LEMMA ExtractTrue ==
    ASSUME NEW all, ClipHolds(all), "audio" \in DOMAIN all, making.kind = "done",
           "start" \notin DOMAIN making, Complete(writer, Extracted)
    PROVE  TrimSound
<1>. DEFINE S == all["audio"]
            c == Extracted["audio"]
            n == Len(S)
<1>1. S \in Seq(Sample) /\ n >= 1 /\ n \in Nat /\ Says(clip, "audio", S)
  BY ClipSays, LenProperties
<1>2. Playable(Extracted) /\ DOMAIN Extracted = {"audio"} /\ CopyOf(c, S, 1, n)
  BY ExtractedIs
<1>3. Says(writer, "audio", c)
  BY <1>2, CompleteSays
<1>. HIDE DEF S, c, n
<1>4. 1 \in 1..Len(S) /\ n \in 1..Len(S) /\ (n - 1) + 1 = n
  BY <1>1 DEF n
<1>5. SameFrom("audio", 1)
  BY <1>1, <1>2, <1>3, <1>4, CopyReads
<1>6. SampleCount(writer.tables["audio"]) = Len(c) /\ SampleCount(clip.tables["audio"]) = n
  BY <1>1, <1>3 DEF Says, n
<1>7. Len(c) = n
  BY <1>2, <1>4 DEF CopyOf
<1>. QED BY <1>5, <1>6, <1>7 DEF TrimSound

--------------------------------------------------------------------------------
(* The invariant: what the file being made holds and what is left of it make  *)
(* up what it is to hold, and a finished file holds all of it.                *)
Made ==
    IF making.kind = "clip" THEN Prepared(snapshot)
    ELSE IF "start" \in DOMAIN making THEN TrimmedTo(making.start, making.end, DOMAIN todo)
    ELSE Extracted

Making == [kind : {"none", "clip", "saved", "extract", "done"}] \cup [kind : {"trim", "done"}, start : Nat, end : Nat]

Asked ==
    IF "start" \in DOMAIN making
    THEN /\ making.start < making.end
         /\ DOMAIN todo \in {{"video"}, {"video", "audio"}} /\ DOMAIN todo \subseteq DOMAIN Prepared(snapshot)
    ELSE "audio" \in DOMAIN Prepared(snapshot)

AllWritten(rest) == \A track \in DOMAIN rest : rest[track] = <<>>

ClipInv ==
    /\ making \in Making
    /\ making.kind = "none" => snapshot = <<>> /\ todo = <<>> /\ writer = EmptyFile /\ clip = EmptyFile
    /\ making.kind # "none" => IsSnapshot(snapshot)
    /\ making.kind = "clip" => clip = EmptyFile
    /\ making.kind \in {"saved", "trim", "extract", "done"} => ClipHolds(Prepared(snapshot))
    /\ making.kind \in {"clip", "trim", "extract"} => Progress(Made, writer, todo)
    /\ making.kind = "saved" => writer = clip /\ DOMAIN todo = DOMAIN Prepared(snapshot) /\ AllWritten(todo)
    /\ making.kind \in {"trim", "extract", "done"} => Asked
    /\ making.kind = "done" => DOMAIN todo = DOMAIN Made /\ Complete(writer, Made) /\ AllWritten(todo)

LEMMA MakingIs ==
    ASSUME making \in Making
    PROVE  /\ making.kind \in {"none", "clip", "saved", "trim", "extract", "done"} /\ "kind" \in DOMAIN making
           /\ making.kind = "trim" => "start" \in DOMAIN making
           /\ making.kind = "extract" => "start" \notin DOMAIN making
           /\ making.kind \in {"none", "clip", "saved"} => "start" \notin DOMAIN making
           /\ "start" \in DOMAIN making => making.start \in Nat /\ making.end \in Nat
<1>1. CASE making \in [kind : {"none", "clip", "saved", "extract", "done"}]
  <2>1. DOMAIN making = {"kind"}
    BY <1>1
  <2>. QED BY <1>1, <2>1
<1>2. CASE making \in [kind : {"trim", "done"}, start : Nat, end : Nat]
  <2>1. DOMAIN making = {"kind", "start", "end"}
    BY <1>2
  <2>. QED BY <1>2, <2>1
<1>. QED BY <1>1, <1>2 DEF Making

LEMMA ClipInvInit ==
    ASSUME ClipFileInit
    PROVE  ClipInv
<1>1. making = [kind |-> "none"] /\ making \in Making /\ making.kind = "none"
  BY DEF ClipFileInit, Making
<1>. QED BY <1>1 DEF ClipFileInit, ClipInv

(* Making the clip begins.                                                    *)
LEMMA SaveKeeps ==
    ASSUME ClipInv, Save
    PROVE  ClipInv'
<1>1. making.kind = "none" /\ clip = EmptyFile /\ clip' = clip /\ making' = [kind |-> "clip"]
  BY DEF ClipInv, Save
<1>2. PICK n \in 1..MaxVideo, m \in 0..MaxAudio :
       \E kinds \in [1..n -> VideoKinds], steps \in [1..n - 1 -> VideoSteps] :
       \E first \in AudioStarts, pace \in [1..m -> AudioSteps] :
        /\ kinds[1].key
        /\ snapshot' = IF m = 0 THEN [video |-> VideoOf(kinds, steps)]
                       ELSE [video |-> VideoOf(kinds, steps), audio |-> AudioOf(first, pace)]
  BY DEF Save
<1>3. PICK kinds \in [1..n -> VideoKinds], steps \in [1..n - 1 -> VideoSteps] :
       \E first \in AudioStarts, pace \in [1..m -> AudioSteps] :
        /\ kinds[1].key
        /\ snapshot' = IF m = 0 THEN [video |-> VideoOf(kinds, steps)]
                       ELSE [video |-> VideoOf(kinds, steps), audio |-> AudioOf(first, pace)]
  BY <1>2
<1>4. PICK first \in AudioStarts, pace \in [1..m -> AudioSteps] :
        /\ kinds[1].key
        /\ snapshot' = IF m = 0 THEN [video |-> VideoOf(kinds, steps)]
                       ELSE [video |-> VideoOf(kinds, steps), audio |-> AudioOf(first, pace)]
  BY <1>3
<1>5. IsSnapshot(snapshot')
  <2>. DEFINE v == VideoOf(kinds, steps)
              u == AudioOf(first, pace)
              s == snapshot'
  <2>1. n \in Nat /\ n >= 1 /\ m \in Nat /\ kinds[1].key
    BY <1>4, ClipFileAssumption
  <2>2. v \in Seq(VideoPacket) /\ Len(v) = n /\ v[1].key /\ InOrder(v)
    BY <2>1, VideoOfIs
  <2>3. u \in Seq(AudioPacket) /\ Len(u) = m
    BY <2>1, AudioOfIs
  <2>4. s = IF m = 0 THEN [video |-> v] ELSE [video |-> v, audio |-> u]
    BY <1>4
  <2>. HIDE DEF v, u, s
  <2>5. CASE m = 0
    <3>1. DOMAIN s = {"video"} /\ s["video"] = v
      BY <2>4, <2>5
    <3>. QED BY <2>1, <2>2, <3>1 DEF IsSnapshot, s
  <2>6. CASE m # 0
    <3>1. DOMAIN s = {"video", "audio"} /\ s["video"] = v /\ s["audio"] = u
      BY <2>4, <2>6
    <3>2. Len(u) >= 1
      BY <2>1, <2>3, <2>6
    <3>. QED BY <2>1, <2>2, <2>3, <3>1, <3>2 DEF IsSnapshot, s
  <2>. QED BY <2>5, <2>6
<1>. DEFINE all == Prepared(snapshot')
<1>6. Playable(all) /\ DOMAIN all \subseteq {"video", "audio"}
  <2>1. Ready(all)
    BY <1>5, PreparedIs
  <2>. HIDE DEF all
  <2>. QED BY <2>1, ReadySound DEF Ready
<1>7. Progress(all, NewFile(all), all)
  <2>. HIDE DEF all
  <2>. QED BY <1>6, ProgressStarts
<1>8. todo' = all /\ writer' = NewFile(all)
  BY DEF Save, StartWriting, NewFile
<1>9. making'.kind = "clip" /\ making' \in Making
  BY <1>1 DEF Making
<1>10. Made' = all
  BY <1>9 DEF Made
<1>. HIDE DEF all
<1>11. Progress(Made', writer', todo')
  BY <1>7, <1>8, <1>10
<1>. QED BY <1>1, <1>5, <1>9, <1>11 DEF ClipInv

(* A sample is written.                                                       *)
LEMMA WriteKeeps ==
    ASSUME ClipInv, Write
    PROVE  ClipInv'
<1>1. UNCHANGED <<snapshot, making, clip>>
  BY DEF Write
<1>2. PICK track \in DOMAIN todo :
        /\ todo[track] # <<>>
        /\ writer' = WithSample(writer, track, Head(todo[track]))
        /\ todo' = [todo EXCEPT ![track] = Tail(@)]
  BY DEF Write
<1>3. making \in Making
  BY DEF ClipInv
<1>4. making.kind \in {"clip", "trim", "extract"}
  <2>1. making.kind \notin {"saved", "done"}
    BY <1>2 DEF ClipInv, AllWritten
  <2>2. making.kind # "none"
    <3>1. todo = <<>> => DOMAIN todo = {}
      OBVIOUS
    <3>. QED BY <1>2, <3>1 DEF ClipInv
  <2>. QED BY <1>3, <2>1, <2>2, MakingIs
<1>5. DOMAIN todo' = DOMAIN todo
  BY <1>2
<1>6. Made' = Made
  BY <1>1, <1>5 DEF Made, TrimmedTo, Extracted, HeardBetween, Copies
<1>7. Progress(Made, writer', todo')
  <2>1. Progress(Made, writer, todo)
    BY <1>4 DEF ClipInv
  <2>. QED BY <1>2, <2>1, ProgressGoesOn
<1>8. Progress(Made', writer', todo')
  BY <1>6, <1>7
<1>9. making.kind # "clip" => ClipHolds(Prepared(snapshot)) /\ Asked
  BY <1>4 DEF ClipInv
<1>10. making.kind # "clip" => ClipHolds(Prepared(snapshot))' /\ Asked'
  BY <1>1, <1>5, <1>9 DEF ClipHolds, Asked
<1>11. IsSnapshot(snapshot) /\ (making.kind = "clip" => clip = EmptyFile)
  BY <1>4 DEF ClipInv
<1>12. IsSnapshot(snapshot)' /\ (making.kind = "clip" => clip' = EmptyFile)
  BY <1>1, <1>11
<1>13. making' = making
  BY <1>1
<1>. QED BY <1>3, <1>4, <1>8, <1>10, <1>12, <1>13 DEF ClipInv

(* A file is finished.                                                        *)
LEMMA WriteEndKeeps ==
    ASSUME ClipInv, WriteEnd
    PROVE  ClipInv'
<1>1. /\ making.kind \in {"clip", "trim", "extract"} /\ AllWritten(todo)
      /\ writer' = Finished(writer) /\ UNCHANGED <<snapshot, todo>>
      /\ making' = [making EXCEPT !.kind = IF @ = "clip" THEN "saved" ELSE "done"]
      /\ clip' = IF making.kind = "clip" THEN writer' ELSE clip
  BY DEF WriteEnd, AllWritten
<1>2. making \in Making /\ IsSnapshot(snapshot) /\ Progress(Made, writer, todo)
  BY <1>1 DEF ClipInv
<1>3. Complete(writer', Made)
  BY <1>1, <1>2, ProgressEnds DEF AllWritten
<1>4. DOMAIN todo = DOMAIN Made
  BY <1>2 DEF Progress
<1>5. CASE making.kind = "clip"
  <2>1. making' \in Making /\ making'.kind = "saved"
    <3>1. making \in [kind : {"none", "clip", "saved", "extract", "done"}]
      BY <1>2, <1>5 DEF Making
    <3>. QED BY <1>1, <1>5, <3>1 DEF Making
  <2>2. Made = Prepared(snapshot)
    BY <1>5 DEF Made
  <2>3. Complete(clip', Prepared(snapshot)) /\ writer' = clip'
    BY <1>1, <1>3, <1>5, <2>2
  <2>4. Ready(Prepared(snapshot))
    BY <1>2, PreparedIs
  <2>5. ClipHolds(Prepared(snapshot))'
    BY <1>1, <2>3, <2>4 DEF ClipHolds
  <2>6. IsSnapshot(snapshot') /\ DOMAIN todo' = DOMAIN Prepared(snapshot') /\ AllWritten(todo')
    BY <1>1, <1>2, <1>4, <2>2
  <2>. QED BY <2>1, <2>3, <2>5, <2>6 DEF ClipInv
<1>6. CASE making.kind \in {"trim", "extract"}
  <2>1. making' \in Making /\ making'.kind = "done"
    <3>1. CASE making \in [kind : {"none", "clip", "saved", "extract", "done"}]
      BY <1>1, <1>6, <3>1 DEF Making
    <3>2. CASE making \in [kind : {"trim", "done"}, start : Nat, end : Nat]
      <4>1. making'.kind = "done" /\ making'.start = making.start /\ making'.end = making.end
            /\ making' = [kind |-> making'.kind, start |-> making'.start, end |-> making'.end]
        BY <1>1, <1>6, <3>2
      <4>2. making.start \in Nat /\ making.end \in Nat
        BY <3>2
      <4>. QED BY <4>1, <4>2 DEF Making
    <3>. QED BY <1>2, <3>1, <3>2 DEF Making
  <2>2. DOMAIN making' = DOMAIN making
        /\ ("start" \in DOMAIN making => making'.start = making.start /\ making'.end = making.end)
    <3>1. CASE making \in [kind : {"none", "clip", "saved", "extract", "done"}]
      BY <1>1, <3>1
    <3>2. CASE making \in [kind : {"trim", "done"}, start : Nat, end : Nat]
      BY <1>1, <3>2
    <3>. QED BY <1>2, <3>1, <3>2 DEF Making
  <2>3. clip' = clip /\ todo' = todo /\ snapshot' = snapshot
    BY <1>1, <1>6
  <2>4. Made' = Made
    <3>1. making.kind # "clip" /\ making'.kind # "clip"
      BY <1>6, <2>1
    <3>2. CASE "start" \in DOMAIN making
      <4>1. Made = TrimmedTo(making.start, making.end, DOMAIN todo)
        BY <3>1, <3>2 DEF Made
      <4>2. Made' = TrimmedTo(making.start, making.end, DOMAIN todo)'
        BY <2>2, <3>1, <3>2 DEF Made
      <4>3. TrimmedTo(making.start, making.end, DOMAIN todo)' = TrimmedTo(making.start, making.end, DOMAIN todo)
        <5>1. clip' = clip /\ todo' = todo /\ making'.start = making.start /\ making'.end = making.end
          BY <2>2, <2>3, <3>2
        <5>. QED BY <5>1 DEF TrimmedTo, HeardBetween, Copies
      <4>. QED BY <4>1, <4>2, <4>3
    <3>3. CASE "start" \notin DOMAIN making
      <4>1. Made = Extracted /\ Made' = Extracted'
        BY <2>2, <3>1, <3>3 DEF Made
      <4>2. Extracted' = Extracted
        BY <2>3 DEF Extracted, Copies
      <4>. QED BY <4>1, <4>2
    <3>. QED BY <3>2, <3>3
  <2>5. ClipHolds(Prepared(snapshot)) /\ Asked
    BY <1>6 DEF ClipInv
  <2>6. ClipHolds(Prepared(snapshot))' /\ Asked'
    BY <2>2, <2>3, <2>5 DEF ClipHolds, Asked
  <2>7. DOMAIN todo' = DOMAIN Made' /\ Complete(writer', Made') /\ AllWritten(todo') /\ IsSnapshot(snapshot')
    BY <1>1, <1>2, <1>3, <1>4, <2>3, <2>4
  <2>. QED BY <2>1, <2>6, <2>7 DEF ClipInv
<1>. QED BY <1>1, <1>5, <1>6

(* A trim begins.                                                             *)
LEMMA TrimKeeps ==
    ASSUME ClipInv, NEW start \in Cuts, NEW end \in Cuts, NEW included \in BOOLEAN, Trim(start, end, included)
    PROVE  ClipInv'
<1>. DEFINE v == Copies("video", VideoCut(clip.tables["video"], start, end))
            u == Copies("audio", HeardBetween(start, end))
            with == "audio" \in DOMAIN clip.tables /\ included
            all == IF with THEN [video |-> v, audio |-> u] ELSE [video |-> v]
            tracks == IF with THEN {"video", "audio"} ELSE {"video"}
            prepared == Prepared(snapshot)
<1>1. /\ making.kind = "saved" /\ start < end /\ making' = [kind |-> "trim", start |-> start, end |-> end]
      /\ UNCHANGED <<snapshot, clip>>
  BY DEF Trim
<1>2. todo' = all /\ writer' = NewFile(all)
  BY DEF Trim, StartWriting, NewFile, HeardBetween
<1>3. start \in Nat /\ end \in Nat
  BY ClipFileAssumption
<1>4. IsSnapshot(snapshot) /\ ClipHolds(prepared)
  BY <1>1 DEF ClipInv
<1>5. DOMAIN clip.tables = DOMAIN prepared
  <2>1. clip.tables \in [DOMAIN prepared -> TrackTable]
    BY <1>4 DEF ClipHolds, Complete, Written, File
  <2>. HIDE DEF prepared
  <2>. QED BY <2>1
<1>6. all = TrimmedTo(start, end, tracks)
  <2>. HIDE DEF v, u, with
  <2>1. CASE with
    <3>1. [video |-> v, audio |-> u] = [track \in {"video", "audio"} |-> IF track = "video" THEN v ELSE u]
      OBVIOUS
    <3>. QED BY <2>1, <3>1 DEF TrimmedTo, v, u
  <2>2. CASE ~ with
    <3>1. [video |-> v] = [track \in {"video"} |-> IF track = "video" THEN v ELSE u]
      OBVIOUS
    <3>. QED BY <2>2, <3>1 DEF TrimmedTo, v, u
  <2>. QED BY <2>1, <2>2
<1>7. tracks \in {{"video"}, {"video", "audio"}} /\ tracks \subseteq DOMAIN prepared
  <2>1. "video" \in DOMAIN prepared
    BY <1>4 DEF ClipHolds, Ready
  <2>2. with => "audio" \in DOMAIN prepared
    BY <1>5
  <2>. HIDE DEF with, prepared
  <2>. QED BY <2>1, <2>2
<1>. HIDE DEF v, u, with, all, tracks, prepared
<1>8. Playable(all) /\ DOMAIN all = tracks
  BY <1>1, <1>3, <1>4, <1>6, <1>7, TrimmedSound
<1>9. Progress(all, NewFile(all), all)
  <2>1. DOMAIN all \subseteq {"video", "audio"}
    BY <1>7, <1>8
  <2>. QED BY <1>8, <2>1, ProgressStarts
<1>10. /\ making' \in Making /\ making'.kind = "trim" /\ "start" \in DOMAIN making'
       /\ making'.start = start /\ making'.end = end
  BY <1>1, <1>3 DEF Making
<1>11. DOMAIN todo' = tracks
  BY <1>2, <1>8
<1>12. Made' = all
  <2>1. Made' = TrimmedTo(making.start, making.end, DOMAIN todo)'
    BY <1>10 DEF Made
  <2>2. clip' = clip
    BY <1>1
  <2>3. TrimmedTo(making.start, making.end, DOMAIN todo)' = TrimmedTo(start, end, tracks)
    BY <1>10, <1>11, <2>2 DEF TrimmedTo, HeardBetween, Copies
  <2>. QED BY <1>6, <2>1, <2>3
<1>13. Progress(Made', writer', todo')
  BY <1>2, <1>9, <1>12
<1>14. Asked'
  <2>1. Prepared(snapshot)' = prepared
    BY <1>1 DEF prepared
  <2>. QED BY <1>1, <1>7, <1>10, <1>11, <2>1 DEF Asked
<1>15. IsSnapshot(snapshot') /\ ClipHolds(Prepared(snapshot))'
  BY <1>1, <1>4 DEF ClipHolds, prepared
<1>. QED BY <1>10, <1>13, <1>14, <1>15 DEF ClipInv

(* An extraction begins.                                                      *)
LEMMA ExtractKeeps ==
    ASSUME ClipInv, ExtractAudio
    PROVE  ClipInv'
<1>. DEFINE all == Extracted
            prepared == Prepared(snapshot)
<1>1. /\ making.kind = "saved" /\ "audio" \in DOMAIN clip.tables /\ making' = [kind |-> "extract"]
      /\ UNCHANGED <<snapshot, clip>>
  BY DEF ExtractAudio
<1>2. todo' = all /\ writer' = NewFile(all)
  <2>1. [audio |-> Copies("audio", Ids(clip.tables["audio"]))] = Extracted
    BY DEF Extracted
  <2>. QED BY <2>1 DEF ExtractAudio, StartWriting, NewFile
<1>3. IsSnapshot(snapshot) /\ ClipHolds(prepared)
  BY <1>1 DEF ClipInv
<1>4. DOMAIN clip.tables = DOMAIN prepared
  <2>1. clip.tables \in [DOMAIN prepared -> TrackTable]
    BY <1>3 DEF ClipHolds, Complete, Written, File
  <2>. HIDE DEF prepared
  <2>. QED BY <2>1
<1>. HIDE DEF prepared
<1>5. Playable(all) /\ DOMAIN all = {"audio"}
  BY <1>1, <1>3, <1>4, ExtractedIs
<1>6. Progress(all, NewFile(all), all)
  <2>. HIDE DEF all
  <2>. QED BY <1>5, ProgressStarts
<1>7. making' \in Making /\ making'.kind = "extract" /\ "start" \notin DOMAIN making'
  BY <1>1 DEF Making
<1>8. Made' = all
  <2>1. clip' = clip
    BY <1>1
  <2>. QED BY <1>7, <2>1 DEF Made, Extracted, Copies
<1>. HIDE DEF all
<1>9. Progress(Made', writer', todo')
  BY <1>2, <1>6, <1>8
<1>10. Asked'
  BY <1>1, <1>4, <1>7 DEF Asked, prepared
<1>11. IsSnapshot(snapshot') /\ ClipHolds(Prepared(snapshot))'
  BY <1>1, <1>3 DEF ClipHolds, prepared
<1>. QED BY <1>7, <1>9, <1>10, <1>11 DEF ClipInv

LEMMA ClipInvNext ==
    ASSUME ClipInv, [ClipFileNext]_clipFileVars
    PROVE  ClipInv'
<1>1. CASE Save
  BY <1>1, SaveKeeps
<1>2. CASE Write
  BY <1>2, WriteKeeps
<1>3. CASE WriteEnd
  BY <1>3, WriteEndKeeps
<1>4. CASE ExtractAudio
  BY <1>4, ExtractKeeps
<1>5. ASSUME NEW start \in Cuts, NEW end \in Cuts, NEW included \in BOOLEAN, Trim(start, end, included)
      PROVE  ClipInv'
  BY <1>5, TrimKeeps
<1>6. CASE UNCHANGED clipFileVars
  <2>1. UNCHANGED <<snapshot, making, todo, writer, clip>>
    BY <1>6 DEF clipFileVars
  <2>2. Made' = Made
    BY <2>1 DEF Made, TrimmedTo, Extracted, HeardBetween, Copies
  <2>. QED BY <2>1, <2>2 DEF ClipInv, ClipHolds, Asked
<1>. QED BY <1>1, <1>2, <1>3, <1>4, <1>5, <1>6 DEF ClipFileNext

(* The file is sound in every state of the invariant.                         *)
LEMMA ClipInvSound ==
    ASSUME ClipInv
    PROVE  ClipFileSound
<1>1. FileTrue
  <2>1. CASE making.kind \in {"none", "clip"}
    BY <2>1 DEF FileTrue
  <2>2. CASE making.kind \notin {"none", "clip"}
    <3>1. making.kind \in {"saved", "trim", "extract", "done"}
      BY <2>2, MakingIs DEF ClipInv
    <3>2. IsSnapshot(snapshot) /\ Complete(clip, Prepared(snapshot))
      BY <3>1 DEF ClipInv, ClipHolds
    <3>. QED BY <3>2, ClipTrue
  <2>. QED BY <2>1, <2>2
<1>2. TrimSound
  <2>1. CASE making.kind # "done"
    BY <2>1 DEF TrimSound
  <2>2. CASE making.kind = "done"
    <3>. DEFINE all == Prepared(snapshot)
    <3>1. ClipHolds(all) /\ Asked /\ Complete(writer, Made)
      BY <2>2 DEF ClipInv
    <3>. HIDE DEF all
    <3>2. CASE "start" \in DOMAIN making
      <4>1. Made = TrimmedTo(making.start, making.end, DOMAIN todo)
        BY <2>2, <3>2 DEF Made
      <4>2. making.start \in Nat /\ making.end \in Nat
        BY <3>2, MakingIs DEF ClipInv
      <4>3. /\ making.start < making.end /\ DOMAIN todo \in {{"video"}, {"video", "audio"}}
            /\ DOMAIN todo \subseteq DOMAIN all
        BY <3>1, <3>2 DEF Asked, all
      <4>4. Complete(writer, TrimmedTo(making.start, making.end, DOMAIN todo))
        BY <3>1, <4>1
      <4>. QED BY <2>2, <3>1, <3>2, <4>2, <4>3, <4>4, TrimTrue
    <3>3. CASE "start" \notin DOMAIN making
      <4>1. Made = Extracted
        BY <2>2, <3>3 DEF Made
      <4>2. "audio" \in DOMAIN all
        BY <3>1, <3>3 DEF Asked, all
      <4>. QED BY <2>2, <3>1, <3>3, <4>1, <4>2, ExtractTrue
    <3>. QED BY <3>2, <3>3
  <2>. QED BY <2>1, <2>2
<1>. QED BY <1>1, <1>2 DEF ClipFileSound

LEMMA ClipInvTypes ==
    ASSUME ClipInv
    PROVE  ClipFileTypeOK
<1>. DEFINE prepared == Prepared(snapshot)
<1>1. making.kind \in {"none", "clip", "saved", "trim", "extract", "done"}
  BY MakingIs DEF ClipInv
<1>2. CASE making.kind = "none"
  <2>1. snapshot = <<>> /\ todo = <<>> /\ writer = EmptyFile /\ clip = EmptyFile
    BY <1>2 DEF ClipInv
  <2>2. DOMAIN snapshot = {} /\ DOMAIN todo = {}
    BY <2>1
  <2>. QED BY <1>2, <2>1, <2>2 DEF ClipFileTypeOK
<1>3. CASE making.kind # "none"
  <2>1. IsSnapshot(snapshot)
    BY <1>3 DEF ClipInv
  <2>2. DOMAIN snapshot \subseteq {"video", "audio"}
    BY <2>1 DEF IsSnapshot
  <2>3. Ready(prepared) /\ DOMAIN prepared \subseteq {"video", "audio"}
    BY <2>1, <2>2, PreparedIs
  <2>. HIDE DEF prepared
  <2>4. (clip = EmptyFile) = (making.kind \in {"none", "clip"})
    <3>1. CASE making.kind = "clip"
      BY <3>1 DEF ClipInv
    <3>2. CASE making.kind \in {"saved", "trim", "extract", "done"}
      <4>1. clip \in File(DOMAIN prepared)
        BY <3>2 DEF ClipInv, ClipHolds, Complete, Written, prepared
      <4>2. "tables" \in DOMAIN clip /\ "tables" \notin DOMAIN EmptyFile
        BY <4>1 DEF File, EmptyFile
      <4>. QED BY <3>2, <4>2
    <3>. QED BY <1>1, <1>3, <3>1, <3>2
  <2>5. DOMAIN todo \subseteq {"video", "audio"} /\ DOMAIN writer.tables = DOMAIN todo
    <3>1. CASE making.kind \in {"clip", "trim", "extract"}
      <4>1. Progress(Made, writer, todo)
        BY <3>1 DEF ClipInv
      <4>2. DOMAIN Made \subseteq {"video", "audio"} /\ DOMAIN todo = DOMAIN Made /\ writer.tables \in [DOMAIN Made -> TrackTable]
        BY <4>1 DEF Progress, Written, File
      <4>. QED BY <4>2
    <3>2. CASE making.kind = "saved"
      <4>1. writer = clip /\ DOMAIN todo = DOMAIN prepared /\ clip.tables \in [DOMAIN prepared -> TrackTable]
        BY <3>2 DEF ClipInv, ClipHolds, Complete, Written, File, prepared
      <4>. QED BY <2>3, <4>1
    <3>3. CASE making.kind = "done"
      <4>1. DOMAIN todo = DOMAIN Made /\ writer.tables \in [DOMAIN Made -> TrackTable]
        BY <3>3 DEF ClipInv, Complete, Written, File
      <4>2. "start" \in DOMAIN making => DOMAIN todo \subseteq {"video", "audio"}
        BY <3>3 DEF ClipInv, Asked
      <4>3. "start" \notin DOMAIN making => DOMAIN Made = {"audio"}
        BY <3>3 DEF Made, Extracted
      <4>. QED BY <4>1, <4>2, <4>3
    <3>. QED BY <1>1, <1>3, <3>1, <3>2, <3>3
  <2>. QED BY <1>1, <2>2, <2>4, <2>5 DEF ClipFileTypeOK
<1>. QED BY <1>2, <1>3

(* Every state of a clip file satisfies the invariant.                        *)
THEOREM ClipFileInvariant == ClipFileSpec => []ClipInv
<1>1. ClipFileInit => ClipInv
  BY ClipInvInit
<1>2. ClipInv /\ [ClipFileNext]_clipFileVars => ClipInv'
  BY ClipInvNext
<1>. QED BY <1>1, <1>2, PTL DEF ClipFileSpec

(* The types of the clip file: its tables and its samples go together.        *)
THEOREM ClipFileTypeCorrect == ClipFileSpec => []ClipFileTypeOK
<1>1. ClipInv => ClipFileTypeOK
  BY ClipInvTypes
<1>. QED BY <1>1, ClipFileInvariant, PTL

(* Whatever the packets, their sizes and their times, a clip reads as it was  *)
(* written, and a trimmed clip or an extracted track reads as the part of the *)
(* clip it was asked to be.                                                   *)
THEOREM ClipFileAlwaysSound == ClipFileSpec => []ClipFileSound
<1>1. ClipInv => ClipFileSound
  BY ClipInvSound
<1>. QED BY <1>1, ClipFileInvariant, PTL
=============================================================================
