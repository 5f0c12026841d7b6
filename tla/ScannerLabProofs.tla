-------------------------- MODULE ScannerLabProofs --------------------------
(***************************************************************************)
(* ScannerLab implements EventFeed, and its detectors do not look ahead,   *)
(* for every universe, every day, every number of failing calls and deaths *)
(* of the process, and with a fetch that returns the newest bars only.     *)
(***************************************************************************)
EXTENDS ScannerLab, NaturalsInduction, WellFoundedInduction, SequenceTheorems, TLAPS

(* What a prefix of the day shows.  seq is the bars of a scan: the first n   *)
(* bars of the day, and perhaps one more that is not over at slot s.         *)

ScanOf(seq, whole, n, s) ==
    /\ seq \in Seq(Bar) /\ whole \in Seq(Bar) /\ n \in 0 .. Len(whole)
    /\ Len(seq) \in {n, n + 1}
    /\ \A i \in 1 .. n : seq[i] = whole[i] /\ seq[i].ts < s
    /\ Len(seq) = n + 1 => seq[n + 1].ts = s

\* A set of natural numbers has a first one, and only one.
LEMMA FirstIs ==
    ASSUME NEW S \in SUBSET Nat, NEW i \in S, \A j \in S : i <= j
    PROVE  First(S) = i
<1>1. \A k \in S : (\A j \in S : k <= j) => k = i
  <2> SUFFICES ASSUME NEW k \in S, \A j \in S : k <= j PROVE k = i
    OBVIOUS
  <2>1. k <= i /\ i <= k /\ k \in Nat /\ i \in Nat
    OBVIOUS
  <2>2. QED BY <2>1
<1>2. QED BY <1>1 DEF First

LEMMA FirstExists ==
    ASSUME NEW S \in SUBSET Nat, S # {}
    PROVE  First(S) \in S /\ \A j \in S : First(S) <= j
<1>1. PICK i \in S : \A j \in S : ~(<<j, i>> \in OpToRel(<, Nat))
  BY NatLessThanWellFounded, WFMin
<1>2. \A j \in S : i <= j
  <2>1. \A j \in S : ~(j < i)
    BY <1>1 DEF OpToRel
  <2>2. QED BY <2>1
<1>3. QED BY <1>2 DEF First

\* Two sets that agree up to the first element of one have the same first element.
LEMMA FirstAgrees ==
    ASSUME NEW S \in SUBSET Nat, NEW T \in SUBSET Nat, NEW n \in Nat, S # {}, First(S) <= n,
           \A i \in Nat : i <= n => (i \in S <=> i \in T)
    PROVE  T # {} /\ First(T) = First(S)
<1>1. First(S) \in S /\ \A j \in S : First(S) <= j
  BY FirstExists
<1>2. First(S) \in T /\ First(S) \in Nat
  BY <1>1
<1>3. ASSUME NEW j \in T PROVE First(S) <= j
  <2>1. CASE j <= n
    BY <1>1, <2>1
  <2>2. CASE n < j
    BY <1>2, <2>2
  <2>3. QED BY <2>1, <2>2
<1>4. QED BY <1>2, <1>3, FirstIs

LEMMA BarsOfScan ==
    ASSUME NEW seq, NEW whole, NEW n, NEW s, ScanOf(seq, whole, n, s)
    PROVE  /\ n \in Nat /\ Len(seq) \in Nat /\ Len(whole) \in Nat /\ n <= Len(seq) /\ n <= Len(whole)
           /\ DOMAIN seq = 1 .. Len(seq) /\ DOMAIN whole = 1 .. Len(whole)
           /\ \A i \in 1 .. n : i \in DOMAIN seq /\ i \in DOMAIN whole /\ seq[i] = whole[i]
           /\ \A i \in DOMAIN seq : seq[i] \in Bar
           /\ \A i \in DOMAIN whole : whole[i] \in Bar
           /\ \A i \in DOMAIN seq : seq[i].ts # s => i <= n
<1>1. n \in Nat /\ Len(seq) \in Nat /\ Len(whole) \in Nat /\ n <= Len(seq) /\ n <= Len(whole)
  BY DEF ScanOf
<1>2. DOMAIN seq = 1 .. Len(seq) /\ DOMAIN whole = 1 .. Len(whole)
  BY DEF ScanOf
<1>3. \A i \in 1 .. n : i \in DOMAIN seq /\ i \in DOMAIN whole /\ seq[i] = whole[i]
  <2>1. \A i \in 1 .. n : seq[i] = whole[i]
    BY DEF ScanOf
  <2>2. \A i \in 1 .. n : i \in DOMAIN seq /\ i \in DOMAIN whole
    BY <1>1, <1>2
  <2>3. QED BY <2>1, <2>2
<1>4. \A i \in DOMAIN seq : seq[i] \in Bar
  BY DEF ScanOf
<1>5. \A i \in DOMAIN whole : whole[i] \in Bar
  BY DEF ScanOf
<1>6. \A i \in DOMAIN seq : seq[i].ts # s => i <= n
  <2>1. CASE Len(seq) = n
    BY <1>1, <1>2, <2>1
  <2>2. CASE Len(seq) = n + 1
    <3>1. seq[n + 1].ts = s
      BY <2>2 DEF ScanOf
    <3>2. \A i \in 1 .. n + 1 : i = n + 1 \/ i <= n
      BY <1>1
    <3>3. QED BY <1>2, <2>2, <3>1, <3>2
  <2>3. QED BY <2>1, <2>2 DEF ScanOf
<1>7. QED BY <1>1, <1>2, <1>3, <1>4, <1>5, <1>6

\* The event does not rest on the bar that is not over.
OverBy(seq, n, s, event) == Len(seq) = n \/ event.confirm # s

LEMMA OverBar ==
    ASSUME NEW seq, NEW whole, NEW n, NEW s, ScanOf(seq, whole, n, s),
           NEW i \in DOMAIN seq, NEW j \in DOMAIN seq, OverBy(seq, n, s, Found(seq[i], seq[j]))
    PROVE  j <= n
<1>1. Found(seq[i], seq[j]).confirm = seq[j].ts
  BY DEF Found
<1>2. CASE seq[j].ts # s
  BY <1>2, BarsOfScan
<1>3. CASE Len(seq) = n
  BY <1>3, BarsOfScan
<1>4. QED BY <1>1, <1>2, <1>3 DEF OverBy

\* If triggers and failures are the same for the bars both have, so is what is found.
LEMMA FirstRejectedAgrees ==
    ASSUME NEW seq, NEW whole, NEW n, NEW s, ScanOf(seq, whole, n, s),
           NEW TA \in SUBSET DOMAIN seq, NEW FA \in SUBSET DOMAIN seq,
           NEW TB \in SUBSET DOMAIN whole, NEW FB \in SUBSET DOMAIN whole,
           \A i \in 1 .. n : (i \in TA <=> i \in TB) /\ (i \in FA <=> i \in FB),
           FirstRejected(seq, TA, FA) # None,
           OverBy(seq, n, s, FirstRejected(seq, TA, FA))
    PROVE  FirstRejected(whole, TB, FB) = FirstRejected(seq, TA, FA)
<1> DEFINE i == First(TA)
           CA == Following(seq, i) \intersect FA
           CB == Following(whole, i) \intersect FB
           j == First(CA)
<1>1. /\ n \in Nat /\ Len(seq) \in Nat /\ Len(whole) \in Nat
      /\ DOMAIN seq = 1 .. Len(seq) /\ DOMAIN whole = 1 .. Len(whole)
      /\ \A k \in 1 .. n : k \in DOMAIN seq /\ k \in DOMAIN whole /\ seq[k] = whole[k]
  BY BarsOfScan
<1>2. TA # {} /\ CA # {} /\ FirstRejected(seq, TA, FA) = Found(seq[i], seq[j])
  BY DEF FirstRejected
<1>3. /\ TA \in SUBSET Nat /\ TB \in SUBSET Nat /\ CA \in SUBSET Nat /\ CB \in SUBSET Nat
      /\ \A k \in TA \union TB \union CA \union CB : k >= 1
  BY <1>1 DEF Following
<1>4. i \in TA /\ j \in CA
  BY <1>2, <1>3, FirstExists
<1>5. j > i /\ j \in DOMAIN seq /\ i \in DOMAIN seq
  BY <1>4 DEF Following
<1>6. j <= n /\ i <= n
  <2>1. j <= n
    BY <1>2, <1>5, OverBar
  <2>2. QED BY <1>1, <1>5, <2>1
<1>7. TB # {} /\ First(TB) = i
  <2>1. \A k \in Nat : k <= n => (k \in TA <=> k \in TB)
    BY <1>1, <1>3
  <2>2. QED BY <1>1, <1>2, <1>3, <1>6, <2>1, FirstAgrees
<1>8. CB # {} /\ First(CB) = j
  <2>1. i \in 1 .. n /\ seq[i] = whole[i]
    BY <1>1, <1>5, <1>6
  <2>2. \A k \in 1 .. n : k \in CA <=> k \in CB
    BY <1>1, <2>1 DEF Following
  <2>3. \A k \in Nat : k <= n => (k \in CA <=> k \in CB)
    BY <1>1, <1>3, <2>2
  <2> HIDE DEF CA, CB
  <2>4. QED BY <1>1, <1>2, <1>3, <1>6, <2>3, FirstAgrees
<1>9. seq[i] = whole[i] /\ seq[j] = whole[j]
  BY <1>1, <1>5, <1>6
<1>10. QED BY <1>2, <1>7, <1>8, <1>9 DEF FirstRejected

-----------------------------------------------------------------------------
(* The running sums of the VWAP. *)

\* What the recursive definition stands for: a sum over the first i addends, for every i.
IsSum(sum, addend, S) ==
    sum = [i \in S |-> IF i = 0 THEN 0 ELSE sum[i - 1] + addend[i]]

LEMMA SumExists ==
    ASSUME NEW addend, NEW N \in Nat
    PROVE  \E sum : IsSum(sum, addend, 0 .. N)
<1> DEFINE bad == {m \in Nat : ~ \E sum : IsSum(sum, addend, 0 .. m)}
<1> SUFFICES ASSUME bad # {} PROVE FALSE
  OBVIOUS
<1>1. First(bad) \in bad /\ \A j \in bad : First(bad) <= j
  BY FirstExists
<1>2. PICK m \in Nat : m = First(bad)
  BY <1>1
<1>3. ~ \E sum : IsSum(sum, addend, 0 .. m)
  BY <1>1, <1>2
<1>4. m # 0
  <2> SUFFICES ASSUME m = 0 PROVE FALSE
    OBVIOUS
  <2>1. IsSum([i \in 0 .. 0 |-> 0], addend, 0 .. 0)
    BY DEF IsSum
  <2>2. QED BY <1>3, <2>1
<1>5. m - 1 \in Nat /\ m - 1 \notin bad
  <2>1. m - 1 \in Nat /\ ~(m <= m - 1)
    BY <1>4
  <2>2. QED BY <1>1, <1>2, <2>1
<1>6. PICK sum : IsSum(sum, addend, 0 .. m - 1)
  BY <1>5
<1> DEFINE more == [i \in 0 .. m |-> IF i = m THEN sum[m - 1] + addend[m] ELSE sum[i]]
<1>7. IsSum(more, addend, 0 .. m)
  <2>1. ASSUME NEW i \in 0 .. m
        PROVE  more[i] = IF i = 0 THEN 0 ELSE more[i - 1] + addend[i]
    <3>1. CASE i = m
      <4>1. m - 1 \in 0 .. m /\ m - 1 # m
        BY <1>4
      <4>2. more[i - 1] = sum[m - 1]
        BY <3>1, <4>1
      <4>3. QED BY <1>4, <3>1, <4>2
    <3>2. CASE i # m
      <4>1. i \in 0 .. m - 1
        BY <3>2
      <4>2. sum[i] = IF i = 0 THEN 0 ELSE sum[i - 1] + addend[i]
        BY <1>6, <4>1 DEF IsSum
      <4>3. i # 0 => i - 1 \in 0 .. m /\ i - 1 # m
        BY <4>1
      <4>4. i # 0 => more[i - 1] = sum[i - 1]
        BY <4>3
      <4>5. QED BY <3>2, <4>2, <4>4
    <3>3. QED BY <3>1, <3>2
  <2> HIDE DEF more
  <2>2. more = [i \in 0 .. m |-> more[i]]
    BY DEF more
  <2>3. QED BY <2>1, <2>2 DEF IsSum
<1>8. QED BY <1>3, <1>7

LEMMA RunningSumIs ==
    ASSUME NEW N \in Nat, NEW addend, DOMAIN addend = 1 .. N
    PROVE  \A i \in 0 .. N :
               RunningSum(addend)[i] = IF i = 0 THEN 0 ELSE RunningSum(addend)[i - 1] + addend[i]
<1>1. {0} \union DOMAIN addend = 0 .. N
  OBVIOUS
<1>2. RunningSum(addend) = CHOOSE sum : IsSum(sum, addend, 0 .. N)
  BY <1>1 DEF RunningSum, IsSum
<1>3. IsSum(RunningSum(addend), addend, 0 .. N)
  BY <1>2, SumExists
<1>4. QED BY <1>3 DEF IsSum

\* Two days that agree on their first n addends have the same first n sums.
LEMMA RunningSumAgrees ==
    ASSUME NEW M \in Nat, NEW N \in Nat, NEW n \in Nat, n <= M, n <= N,
           NEW f, NEW g, DOMAIN f = 1 .. M, DOMAIN g = 1 .. N,
           \A i \in 1 .. n : f[i] = g[i]
    PROVE  \A i \in 0 .. n : RunningSum(f)[i] = RunningSum(g)[i]
<1> DEFINE bad == {i \in 0 .. n : RunningSum(f)[i] # RunningSum(g)[i]}
<1> SUFFICES ASSUME bad # {} PROVE FALSE
  OBVIOUS
<1>1. bad \in SUBSET Nat
  OBVIOUS
<1>2. First(bad) \in bad /\ \A j \in bad : First(bad) <= j
  BY <1>1, FirstExists
<1>3. PICK i \in 0 .. n : i \in bad /\ \A j \in bad : i <= j
  BY <1>2
<1>4. /\ RunningSum(f)[i] = IF i = 0 THEN 0 ELSE RunningSum(f)[i - 1] + f[i]
      /\ RunningSum(g)[i] = IF i = 0 THEN 0 ELSE RunningSum(g)[i - 1] + g[i]
  <2>1. i \in 0 .. M /\ i \in 0 .. N
    OBVIOUS
  <2>2. QED BY <2>1, RunningSumIs
<1>5. i # 0
  BY <1>3, <1>4
<1>6. i - 1 \in 0 .. n /\ i - 1 \notin bad /\ i \in 1 .. n
  BY <1>3, <1>5
<1>7. RunningSum(f)[i - 1] = RunningSum(g)[i - 1] /\ f[i] = g[i]
  BY <1>6
<1>8. QED BY <1>3, <1>4, <1>5, <1>7

-----------------------------------------------------------------------------
(* Every detector finds in a scan what it finds in the day. *)

LEMMA FailedBreakoutAgrees ==
    ASSUME NEW seq, NEW whole, NEW n, NEW s, ScanOf(seq, whole, n, s), NEW prior,
           FailedBreakout(seq, prior) # None,
           OverBy(seq, n, s, FailedBreakout(seq, prior))
    PROVE  FailedBreakout(whole, prior) = FailedBreakout(seq, prior)
<1> DEFINE T(b) == {i \in DOMAIN b : InWindow(b[i]) /\ b[i].close > prior.high}
           F(b) == {j \in DOMAIN b : b[j].close < prior.high}
<1>1. ~(prior.high <= 0)
  BY DEF FailedBreakout
<1>2. \A b : FailedBreakout(b, prior) = FirstRejected(b, T(b), F(b))
  BY <1>1 DEF FailedBreakout
<1>3. \A i \in 1 .. n : (i \in T(seq) <=> i \in T(whole)) /\ (i \in F(seq) <=> i \in F(whole))
  BY BarsOfScan
<1>4. /\ T(seq) \in SUBSET DOMAIN seq /\ F(seq) \in SUBSET DOMAIN seq
      /\ T(whole) \in SUBSET DOMAIN whole /\ F(whole) \in SUBSET DOMAIN whole
  OBVIOUS
<1> HIDE DEF T, F
<1>5. QED BY <1>2, <1>3, <1>4, FirstRejectedAgrees

LEMMA SumsOfScan ==
    ASSUME NEW seq, NEW whole, NEW n, NEW s, ScanOf(seq, whole, n, s)
    PROVE  \A i \in 1 .. n : /\ TypicalVolume(seq)[i] = TypicalVolume(whole)[i]
                             /\ Volume(seq)[i] = Volume(whole)[i]
<1> DEFINE pv(b) == [i \in DOMAIN b |-> (b[i].high + b[i].low + b[i].close) * b[i].volume]
           vol(b) == [i \in DOMAIN b |-> b[i].volume]
<1>1. /\ n \in Nat /\ Len(seq) \in Nat /\ Len(whole) \in Nat /\ n <= Len(seq) /\ n <= Len(whole)
      /\ DOMAIN seq = 1 .. Len(seq) /\ DOMAIN whole = 1 .. Len(whole)
      /\ \A i \in 1 .. n : i \in DOMAIN seq /\ i \in DOMAIN whole /\ seq[i] = whole[i]
  BY BarsOfScan
<1>2. \A i \in 1 .. n : pv(seq)[i] = pv(whole)[i] /\ vol(seq)[i] = vol(whole)[i]
  BY <1>1
<1>3. /\ DOMAIN pv(seq) = 1 .. Len(seq) /\ DOMAIN vol(seq) = 1 .. Len(seq)
      /\ DOMAIN pv(whole) = 1 .. Len(whole) /\ DOMAIN vol(whole) = 1 .. Len(whole)
  BY <1>1
<1>4. \A b : TypicalVolume(b) = RunningSum(pv(b)) /\ Volume(b) = RunningSum(vol(b))
  BY DEF TypicalVolume, Volume
<1> HIDE DEF pv, vol
<1>5. ASSUME NEW f, NEW g, DOMAIN f = 1 .. Len(seq), DOMAIN g = 1 .. Len(whole),
             \A i \in 1 .. n : f[i] = g[i]
      PROVE  \A i \in 0 .. n : RunningSum(f)[i] = RunningSum(g)[i]
  <2>1. n \in Nat /\ Len(seq) \in Nat /\ Len(whole) \in Nat /\ n <= Len(seq) /\ n <= Len(whole)
    BY BarsOfScan
  <2>2. QED BY <1>5, <2>1, RunningSumAgrees
<1>6. \A i \in 0 .. n : /\ RunningSum(pv(seq))[i] = RunningSum(pv(whole))[i]
                       /\ RunningSum(vol(seq))[i] = RunningSum(vol(whole))[i]
  BY <1>2, <1>3, <1>5
<1>7. QED BY <1>1, <1>4, <1>6

LEMMA VwapRejectAgrees ==
    ASSUME NEW seq, NEW whole, NEW n, NEW s, ScanOf(seq, whole, n, s), NEW prior,
           VwapReject(seq, prior) # None,
           OverBy(seq, n, s, VwapReject(seq, prior))
    PROVE  VwapReject(whole, prior) = VwapReject(seq, prior)
<1> DEFINE T(b) == {i \in DOMAIN b :
                       /\ InWindow(b[i]) /\ Volume(b)[i] > 0
                       /\ 3000 * b[i].close * Volume(b)[i] >= 1003 * TypicalVolume(b)[i]}
           F(b) == {j \in DOMAIN b :
                       /\ Volume(b)[j] > 0
                       /\ 3 * b[j].close * Volume(b)[j] < TypicalVolume(b)[j]}
<1>1. \A b : VwapReject(b, prior) = FirstRejected(b, T(b), F(b))
  BY DEF VwapReject
<1>2. \A i \in 1 .. n : (i \in T(seq) <=> i \in T(whole)) /\ (i \in F(seq) <=> i \in F(whole))
  <2> TAKE i \in 1 .. n
  <2>1. i \in DOMAIN seq /\ i \in DOMAIN whole /\ seq[i] = whole[i]
    BY BarsOfScan
  <2>2. TypicalVolume(seq)[i] = TypicalVolume(whole)[i] /\ Volume(seq)[i] = Volume(whole)[i]
    BY SumsOfScan
  <2>3. i \in T(seq) <=> i \in T(whole)
    BY <2>1, <2>2
  <2>4. i \in F(seq) <=> i \in F(whole)
    BY <2>1, <2>2
  <2>5. QED BY <2>3, <2>4
<1>3. /\ T(seq) \in SUBSET DOMAIN seq /\ F(seq) \in SUBSET DOMAIN seq
      /\ T(whole) \in SUBSET DOMAIN whole /\ F(whole) \in SUBSET DOMAIN whole
  OBVIOUS
<1> HIDE DEF T, F
<1>4. QED BY <1>1, <1>2, <1>3, FirstRejectedAgrees

LEMMA GapFadeAgrees ==
    ASSUME NEW seq, NEW whole, NEW n, NEW s, ScanOf(seq, whole, n, s), NEW prior,
           GapFade(seq, prior) # None,
           OverBy(seq, n, s, GapFade(seq, prior))
    PROVE  GapFade(whole, prior) = GapFade(seq, prior)
<1> DEFINE fades(b) == {j \in DOMAIN b \ (1 .. OpeningRange) :
                           /\ b[j].ts < GapCutoff
                           /\ \A i \in 1 .. OpeningRange : b[j].close < b[i].low}
           j == First(fades(seq))
<1>1. /\ n \in Nat /\ Len(seq) \in Nat /\ Len(whole) \in Nat /\ n <= Len(seq) /\ n <= Len(whole)
      /\ DOMAIN seq = 1 .. Len(seq) /\ DOMAIN whole = 1 .. Len(whole)
      /\ \A i \in 1 .. n : i \in DOMAIN seq /\ i \in DOMAIN whole /\ seq[i] = whole[i]
  BY BarsOfScan
<1>2. \A b : GapFade(b, prior) =
          IF \/ prior.close <= 0 \/ Len(b) <= OpeningRange
             \/ 100 * b[1].open < 102 * prior.close \/ fades(b) = {}
          THEN None ELSE Found(b[1], b[First(fades(b))])
  BY DEF GapFade
<1>3. fades(seq) \in SUBSET Nat /\ fades(whole) \in SUBSET Nat
  BY <1>1
<1>4. fades(seq) \subseteq DOMAIN seq \ (1 .. OpeningRange)
  OBVIOUS
<1>5. OpeningRange \in Nat
  BY ClockAssumption
<1>6. /\ ~(prior.close <= 0) /\ ~(100 * seq[1].open < 102 * prior.close) /\ fades(seq) # {}
      /\ GapFade(seq, prior) = Found(seq[1], seq[j])
  <2> HIDE DEF fades
  <2>1. QED BY <1>2
<1>7. j \in fades(seq) /\ j \in DOMAIN seq /\ j \notin 1 .. OpeningRange
  <2>1. j \in fades(seq)
    <3> HIDE DEF fades
    <3>1. QED BY <1>3, <1>6, FirstExists
  <2>2. QED BY <1>4, <2>1
<1>8. j <= n /\ OpeningRange < j /\ j \in Nat /\ j >= 1
  <2>1. 1 \in DOMAIN seq
    BY <1>1, <1>7
  <2>2. j <= n
    BY <1>6, <1>7, <2>1, OverBar
  <2>3. QED BY <1>1, <1>5, <1>7, <2>2
<1>9. \A i \in Nat : i <= n => (i \in fades(seq) <=> i \in fades(whole))
  <2> SUFFICES ASSUME NEW i \in Nat, i <= n PROVE i \in fades(seq) <=> i \in fades(whole)
    OBVIOUS
  <2>1. \A k \in 1 .. OpeningRange : seq[k] = whole[k]
    BY <1>1, <1>5, <1>8
  <2>2. CASE i = 0
    BY <1>1, <2>2
  <2>3. CASE i # 0
    BY <1>1, <2>1, <2>3
  <2>4. QED BY <2>2, <2>3
<1> HIDE DEF fades
<1>10. fades(whole) # {} /\ First(fades(whole)) = j
  BY <1>1, <1>3, <1>6, <1>8, <1>9, FirstAgrees
<1>11. seq[1] = whole[1] /\ seq[j] = whole[j] /\ ~(Len(whole) <= OpeningRange)
  BY <1>1, <1>5, <1>8
<1>12. QED BY <1>2, <1>6, <1>10, <1>11

LEMMA PriorLowBreakAgrees ==
    ASSUME NEW seq, NEW whole, NEW n, NEW s, ScanOf(seq, whole, n, s), NEW prior,
           PriorLowBreak(seq, prior) # None,
           OverBy(seq, n, s, PriorLowBreak(seq, prior))
    PROVE  PriorLowBreak(whole, prior) = PriorLowBreak(seq, prior)
<1> DEFINE breaks(b) == {i \in DOMAIN b : InWindow(b[i]) /\ b[i].close < prior.low}
           i == First(breaks(seq))
<1>1. /\ n \in Nat /\ Len(seq) \in Nat /\ Len(whole) \in Nat /\ n <= Len(seq) /\ n <= Len(whole)
      /\ DOMAIN seq = 1 .. Len(seq) /\ DOMAIN whole = 1 .. Len(whole)
      /\ \A k \in 1 .. n : k \in DOMAIN seq /\ k \in DOMAIN whole /\ seq[k] = whole[k]
  BY BarsOfScan
<1>2. \A b : PriorLowBreak(b, prior) =
          IF \/ prior.low <= 0 \/ breaks(b) = {} \/ First(breaks(b)) + 1 \notin DOMAIN b
             \/ b[First(breaks(b)) + 1].close >= prior.low
          THEN None ELSE Found(b[First(breaks(b))], b[First(breaks(b)) + 1])
  BY DEF PriorLowBreak
<1>3. /\ breaks(seq) \in SUBSET Nat /\ breaks(whole) \in SUBSET Nat
      /\ breaks(seq) \subseteq DOMAIN seq
      /\ \A k \in 1 .. n : k \in breaks(seq) <=> k \in breaks(whole)
      /\ 0 \notin breaks(seq) /\ 0 \notin breaks(whole)
  BY <1>1
<1> HIDE DEF breaks
<1>4. /\ ~(prior.low <= 0) /\ breaks(seq) # {} /\ i + 1 \in DOMAIN seq
      /\ ~(seq[i + 1].close >= prior.low)
      /\ PriorLowBreak(seq, prior) = Found(seq[i], seq[i + 1])
  BY <1>2
<1>5. i \in breaks(seq) /\ i \in DOMAIN seq
  BY <1>3, <1>4, FirstExists
<1>6. i + 1 <= n /\ i \in Nat /\ i <= n /\ i >= 1
  <2>1. i + 1 <= n
    BY <1>4, <1>5, OverBar
  <2>2. QED BY <1>1, <1>5, <2>1
<1>7. breaks(whole) # {} /\ First(breaks(whole)) = i
  <2>1. \A k \in Nat : k <= n => (k \in breaks(seq) <=> k \in breaks(whole))
    BY <1>1, <1>3
  <2>2. QED BY <1>1, <1>3, <1>4, <1>6, <2>1, FirstAgrees
<1>8. seq[i] = whole[i] /\ seq[i + 1] = whole[i + 1] /\ i + 1 \in DOMAIN whole
  BY <1>1, <1>6
<1>9. QED BY <1>2, <1>4, <1>7, <1>8

LEMMA DetectAgrees ==
    ASSUME NEW h \in Names, NEW seq, NEW whole, NEW n, NEW s, ScanOf(seq, whole, n, s), NEW prior,
           Detect(h, seq, prior) # None,
           OverBy(seq, n, s, Detect(h, seq, prior))
    PROVE  Detect(h, whole, prior) = Detect(h, seq, prior)
BY FailedBreakoutAgrees, VwapRejectAgrees, GapFadeAgrees, PriorLowBreakAgrees DEF Detect, Names

-----------------------------------------------------------------------------
(* The scanner works on a scan of the day. *)

LEMMA DayTyped ==
    ASSUME TypeOK, NEW t \in Tickers
    PROVE  /\ day[t] \in Seq(Bar) /\ Len(day[t]) \in Nat /\ DOMAIN day[t] = 1 .. Len(day[t])
           /\ \A i \in 1 .. Len(day[t]) : day[t][i] \in Bar /\ day[t][i].ts \in Nat
           /\ \A i, j \in 1 .. Len(day[t]) : i < j => day[t][i].ts < day[t][j].ts
<1>1. day[t] \in Seq(Bar) /\ Len(day[t]) \in Nat /\ DOMAIN day[t] = 1 .. Len(day[t])
  <2>1. day \in [Tickers -> Seq(Bar)]
    BY LabAssumption DEF TypeOK
  <2>2. QED BY <2>1
<1>2. \A i \in 1 .. Len(day[t]) : day[t][i] \in Bar
  BY <1>1
<1>3. \A b \in Bar : b.ts \in Nat
  BY DEF Bar
<1>4. \A i, j \in 1 .. Len(day[t]) : i < j => day[t][i].ts < day[t][j].ts
  BY <1>1, LabAssumption DEF TypeOK, InOrder
<1>5. QED BY <1>1, <1>2, <1>3, <1>4

\* The bars closed by a slot are the first ones of the day.
LEMMA ClosedIsPrefix ==
    ASSUME TypeOK, NEW t \in Tickers
    PROVE  \E n \in Nat : ScanOf(Closed(t), day[t], n, slot) /\ Len(Closed(t)) = n
<1> DEFINE w == day[t]
           over == {i \in 1 .. Len(w) + 1 : i = Len(w) + 1 \/ w[i].ts >= slot}
           n == First(over) - 1
<1>1. w \in Seq(Bar) /\ Len(w) \in Nat /\ DOMAIN w = 1 .. Len(w) /\ slot \in Nat
  BY DayTyped, LabAssumption DEF TypeOK
<1>2. \A i \in 1 .. Len(w) : w[i] \in Bar /\ w[i].ts \in Nat
  BY DayTyped
<1>3. \A i, j \in 1 .. Len(w) : i < j => w[i].ts < w[j].ts
  BY DayTyped
<1> HIDE DEF w
<1>4. First(over) \in over /\ \A j \in over : First(over) <= j
  <2>1. over \in SUBSET Nat /\ Len(w) + 1 \in over
    BY <1>1
  <2> HIDE DEF over
  <2>2. QED BY <2>1, FirstExists
<1>5. n \in 0 .. Len(w) /\ First(over) = n + 1
  BY <1>1, <1>4
<1>6. \A i \in 1 .. Len(w) : w[i].ts < slot <=> i <= n
  <2> TAKE i \in 1 .. Len(w)
  <2>1. ASSUME i <= n PROVE w[i].ts < slot
    <3>1. i \notin over
      <4>1. ~(First(over) <= i)
        BY <1>5, <2>1
      <4>2. QED BY <1>4, <4>1
    <3>2. i \in 1 .. Len(w) + 1 /\ i # Len(w) + 1
      BY <1>1
    <3>3. QED BY <1>1, <1>2, <3>1, <3>2
  <2>2. ASSUME n < i PROVE ~(w[i].ts < slot)
    <3>1. n + 1 \in 1 .. Len(w) /\ n + 1 \in over
      BY <1>1, <1>4, <1>5, <2>2
    <3>2. w[n + 1].ts >= slot
      BY <1>1, <3>1
    <3>3. n + 1 < i => w[n + 1].ts < w[i].ts
      BY <1>3, <3>1
    <3>4. QED BY <1>1, <1>2, <1>5, <2>2, <3>1, <3>2, <3>3
  <2>3. QED BY <1>5, <2>1, <2>2
<1> HIDE DEF n, over
<1>7. Closed(t) = [i \in 1 .. n |-> w[i]]
  <2>1. {i \in DOMAIN w : w[i].ts < slot} = 1 .. n
    BY <1>1, <1>5, <1>6
  <2>2. QED BY <2>1 DEF Closed, Restrict, w
<1>8. Closed(t) \in Seq(Bar) /\ Len(Closed(t)) = n
  BY <1>2, <1>5, <1>7
<1>9. \A i \in 1 .. n : Closed(t)[i] = w[i] /\ Closed(t)[i].ts < slot
  BY <1>1, <1>5, <1>6, <1>7
<1>10. n \in Nat /\ n # n + 1
  BY <1>5
<1>11. QED BY <1>1, <1>5, <1>8, <1>9, <1>10 DEF ScanOf, w

\* What a fetch asks for: a scan of the day, in order, and with no bar from after the
\* close.
Fetched(seq, t, n) ==
    /\ ScanOf(seq, day[t], n, slot) /\ InOrder(seq)
    /\ \A i \in DOMAIN seq : seq[i].ts < LastSlot

LEMMA ClosedIsFetched ==
    ASSUME TypeOK, NEW t \in Tickers
    PROVE  \E n \in Nat : Fetched(Closed(t), t, n) /\ Len(Closed(t)) = n
<1>1. PICK n \in Nat : ScanOf(Closed(t), day[t], n, slot) /\ Len(Closed(t)) = n
  BY ClosedIsPrefix
<1> DEFINE seq == Closed(t)
           w == day[t]
<1> HIDE DEF seq, w
<1>2. /\ DOMAIN seq = 1 .. n /\ n <= Len(w) /\ Len(w) \in Nat
      /\ \A i \in 1 .. n : seq[i] = w[i] /\ seq[i].ts < slot
  BY <1>1 DEF ScanOf, seq, w
<1>3. \A i \in 1 .. Len(w) : w[i].ts \in Nat
  BY DayTyped DEF w
<1>4. \A i, j \in 1 .. Len(w) : i < j => w[i].ts < w[j].ts
  BY DayTyped DEF w
<1>5. slot \in Nat /\ LastSlot \in Nat /\ slot <= LastSlot
  BY LabAssumption DEF TypeOK
<1>6. \A i \in 1 .. n : i \in 1 .. Len(w)
  BY <1>2
<1>7. InOrder(seq)
  BY <1>2, <1>4, <1>6 DEF InOrder
<1>8. \A i \in DOMAIN seq : seq[i].ts < LastSlot
  <2> TAKE i \in DOMAIN seq
  <2>1. seq[i].ts \in Nat /\ seq[i].ts < slot
    BY <1>2, <1>3, <1>6
  <2>2. QED BY <1>5, <2>1
<1>9. QED BY <1>1, <1>7, <1>8 DEF Fetched, seq

\* And a bar that is not over comes last.
LEMMA FormingIsFetched ==
    ASSUME TypeOK, slot < LastSlot, NEW t \in Tickers, NEW bar \in FormingBars
    PROVE  \E n \in Nat : /\ Fetched(Closed(t) \o <<[bar EXCEPT !.ts = slot]>>, t, n)
                          /\ Len(Closed(t) \o <<[bar EXCEPT !.ts = slot]>>) = n + 1
<1>1. PICK n \in Nat : Fetched(Closed(t), t, n) /\ Len(Closed(t)) = n
  BY ClosedIsFetched
<1> DEFINE last == [bar EXCEPT !.ts = slot]
           c == Closed(t)
           seq == c \o <<last>>
<1>2. last \in Bar /\ last.ts = slot /\ slot \in Nat
  <2>1. bar \in Bar /\ slot \in Nat
    BY LabAssumption DEF TypeOK
  <2>2. QED BY <2>1 DEF Bar
<1> HIDE DEF last, c
<1>3. c \in Seq(Bar) /\ Len(c) = n /\ DOMAIN c = 1 .. n
  BY <1>1 DEF Fetched, ScanOf, c
<1>4. /\ seq \in Seq(Bar) /\ Len(seq) = n + 1 /\ DOMAIN seq = 1 .. n + 1
      /\ seq[n + 1] = last
      /\ \A i \in 1 .. n : seq[i] = c[i]
  BY <1>2, <1>3
<1> HIDE DEF seq
<1>5. \A i \in 1 .. n : seq[i].ts < slot
  BY <1>1, <1>4 DEF Fetched, ScanOf, c
<1>6. ScanOf(seq, day[t], n, slot)
  BY <1>1, <1>2, <1>4, <1>5 DEF Fetched, ScanOf, c
<1>7. InOrder(seq)
  <2> SUFFICES ASSUME NEW i \in 1 .. n + 1, NEW j \in 1 .. n + 1, i < j
               PROVE  seq[i].ts < seq[j].ts
    BY <1>4 DEF InOrder
  <2>1. i \in 1 .. n /\ (j = n + 1 \/ j \in 1 .. n)
    OBVIOUS
  <2>2. CASE j = n + 1
    BY <1>2, <1>4, <1>5, <2>1, <2>2
  <2>3. CASE j \in 1 .. n
    BY <1>1, <1>3, <1>4, <2>1, <2>3 DEF Fetched, InOrder, c
  <2>4. QED BY <2>1, <2>2, <2>3
<1>8. \A i \in DOMAIN seq : seq[i].ts < LastSlot
  <2> TAKE i \in DOMAIN seq
  <2>1. i = n + 1 \/ i \in 1 .. n
    BY <1>4
  <2>2. CASE i = n + 1
    BY <1>2, <1>4, <2>2
  <2>3. CASE i \in 1 .. n
    BY <1>1, <1>3, <1>4, <2>3 DEF Fetched, c
  <2>4. QED BY <2>1, <2>2, <2>3
<1>9. QED BY <1>4, <1>6, <1>7, <1>8 DEF Fetched, seq, c, last

LEMMA FetchIsScan ==
    ASSUME TypeOK, NEW t \in Tickers, FetchBars(t)
    PROVE  \E seq \in Seq(Bar), n \in Nat :
               /\ Fetched(seq, t, n) /\ bars' = Recent(seq) /\ uncut' = (Len(seq) <= Limit)
<1>1. PICK inTheMaking \in {<<>>} \union {<<[bar EXCEPT !.ts = slot]>> : bar \in FormingBars} :
          /\ inTheMaking = <<>> \/ slot < LastSlot
          /\ bars' = Recent(Closed(t) \o inTheMaking)
          /\ uncut' = (Len(Closed(t) \o inTheMaking) <= Limit)
  BY DEF FetchBars
<1>2. CASE inTheMaking = <<>>
  <2>1. PICK n \in Nat : Fetched(Closed(t), t, n)
    BY ClosedIsFetched
  <2>2. Closed(t) \in Seq(Bar)
    BY <2>1 DEF Fetched, ScanOf
  <2>3. Closed(t) \o inTheMaking = Closed(t)
    BY <1>2, <2>2
  <2>4. QED BY <1>1, <2>1, <2>2, <2>3
<1>3. CASE inTheMaking # <<>>
  <2>1. PICK bar \in FormingBars : inTheMaking = <<[bar EXCEPT !.ts = slot]>>
    BY <1>1, <1>3
  <2>2. PICK n \in Nat : Fetched(Closed(t) \o inTheMaking, t, n)
    BY <1>1, <1>3, <2>1, FormingIsFetched
  <2>3. Closed(t) \o inTheMaking \in Seq(Bar)
    BY <2>2 DEF Fetched, ScanOf
  <2>4. QED BY <1>1, <2>2, <2>3
<1>4. QED BY <1>2, <1>3

LEMMA UncutTyped == ASSUME TypeOK, NEW t \in Tickers, FetchBars(t) PROVE uncut' \in BOOLEAN
<1>1. PICK seq \in Seq(Bar) : uncut' = (Len(seq) <= Limit)
  BY FetchIsScan
<1>2. (Len(seq) <= Limit) \in BOOLEAN
  BY LabAssumption
<1>3. QED BY <1>1, <1>2, Zenon

-----------------------------------------------------------------------------
(* A fetch that drops bars.  A day's bars are a slot apart at least, so what the    *)
(* limit drops was over before the first slot a trigger may be in.                  *)

LEMMA BarsTimed ==
    ASSUME NEW seq \in Seq(Bar)
    PROVE  /\ Len(seq) \in Nat /\ DOMAIN seq = 1 .. Len(seq)
           /\ \A i \in DOMAIN seq : seq[i] \in Bar /\ seq[i].ts \in Nat
<1>1. \A i \in DOMAIN seq : seq[i] \in Bar
  OBVIOUS
<1>2. \A x \in Bar : x.ts \in Nat
  BY DEF Bar
<1>3. QED BY <1>1, <1>2

LEMMA SlotApart ==
    ASSUME NEW seq \in Seq(Bar), InOrder(seq), NEW i \in DOMAIN seq
    PROVE  seq[i].ts + (Len(seq) - i) <= seq[Len(seq)].ts
<1> DEFINE N == Len(seq)
           bad == {k \in Nat : k < N /\ ~(seq[N - k].ts + k <= seq[N].ts)}
<1>1. N \in Nat /\ DOMAIN seq = 1 .. N /\ \A k \in 1 .. N : seq[k].ts \in Nat
  BY BarsTimed
<1>2. bad = {}
  <2> SUFFICES ASSUME bad # {} PROVE FALSE
    OBVIOUS
  <2>1. PICK m \in bad : \A k \in bad : m <= k
    <3>1. bad \in SUBSET Nat
      OBVIOUS
    <3> HIDE DEF bad
    <3>2. QED BY <3>1, FirstExists
  <2>2. m \in Nat /\ m < N /\ ~(seq[N - m].ts + m <= seq[N].ts)
    OBVIOUS
  <2>3. m # 0
    <3> SUFFICES ASSUME m = 0 PROVE FALSE
      OBVIOUS
    <3>1. N - m = N /\ N \in 1 .. N
      BY <1>1, <2>2
    <3>2. seq[N].ts \in Nat
      BY <1>1, <3>1
    <3> HIDE DEF N
    <3>3. QED BY <2>2, <3>1, <3>2
  <2>4. m - 1 \in Nat /\ m - 1 < N /\ m - 1 \notin bad
    <3>1. m - 1 \in Nat /\ m - 1 < N /\ ~(m <= m - 1)
      BY <1>1, <2>2, <2>3
    <3> HIDE DEF bad
    <3>2. QED BY <2>1, <3>1
  <2>5. seq[N - (m - 1)].ts + (m - 1) <= seq[N].ts
    <3> DEFINE l == m - 1
    <3>1. l \in Nat /\ l < N /\ l \notin bad
      BY <2>4
    <3> HIDE DEF l, N
    <3>2. seq[N - l].ts + l <= seq[N].ts
      BY <3>1
    <3>3. QED BY <3>2 DEF l
  <2> DEFINE a == N - m
             b == N - (m - 1)
  <2>6. a \in 1 .. N /\ b \in 1 .. N /\ a < b
    BY <1>1, <2>2, <2>3
  <2>7. seq[a].ts < seq[b].ts
    <3> HIDE DEF a, b, N
    <3>1. QED BY <1>1, <2>6 DEF InOrder
  <2>8. seq[a].ts \in Nat /\ seq[b].ts \in Nat /\ seq[N].ts \in Nat
    BY <1>1, <2>6
  <2> HIDE DEF N, bad
  <2>9. seq[b].ts + (m - 1) <= seq[N].ts /\ ~(seq[a].ts + m <= seq[N].ts)
    BY <2>2, <2>5
  <2> HIDE DEF a, b
  <2>10. QED BY <2>2, <2>7, <2>8, <2>9
<1>3. N - i \in Nat /\ N - i < N /\ N - (N - i) = i
  BY <1>1
<1>4. QED BY <1>2, <1>3

LEMMA DroppedIsEarly ==
    ASSUME NEW seq \in Seq(Bar), InOrder(seq), \A i \in DOMAIN seq : seq[i].ts < LastSlot,
           NEW i \in DOMAIN seq, i <= Len(seq) - Limit
    PROVE  ~InWindow(seq[i])
<1>1. /\ Len(seq) \in Nat /\ i \in 1 .. Len(seq) /\ Len(seq) \in DOMAIN seq
      /\ seq[i].ts \in Nat /\ seq[Len(seq)].ts \in Nat
  BY BarsTimed
<1>2. seq[i].ts + (Len(seq) - i) <= seq[Len(seq)].ts /\ seq[Len(seq)].ts < LastSlot
  BY <1>1, SlotApart
<1>3. /\ LastSlot \in Nat /\ Limit \in Nat /\ Earliest \in Nat
      /\ LastSlot - Earliest <= Limit
  BY LabAssumption, ClockAssumption
<1>4. seq[i].ts < Earliest
  BY <1>1, <1>2, <1>3
<1>5. QED BY <1>1, <1>3, <1>4 DEF InWindow

\* What is moved up by d has its first element moved up by d.
LEMMA FirstShifts ==
    ASSUME NEW S \in SUBSET Nat, NEW T \in SUBSET Nat, NEW d \in Nat, S # {},
           \A i \in S : d <= i, \A i \in Nat : i \in T <=> i + d \in S
    PROVE  T # {} /\ First(S) = First(T) + d
<1>1. First(S) \in S /\ \A j \in S : First(S) <= j
  BY FirstExists
<1>2. PICK i \in Nat : i + d = First(S)
  <2>1. First(S) \in Nat /\ d <= First(S)
    BY <1>1
  <2>2. First(S) - d \in Nat /\ (First(S) - d) + d = First(S)
    BY <2>1
  <2>3. QED BY <2>2
<1>3. i \in T
  BY <1>1, <1>2
<1>4. \A j \in T : i <= j
  <2> TAKE j \in T
  <2>1. j + d \in S /\ j \in Nat
    OBVIOUS
  <2>2. i + d <= j + d
    BY <1>1, <1>2, <2>1
  <2>3. QED BY <2>1, <2>2
<1>5. First(T) = i
  BY <1>3, <1>4, FirstIs
<1>6. QED BY <1>2, <1>3, <1>5

\* b is seq without its first d bars, none of which is in the trigger window.
Cut(seq, b, d) ==
    /\ seq \in Seq(Bar) /\ b \in Seq(Bar) /\ d \in Nat /\ Len(seq) = Len(b) + d
    /\ \A i \in DOMAIN b : b[i] = seq[i + d]
    /\ \A i \in DOMAIN seq : InWindow(seq[i]) => d < i

LEMMA RecentIsCut ==
    ASSUME NEW seq \in Seq(Bar), InOrder(seq), \A i \in DOMAIN seq : seq[i].ts < LastSlot
    PROVE  \E d \in Nat : Cut(seq, Recent(seq), d)
<1>1. Len(seq) \in Nat /\ Limit \in Nat /\ DOMAIN seq = 1 .. Len(seq)
  BY LabAssumption
<1>2. CASE Len(seq) <= Limit
  <2>1. Recent(seq) = seq
    BY <1>2 DEF Recent
  <2>2. Cut(seq, seq, 0)
    BY <1>1 DEF Cut
  <2>3. QED BY <2>1, <2>2
<1>3. CASE ~(Len(seq) <= Limit)
  <2> DEFINE d == Len(seq) - Limit
             b == SubSeq(seq, d + 1, Len(seq))
  <2>1. Recent(seq) = b
    BY <1>3 DEF Recent
  <2>2. d \in Nat /\ d + 1 \in Int /\ Len(seq) \in Int /\ d + Limit = Len(seq)
    BY <1>1, <1>3
  <2>3. \A i \in (d + 1) .. Len(seq) : seq[i] \in Bar
    BY <1>1, <2>2
  <2>4. b \in Seq(Bar) /\ Len(b) = (IF d + 1 <= Len(seq) THEN Len(seq) - (d + 1) + 1 ELSE 0)
        /\ \A i \in 1 .. Len(seq) - (d + 1) + 1 : b[i] = seq[(d + 1) + i - 1]
    <3> HIDE DEF d
    <3>1. QED BY <2>2, <2>3, SubSeqProperties
  <2> HIDE DEF b
  <2>5. Len(b) = Limit /\ DOMAIN b = 1 .. Limit /\ Len(seq) - (d + 1) + 1 = Limit
    BY <1>1, <2>2, <2>4
  <2>8. Len(seq) = Len(b) + d
    <3>1. Len(b) = Limit
      BY <2>5
    <3>2. Limit + d = Len(seq)
      BY <1>1
    <3>3. QED BY <3>1, <3>2
  <2>6. \A i \in DOMAIN b : b[i] = seq[i + d]
    <3> TAKE i \in DOMAIN b
    <3>1. (d + 1) + i - 1 = i + d
      BY <1>1, <2>2, <2>5
    <3>2. QED BY <2>4, <2>5, <3>1
  <2>7. \A i \in DOMAIN seq : InWindow(seq[i]) => d < i
    <3> TAKE i \in DOMAIN seq
    <3> HAVE InWindow(seq[i])
    <3>1. ~(i <= d)
      BY DroppedIsEarly
    <3>2. QED BY <1>1, <2>2, <3>1
  <2> HIDE DEF d
  <2>9. Cut(seq, b, d)
    BY <2>2, <2>4, <2>6, <2>7, <2>8 DEF Cut
  <2>10. QED BY <2>1, <2>2, <2>9
<1>4. QED BY <1>2, <1>3

LEMMA BarsOfCut ==
    ASSUME NEW seq, NEW b, NEW d, Cut(seq, b, d)
    PROVE  /\ d \in Nat /\ Len(b) \in Nat /\ Len(seq) = Len(b) + d
           /\ DOMAIN b = 1 .. Len(b) /\ DOMAIN seq = 1 .. Len(b) + d
           /\ \A i \in DOMAIN b : i + d \in DOMAIN seq /\ b[i] = seq[i + d]
           /\ \A i \in Nat : i > 0 /\ i + d \in DOMAIN seq => i \in DOMAIN b
BY DEF Cut

\* A set of bars after the first d, in both.
LEMMA SetShifts ==
    ASSUME NEW seq, NEW b, NEW d, Cut(seq, b, d),
           NEW S \in SUBSET DOMAIN seq, NEW T \in SUBSET DOMAIN b,
           \A i \in S : d < i, \A i \in DOMAIN b : i \in T <=> i + d \in S
    PROVE  /\ S \in SUBSET Nat /\ T \in SUBSET Nat /\ \A i \in S : d <= i
           /\ \A i \in Nat : i \in T <=> i + d \in S
           /\ S = {} <=> T = {}
           /\ S # {} => First(S) = First(T) + d /\ First(T) \in T /\ First(T) \in Nat
<1>1. /\ d \in Nat /\ DOMAIN b \subseteq Nat /\ DOMAIN seq \subseteq Nat
      /\ \A i \in Nat : i > 0 /\ i + d \in DOMAIN seq => i \in DOMAIN b
  BY BarsOfCut
<1>2. S \in SUBSET Nat /\ T \in SUBSET Nat /\ \A i \in S : d <= i
  BY <1>1
<1>3. \A i \in Nat : i \in T <=> i + d \in S
  <2> TAKE i \in Nat
  <2>1. i \in T => i + d \in S
    OBVIOUS
  <2>2. ASSUME i + d \in S PROVE i \in T
    <3>1. i > 0 /\ i + d \in DOMAIN seq
      BY <1>1, <2>2
    <3>2. QED BY <1>1, <2>2, <3>1
  <2>3. QED BY <2>1, <2>2
<1>4. S # {} => T # {} /\ First(S) = First(T) + d
  BY <1>1, <1>2, <1>3, FirstShifts
<1>5. T # {} => S # {} /\ First(T) \in T
  BY <1>2, <1>3, FirstExists
<1>6. QED BY <1>2, <1>3, <1>4, <1>5

LEMMA FirstRejectedShifts ==
    ASSUME NEW seq, NEW b, NEW d, Cut(seq, b, d),
           NEW TS \in SUBSET DOMAIN seq, NEW FS \in SUBSET DOMAIN seq,
           NEW TB \in SUBSET DOMAIN b, NEW FB \in SUBSET DOMAIN b,
           \A i \in TS : d < i,
           \A i \in DOMAIN b : (i \in TB <=> i + d \in TS) /\ (i \in FB <=> i + d \in FS)
    PROVE  FirstRejected(b, TB, FB) = FirstRejected(seq, TS, FS)
<1>1. CASE TS = {}
  <2>1. TB = {}
    BY <1>1, SetShifts
  <2>2. QED BY <1>1, <2>1 DEF FirstRejected
<1>2. CASE TS # {}
  <2> DEFINE i == First(TS)
             k == First(TB)
             CS == Following(seq, i) \intersect FS
             CB == Following(b, k) \intersect FB
  <2>1. TB # {} /\ i = k + d /\ k \in TB /\ k \in Nat
    BY <1>2, SetShifts
  <2>2. d \in Nat /\ DOMAIN b \subseteq Nat /\ DOMAIN seq \subseteq Nat
    BY BarsOfCut
  <2>3. b[k] = seq[i]
    BY <2>1, BarsOfCut
  <2> HIDE DEF i, k
  <2>4. CS \in SUBSET DOMAIN seq /\ CB \in SUBSET DOMAIN b /\ \A j \in CS : d < j
    BY <2>1, <2>2 DEF Following
  <2>5. \A j \in DOMAIN b : j \in CB <=> j + d \in CS
    <3> TAKE j \in DOMAIN b
    <3>1. b[j] = seq[j + d] /\ j + d \in DOMAIN seq /\ j \in Nat
      BY <2>2, BarsOfCut
    <3>2. j > k <=> j + d > i
      BY <2>1, <2>2, <3>1
    <3>3. QED BY <2>3, <3>1, <3>2 DEF Following
  <2> HIDE DEF CS, CB
  <2>6. CS = {} <=> CB = {}
    <3>1. ASSUME CS = {} PROVE CB = {}
      BY <2>4, <2>5, <3>1
    <3>2. ASSUME NEW j \in CS PROVE j - d \in CB
      <4>1. j - d \in Nat /\ j - d > 0 /\ (j - d) + d = j /\ j \in DOMAIN seq
        BY <2>2, <2>4
      <4>2. j - d \in DOMAIN b
        BY <4>1, BarsOfCut
      <4>3. QED BY <2>5, <4>1, <4>2
    <3>3. QED BY <3>1, <3>2
  <2>7. CS # {} => First(CS) = First(CB) + d /\ First(CB) \in CB
    BY <2>4, <2>5, SetShifts
  <2>8. CS # {} => b[First(CB)] = seq[First(CS)]
    BY <2>4, <2>7, BarsOfCut
  <2>9. FirstRejected(b, TB, FB) = IF CB = {} THEN None ELSE Found(b[k], b[First(CB)])
    BY <2>1 DEF FirstRejected, k, CB
  <2>10. FirstRejected(seq, TS, FS) = IF CS = {} THEN None ELSE Found(seq[i], seq[First(CS)])
    BY <1>2 DEF FirstRejected, i, CS
  <2>11. QED BY <2>3, <2>6, <2>8, <2>9, <2>10
<1>3. QED BY <1>1, <1>2

LEMMA FailedBreakoutCut ==
    ASSUME NEW seq, NEW b, NEW d, Cut(seq, b, d), NEW prior
    PROVE  FailedBreakout(b, prior) = FailedBreakout(seq, prior)
<1> DEFINE T(x) == {i \in DOMAIN x : InWindow(x[i]) /\ x[i].close > prior.high}
           F(x) == {j \in DOMAIN x : x[j].close < prior.high}
<1>1. \A x : FailedBreakout(x, prior) =
          IF prior.high <= 0 THEN None ELSE FirstRejected(x, T(x), F(x))
  BY DEF FailedBreakout
<1>2. \A i \in T(seq) : d < i
  BY DEF Cut
<1>3. \A i \in DOMAIN b : (i \in T(b) <=> i + d \in T(seq)) /\ (i \in F(b) <=> i + d \in F(seq))
  BY BarsOfCut
<1>4. /\ T(seq) \in SUBSET DOMAIN seq /\ F(seq) \in SUBSET DOMAIN seq
      /\ T(b) \in SUBSET DOMAIN b /\ F(b) \in SUBSET DOMAIN b
  OBVIOUS
<1> HIDE DEF T, F
<1>5. FirstRejected(b, T(b), F(b)) = FirstRejected(seq, T(seq), F(seq))
  BY <1>2, <1>3, <1>4, FirstRejectedShifts
<1>6. QED BY <1>1, <1>5

LEMMA PriorLowBreakCut ==
    ASSUME NEW seq, NEW b, NEW d, Cut(seq, b, d), NEW prior
    PROVE  PriorLowBreak(b, prior) = PriorLowBreak(seq, prior)
<1> DEFINE breaks(x) == {i \in DOMAIN x : InWindow(x[i]) /\ x[i].close < prior.low}
<1>1. \A x : PriorLowBreak(x, prior) =
          IF \/ prior.low <= 0 \/ breaks(x) = {} \/ First(breaks(x)) + 1 \notin DOMAIN x
             \/ x[First(breaks(x)) + 1].close >= prior.low
          THEN None ELSE Found(x[First(breaks(x))], x[First(breaks(x)) + 1])
  BY DEF PriorLowBreak
<1>2. \A i \in breaks(seq) : d < i
  BY DEF Cut
<1>3. \A i \in DOMAIN b : i \in breaks(b) <=> i + d \in breaks(seq)
  BY BarsOfCut
<1>4. breaks(seq) \in SUBSET DOMAIN seq /\ breaks(b) \in SUBSET DOMAIN b
  OBVIOUS
<1> HIDE DEF breaks
<1>5. CASE breaks(seq) = {}
  <2>1. breaks(b) = {}
    BY <1>2, <1>3, <1>4, <1>5, SetShifts
  <2>2. QED BY <1>1, <1>5, <2>1
<1>6. CASE breaks(seq) # {}
  <2> DEFINE i == First(breaks(seq))
             k == First(breaks(b))
  <2>1. breaks(b) # {} /\ i = k + d /\ k \in breaks(b) /\ k \in Nat
    <3> DEFINE S == breaks(seq)
               T == breaks(b)
    <3>1. /\ S \in SUBSET DOMAIN seq /\ T \in SUBSET DOMAIN b /\ S # {}
          /\ \A j \in S : d < j
          /\ \A j \in DOMAIN b : j \in T <=> j + d \in S
      BY <1>2, <1>3, <1>4, <1>6
    <3> HIDE DEF S, T
    <3>2. T # {} /\ First(S) = First(T) + d /\ First(T) \in T /\ First(T) \in Nat
      BY <3>1, SetShifts
    <3>3. QED BY <3>2 DEF S, T
  <2>2. k \in DOMAIN b /\ b[k] = seq[i] /\ d \in Nat
    BY <1>4, <2>1, BarsOfCut
  <2> HIDE DEF i, k
  <2>3. k + 1 \in Nat /\ k + 1 > 0 /\ (k + 1) + d = i + 1
    BY <2>1, <2>2
  <2>4. k + 1 \in DOMAIN b <=> i + 1 \in DOMAIN seq
    BY <2>3, BarsOfCut
  <2>5. k + 1 \in DOMAIN b => b[k + 1] = seq[i + 1]
    BY <2>3, BarsOfCut
  <2>6. QED BY <1>1, <1>6, <2>1, <2>2, <2>4, <2>5 DEF i, k
<1>7. QED BY <1>5, <1>6

-----------------------------------------------------------------------------
(* The inductive invariant.  A key is handed over once because it is on its *)
(* way in one place at most: in new_events, on the queue, or taken; and it  *)
(* gets on its way only in the step that writes its row.                    *)

OnItsWay(k) == found[k] + queued[k] + handed[k]

OneWay == \A k \in Keys : OnItsWay(k) <= 1 /\ (rows[k] = NoRow => OnItsWay(k) = 0)

IInv == TypeOK /\ OneWay

LEMMA ZeroCounts == Zero \in Counts /\ \A k \in Keys : Zero[k] = 0
BY DEF Zero, Counts

\* Every variable of the scanner keeps its type: no counter goes below zero.
LEMMA InitInv == Init => IInv
<1> SUFFICES ASSUME Init PROVE IInv
  OBVIOUS
<1>1. Len(Hypotheses) \in Nat
  BY LabAssumption
<1>2. TypeOK
  <2>1. Open \in Open .. LastSlot /\ 1 \in 1 .. Len(Hypotheses) + 1
    BY <1>1, LabAssumption
  <2>2. /\ rows = [k \in Keys |-> NoRow]
        /\ slot = Open /\ next = 1 /\ pc = "sleeping" /\ todo = {} /\ day \in Days
        /\ marketOpen = FALSE /\ uncut = TRUE /\ faults = 0 /\ crashes = 0
        /\ found = Zero /\ queued = Zero /\ handed = Zero
    BY DEF Init
  <2>3. QED BY <2>1, <2>2, ZeroCounts DEF TypeOK
<1>3. OneWay
  BY ZeroCounts DEF Init, OneWay, OnItsWay
<1>4. QED BY <1>2, <1>3 DEF IInv

LEMMA InsertInv ==
    ASSUME IInv, NEW h, h = Hypotheses[next], cur \in Tickers,
           next \in DOMAIN Hypotheses, NEW event, event # None, Insert(h, event),
           UNCHANGED <<queued, handed>>
    PROVE  OneWay' /\ DOMAIN rows' = Keys /\ found' \in Counts
<1>1. <<h, cur>> \in Keys
  BY DEF Keys
<1>2. found \in Counts /\ DOMAIN rows = Keys /\ queued \in Counts /\ handed \in Counts
  BY DEF IInv, TypeOK
<1>3. DOMAIN rows' = Keys /\ found' \in Counts
  BY <1>1, <1>2 DEF Insert, Counts
<1>4. ASSUME NEW k \in Keys
      PROVE  OnItsWay(k)' <= 1 /\ (rows'[k] = NoRow => OnItsWay(k)' = 0)
  <2>1. OnItsWay(k) <= 1 /\ (rows[k] = NoRow => OnItsWay(k) = 0)
    BY DEF IInv, OneWay
  <2>2. CASE k # <<h, cur>>
    BY <1>2, <2>1, <2>2 DEF Insert, OnItsWay
  <2>3. CASE k = <<h, cur>> /\ rows[k] # NoRow
    BY <1>1, <1>2, <2>1, <2>3 DEF Insert, OnItsWay
  <2>4. CASE k = <<h, cur>> /\ rows[k] = NoRow
    <3>1. found'[k] = found[k] + 1
      BY <1>1, <1>2, <2>4 DEF Insert, Counts
    <3>2. OnItsWay(k)' = 1
      BY <1>2, <2>1, <2>4, <3>1 DEF OnItsWay, Counts
    <3>3. rows'[k] # NoRow
      BY <1>1, <1>2, <2>4 DEF Insert, NoRow
    <3>4. QED BY <3>2, <3>3
  <2>5. QED BY <2>2, <2>3, <2>4
<1>5. QED BY <1>3, <1>4 DEF OneWay

LEMMA ScannerInv == ASSUME IInv, Scanner PROVE IInv'
<1> USE DEF IInv, TypeOK, OneWay, OnItsWay, market, scan, bounds
<1>1. CASE StartScan
  BY <1>1, ZeroCounts DEF StartScan, Counts
<1>2. CASE TryHypothesis
  <2>1. next \in DOMAIN Hypotheses /\ next + 1 \in 1 .. Len(Hypotheses) + 1
    BY <1>2, LabAssumption DEF TryHypothesis
  <2>2. OneWay' /\ DOMAIN rows' = Keys /\ found' \in Counts
    <3>1. CASE Event(Hypotheses[next]) = None
      BY <1>2, <3>1 DEF TryHypothesis
    <3>2. CASE Event(Hypotheses[next]) # None
      BY <1>2, <2>1, <3>2, InsertInv DEF TryHypothesis
    <3>3. QED BY <3>1, <3>2
  <2>3. QED BY <1>2, <2>1, <2>2 DEF TryHypothesis
<1>3. CASE InsertFails
  <2>1. next + 1 \in 1 .. Len(Hypotheses) + 1
    BY <1>3, LabAssumption DEF InsertFails
  <2>2. QED BY <1>3, <2>1 DEF InsertFails, Fault
<1>4. CASE TickerDone \/ ScanDone \/ Sleep
  BY <1>4 DEF TickerDone, ScanDone, Sleep
<1>5. ASSUME NEW t \in Tickers, FetchBars(t) PROVE IInv'
  <2>1. 1 \in 1 .. Len(Hypotheses) + 1
    BY LabAssumption
  <2>2. uncut' \in BOOLEAN
    BY <1>5, UncutTyped
  <2>3. QED BY <1>5, <2>1, <2>2 DEF FetchBars
<1>6. ASSUME NEW t \in Tickers, FetchFails(t) PROVE IInv'
  BY <1>6 DEF FetchFails, Fault
<1>7. ASSUME NEW k \in Keys, PutSignal(k) PROVE IInv'
  <2>1. /\ found' \in Counts /\ queued' \in Counts
        /\ \A j \in Keys : OnItsWay(j)' = OnItsWay(j)
    BY <1>7 DEF PutSignal, Counts
  <2>2. QED BY <1>7, <2>1 DEF PutSignal
<1>8. QED BY <1>1, <1>2, <1>3, <1>4, <1>5, <1>6, <1>7 DEF Scanner

LEMMA NextInv == ASSUME IInv, [Next]_vars PROVE IInv'
<1> USE DEF IInv, TypeOK, OneWay, OnItsWay, market, scan, bounds
<1>1. CASE Scanner
  BY <1>1, ScannerInv
<1>2. ASSUME NEW k \in Keys, TakeSignal(k) PROVE IInv'
  <2>1. /\ queued' \in Counts /\ handed' \in Counts
        /\ \A j \in Keys : OnItsWay(j)' = OnItsWay(j)
    BY <1>2 DEF TakeSignal, Counts
  <2>2. QED BY <1>2, <2>1 DEF TakeSignal
<1>3. CASE SeeMarket
  <2>1. marketOpen' \in BOOLEAN
    <3>1. CASE marketOpen' = (slot < LastSlot)
      <4>1. (slot < LastSlot) \in BOOLEAN
        BY LabAssumption
      <4>2. QED BY <3>1, <4>1, Zenon
    <3>2. CASE marketOpen' = FALSE
      BY <3>2, Zenon
    <3>3. QED BY <1>3, <3>1, <3>2, Zenon DEF SeeMarket
  <2>2. faults' \in Nat
    BY <1>3 DEF SeeMarket, Fault
  <2>3. UNCHANGED <<market, pc, scan, found, queued, rows, handed, crashes>>
    BY <1>3 DEF SeeMarket
  <2>4. QED BY <2>1, <2>2, <2>3
<1>4. CASE SlotEnds
  BY <1>4, LabAssumption DEF SlotEnds
<1>5. CASE Crash
  <2>1. 1 \in 1 .. Len(Hypotheses) + 1
    BY LabAssumption
  <2>2. OneWay'
    BY <1>5, ZeroCounts DEF Crash, Counts
  <2>3. /\ pc' = "down" /\ marketOpen' = FALSE /\ uncut' = TRUE /\ todo' = {}
        /\ next' = 1 /\ crashes' \in Nat /\ found' = Zero /\ queued' = Zero
        /\ UNCHANGED <<market, rows, handed, faults>>
    BY <1>5 DEF Crash
  <2>4. QED BY <2>1, <2>2, <2>3, ZeroCounts
<1>6. CASE Restart
  BY <1>6 DEF Restart
<1>7. CASE UNCHANGED vars
  BY <1>7 DEF vars
<1>8. QED BY <1>1, <1>2, <1>3, <1>4, <1>5, <1>6, <1>7 DEF Next

THEOREM Inductive == Spec => []IInv
<1>1. QED BY InitInv, NextInv, PTL DEF Spec

\* Every variable of the scanner keeps its type, and no queue is overdrawn.
THEOREM TypeCorrect == Spec => []TypeOK
<1>1. IInv => TypeOK
  BY DEF IInv
<1>2. QED BY <1>1, Inductive, PTL

-----------------------------------------------------------------------------
(* The refinement.  Only the insert journals a key, only the drain hands    *)
(* one over; every other step leaves both alone.                            *)

LEMMA InsertJournals ==
    ASSUME IInv, NEW h, h = Hypotheses[next], cur \in Tickers,
           next \in DOMAIN Hypotheses, NEW event, event # None, Insert(h, event),
           UNCHANGED handed
    PROVE  [Feed!Next]_<<Journaled, handed>>
<1>1. <<h, cur>> \in Keys /\ DOMAIN rows = Keys
  BY DEF Keys, IInv, TypeOK
<1>2. CASE rows[<<h, cur>>] # NoRow
  BY <1>1, <1>2 DEF Insert, Journaled
<1>3. CASE rows[<<h, cur>>] = NoRow
  <2>1. rows'[<<h, cur>>] # NoRow
    BY <1>1, <1>3 DEF Insert, NoRow
  <2>2. \A k \in Keys : k # <<h, cur>> => rows'[k] = rows[k]
    BY <1>1 DEF Insert
  <2>3. <<h, cur>> \notin Journaled /\ Journaled' = Journaled \union {<<h, cur>>}
    BY <1>1, <1>3, <2>1, <2>2 DEF Journaled
  <2>4. Feed!Journal(<<h, cur>>)
    BY <2>3 DEF Feed!Journal
  <2>5. QED BY <1>1, <2>4 DEF Feed!Next
<1>4. QED BY <1>2, <1>3

LEMMA TakeHands ==
    ASSUME IInv, NEW k \in Keys, TakeSignal(k)
    PROVE  Feed!Next
<1>1. found[k] \in Nat /\ queued[k] \in Nat /\ handed[k] \in Nat /\ queued[k] > 0
  BY DEF IInv, TypeOK, Counts, TakeSignal
<1>2. OnItsWay(k) <= 1 /\ (rows[k] = NoRow => OnItsWay(k) = 0)
  BY DEF IInv, OneWay
<1>3. handed[k] = 0 /\ rows[k] # NoRow
  BY <1>1, <1>2 DEF OnItsWay
<1>4. k \in Journaled /\ UNCHANGED Journaled
  BY <1>3 DEF Journaled, TakeSignal
<1>5. handed' = [handed EXCEPT ![k] = 1]
  BY <1>3 DEF TakeSignal, IInv, TypeOK, Counts
<1>6. Feed!Hand(k)
  BY <1>3, <1>4, <1>5 DEF Feed!Hand
<1>7. QED BY <1>6 DEF Feed!Next

LEMMA FeedStep == ASSUME IInv, [Next]_vars PROVE [Feed!Next]_<<Journaled, handed>>
<1> USE DEF Journaled
<1>1. CASE TryHypothesis
  <2>1. next \in DOMAIN Hypotheses /\ cur \in Tickers /\ UNCHANGED handed
    BY <1>1, LabAssumption DEF TryHypothesis, IInv, TypeOK
  <2>2. CASE Event(Hypotheses[next]) = None
    BY <1>1, <2>2 DEF TryHypothesis
  <2>3. CASE Event(Hypotheses[next]) # None
    BY <1>1, <2>1, <2>3, InsertJournals DEF TryHypothesis
  <2>4. QED BY <2>2, <2>3
<1>2. CASE Scanner /\ ~TryHypothesis
  BY <1>2 DEF Scanner, StartScan, InsertFails, TickerDone, ScanDone, Sleep, FetchBars,
              FetchFails, PutSignal
<1>3. ASSUME NEW k \in Keys, TakeSignal(k) PROVE [Feed!Next]_<<Journaled, handed>>
  BY <1>3, TakeHands
<1>4. CASE SeeMarket \/ SlotEnds \/ Crash \/ Restart
  BY <1>4 DEF SeeMarket, SlotEnds, Crash, Restart
<1>5. CASE UNCHANGED vars
  BY <1>5 DEF vars
<1>6. QED BY <1>1, <1>2, <1>3, <1>4, <1>5 DEF Next

\* The scanner implements the feed the equity book takes its events from: a key is
\* journaled once, and handed over at most once, whatever fails or dies in between.
THEOREM KeepsItsFeed == Spec => KeepsFeed
<1>1. Init => Feed!Init
  BY DEF Init, Journaled, Zero, Feed!Init
<1>2. IInv /\ [Next]_vars => [Feed!Next]_<<Journaled, handed>>
  BY FeedStep
<1>3. QED BY <1>1, <1>2, Inductive, PTL DEF Spec, KeepsFeed, Feed!Spec

-----------------------------------------------------------------------------
(* What the scanner records. *)

\* While it tries its hypotheses the scanner has the newest bars of the day until this
\* slot, and knows whether they are all.
ScansDay ==
    pc = "hypotheses" =>
        \E seq \in Seq(Bar), n \in Nat :
            /\ Fetched(seq, cur, n) /\ bars = Recent(seq) /\ (uncut => Len(seq) <= Limit)

RecordedIsSome == \A k \in Journaled : rows[k].event # None

ScanInv == ScansDay /\ RecordedIsSome /\ RecordedMatchesDay

LEMMA InsertMatchesDay ==
    ASSUME TypeOK, ScanInv, TryHypothesis PROVE (RecordedIsSome /\ RecordedMatchesDay)'
<1> DEFINE h == Hypotheses[next]
           key == <<h, cur>>
<1>1. h \in Names /\ cur \in Tickers /\ key \in Keys /\ UNCHANGED day /\ DOMAIN rows = Keys
  BY LabAssumption DEF TryHypothesis, TypeOK, Keys, market
<1>2. CASE Event(h) = None
  BY <1>1, <1>2 DEF TryHypothesis, ScanInv, RecordedIsSome, RecordedMatchesDay, Journaled
<1>3. CASE Event(h) # None
  <2>1. Insert(h, Event(h))
    BY <1>3 DEF TryHypothesis
  <2>2. rows' = [rows EXCEPT ![key] = IF @ = NoRow
                    THEN [event |-> Event(h), settled |-> Settled(h, Event(h))] ELSE @]
    BY <2>1 DEF Insert
  <2>3. ASSUME NEW k \in Journaled', rows'[k].settled
        PROVE  rows'[k].event = Detect(k[1], day[k[2]], Prior[k[2]])
    <3>1. k \in Keys
      BY DEF Journaled
    <3>2. CASE rows'[k] = rows[k]
      <4>1. k \in Journaled
        BY <3>1, <3>2 DEF Journaled
      <4>2. QED BY <2>3, <3>2, <4>1 DEF ScanInv, RecordedMatchesDay
    <3>3. CASE rows'[k] # rows[k]
      <4>1. k = key /\ rows'[k] = [event |-> Event(h), settled |-> Settled(h, Event(h))]
        BY <1>1, <2>2, <3>1, <3>3
      <4>2. rows'[k].event = Event(h) /\ Settled(h, Event(h))
        BY <2>3, <4>1
      <4>3. PICK seq \in Seq(Bar), n \in Nat :
                /\ Fetched(seq, cur, n) /\ bars = Recent(seq) /\ (uncut => Len(seq) <= Limit)
        BY DEF ScanInv, ScansDay, TryHypothesis
      <4>4. Detect(h, seq, Prior[cur]) = Event(h)
        <5>1. CASE uncut
          <6>1. bars = seq
            BY <4>3, <5>1 DEF Recent
          <6>2. QED BY <6>1 DEF Event
        <5>2. CASE ~uncut
          <6>1. h \in {"failed_breakout", "prior_low_break"}
            BY <1>1, <4>2, <5>2 DEF Settled, NeedsOpening, Names
          <6>2. PICK d \in Nat : Cut(seq, bars, d)
            BY <4>3, RecentIsCut DEF Fetched
          <6> HIDE DEF h
          <6>3. QED BY <6>1, <6>2, FailedBreakoutCut, PriorLowBreakCut DEF Event, Detect
        <5>3. QED BY <5>1, <5>2
      <4>5. Detect(h, day[cur], Prior[cur]) = Event(h)
        <5>1. slot \in Nat /\ Event(h).confirm < slot
          BY <4>2, LabAssumption DEF Settled, TypeOK
        <5>2. OverBy(seq, n, slot, Event(h))
          BY <5>1 DEF OverBy
        <5> HIDE DEF h
        <5>3. QED BY <1>1, <1>3, <4>3, <4>4, <5>2, DetectAgrees DEF Fetched
      <4>6. k[1] = h /\ k[2] = cur
        BY <4>1
      <4>7. QED BY <4>2, <4>5, <4>6
    <3>4. QED BY <3>2, <3>3
  <2>4. ASSUME NEW k \in Journaled' PROVE rows'[k].event # None
    <3>1. k \in Keys
      BY DEF Journaled
    <3>2. CASE rows'[k] = rows[k]
      <4>1. k \in Journaled
        BY <3>1, <3>2 DEF Journaled
      <4>2. QED BY <3>2, <4>1 DEF ScanInv, RecordedIsSome
    <3>3. CASE rows'[k] # rows[k]
      <4>1. rows'[k] = [event |-> Event(h), settled |-> Settled(h, Event(h))]
        BY <1>1, <2>2, <3>1, <3>3
      <4>2. QED BY <1>3, <4>1
    <3>4. QED BY <3>2, <3>3
  <2>5. QED BY <1>1, <2>3, <2>4 DEF RecordedMatchesDay, RecordedIsSome
<1>4. QED BY <1>2, <1>3

LEMMA ScanStep == ASSUME TypeOK, ScanInv, [Next]_vars PROVE ScanInv'
<1> USE DEF market, scan, bounds
<1>1. CASE TryHypothesis
  <2>1. ScansDay'
    BY <1>1 DEF TryHypothesis, ScanInv, ScansDay, Fetched, ScanOf
  <2>2. QED BY <1>1, <2>1, InsertMatchesDay DEF ScanInv
<1>2. ASSUME NEW t \in Tickers, FetchBars(t) PROVE ScanInv'
  <2>1. (RecordedIsSome /\ RecordedMatchesDay)'
    BY <1>2 DEF FetchBars, ScanInv, RecordedIsSome, RecordedMatchesDay, Journaled
  <2>2. ScansDay'
    <3> SUFFICES ASSUME pc' = "hypotheses"
                 PROVE  \E seq \in Seq(Bar), n \in Nat :
                            /\ Fetched(seq, cur, n)' /\ bars' = Recent(seq)
                            /\ (uncut' => Len(seq) <= Limit)
      BY DEF ScansDay
    <3>1. cur' = t /\ day' = day /\ slot' = slot
      BY <1>2 DEF FetchBars
    <3>2. PICK seq \in Seq(Bar), n \in Nat :
              /\ Fetched(seq, t, n) /\ bars' = Recent(seq) /\ uncut' = (Len(seq) <= Limit)
      BY <1>2, FetchIsScan
    <3>3. Fetched(seq, cur, n)'
      BY <3>1, <3>2 DEF Fetched, ScanOf
    <3>4. QED BY <3>2, <3>3
  <2>3. QED BY <2>1, <2>2 DEF ScanInv
<1>3. CASE UNCHANGED <<day, rows>> /\ UNCHANGED <<bars, uncut, cur, slot, pc>>
  BY <1>3 DEF ScanInv, ScansDay, Fetched, ScanOf, RecordedIsSome, RecordedMatchesDay, Journaled
<1>4. CASE UNCHANGED <<day, rows>> /\ pc' # "hypotheses"
  BY <1>4 DEF ScanInv, ScansDay, RecordedIsSome, RecordedMatchesDay, Journaled
<1>5. CASE Scanner /\ ~TryHypothesis /\ ~(\E t \in Tickers : FetchBars(t))
  BY <1>3, <1>4, <1>5 DEF Scanner, StartScan, InsertFails, TickerDone, ScanDone, Sleep, FetchFails,
                          PutSignal
<1>6. CASE (\E k \in Keys : TakeSignal(k)) \/ SeeMarket \/ SlotEnds \/ Crash \/ Restart
  BY <1>3, <1>4, <1>6 DEF TakeSignal, SeeMarket, SlotEnds, Crash, Restart
<1>7. CASE UNCHANGED vars
  BY <1>3, <1>7 DEF vars
<1>8. QED BY <1>1, <1>2, <1>5, <1>6, <1>7 DEF Next

LEMMA ScanInductive == Spec => []ScanInv
<1>1. Init => ScanInv
  BY DEF Init, ScanInv, ScansDay, RecordedIsSome, RecordedMatchesDay, Journaled
<1>2. TypeOK /\ ScanInv /\ [Next]_vars => ScanInv'
  BY ScanStep
<1>3. QED BY <1>1, <1>2, TypeCorrect, PTL DEF Spec

\* For every universe, every day and prior day, and every setting of the clock
\* constants: what a scan records on the bars there are so far is what the same detector
\* finds in the whole day, although the limit of the fetch drops the day's first bars
\* (get_underlying_bars).  Excused are an event whose bar was not over, and one of
\* vwap_reject or gap_fade on a fetch that was cut: those two count from the day's first
\* bar (ScannerLab.scan and the four detectors of lab.py and failed_breakout.py).
THEOREM NoLookAhead == Spec => []RecordedMatchesDay
<1>1. ScanInv => RecordedMatchesDay
  BY DEF ScanInv
<1>2. QED BY <1>1, ScanInductive, PTL

-----------------------------------------------------------------------------
(* The backtest finds what the scanner finds. *)

LEMMA BacktestFinds ==
    ASSUME TypeOK, NEW t \in Tickers, FailedBreakout(day[t], Prior[t]) # None
    PROVE  FailedBreakout(day[t], Prior[t]) \in BacktestEvents(t)
<1> DEFINE w == day[t]
           high == Prior[t].high
           T == {i \in DOMAIN w : InWindow(w[i]) /\ w[i].close > high}
           F == {j \in DOMAIN w : w[j].close < high}
           i == First(T)
           C == Following(w, i) \intersect F
           j == First(C)
<1>1. DOMAIN w = 1 .. Len(w) /\ Len(w) \in Nat /\ \A k \in DOMAIN w : w[k].ts \in Nat
  BY DayTyped
<1>2. \A k, l \in DOMAIN w : k < l => w[k].ts < w[l].ts
  BY DayTyped
<1>3. T # {} /\ C # {} /\ FailedBreakout(day[t], Prior[t]) = Found(w[i], w[j])
  BY DEF FailedBreakout, FirstRejected
<1>4. T \in SUBSET Nat /\ C \in SUBSET Nat /\ T \subseteq DOMAIN w /\ C \subseteq DOMAIN w
  BY <1>1
<1>5. i \in T /\ j \in C /\ (\A k \in T : i <= k) /\ (\A k \in C : j <= k)
  <2> HIDE DEF T, C
  <2>1. QED BY <1>3, <1>4, FirstExists
<1> HIDE DEF i, j
<1> DEFINE Breaks(k) == /\ Earliest <= day[t][k].ts /\ day[t][k].ts < BacktestCutoff
                        /\ day[t][k].close > Prior[t].high
           Fails(k, l) == /\ k < l /\ day[t][l].ts <= day[t][k].ts + FailureWindow
                          /\ day[t][l].close < Prior[t].high
<1>6. i \in DOMAIN w /\ Breaks(i) /\ w[i].ts < Cutoff
  <2>1. /\ i \in DOMAIN w /\ Earliest <= w[i].ts /\ w[i].ts < Cutoff /\ w[i].close > high
        /\ w[i].ts \in Nat /\ Cutoff \in Nat
    BY <1>1, <1>5, ClockAssumption DEF InWindow
  <2>2. \A x \in Nat : x < Cutoff => x < BacktestCutoff
    BY <2>1, LabAssumption
  <2>3. QED BY <2>1, <2>2
<1>7. \A k \in 1 .. i - 1 : ~Breaks(k)
  <2> SUFFICES ASSUME NEW k \in 1 .. i - 1, Breaks(k) PROVE FALSE
    OBVIOUS
  <2>1. k \in DOMAIN w /\ k < i
    BY <1>1, <1>6
  <2>2. w[k].ts < Cutoff
    <3>1. w[k].ts < w[i].ts /\ w[i].ts < Cutoff
      BY <1>2, <1>6, <2>1
    <3>2. w[k].ts \in Nat /\ w[i].ts \in Nat /\ Cutoff \in Nat
      BY <1>1, <1>6, <2>1, ClockAssumption
    <3> HIDE DEF w
    <3>3. QED BY <3>1, <3>2
  <2>3. k \in T
    BY <2>1, <2>2 DEF InWindow
  <2>4. QED BY <1>1, <1>5, <1>6, <2>1, <2>3
<1>8. j \in DOMAIN w /\ Fails(i, j)
  BY <1>5 DEF Following
<1>9. \A k \in 1 .. j - 1 : ~Fails(i, k)
  <2> SUFFICES ASSUME NEW k \in 1 .. j - 1, Fails(i, k) PROVE FALSE
    OBVIOUS
  <2>1. k \in DOMAIN w /\ k < j
    BY <1>1, <1>8
  <2>2. k \in C
    BY <2>1 DEF Following
  <2>3. QED BY <1>1, <1>5, <1>8, <2>1, <2>2
<1> DEFINE events == {p \in (DOMAIN day[t]) \X (DOMAIN day[t]) :
                        /\ Breaks(p[1]) /\ \A b \in 1 .. p[1] - 1 : ~Breaks(b)
                        /\ Fails(p[1], p[2]) /\ \A f \in 1 .. p[2] - 1 : ~Fails(p[1], f)}
<1>10. BacktestEvents(t) = {Found(day[t][p[1]], day[t][p[2]]) : p \in events}
  BY DEF BacktestEvents
<1> HIDE DEF T, C, Breaks, Fails
<1>11. <<i, j>> \in events
  BY <1>6, <1>7, <1>8, <1>9
<1> HIDE DEF events
<1>12. Found(day[t][i], day[t][j]) \in {Found(day[t][p[1]], day[t][p[2]]) : p \in events}
  BY <1>11
<1>13. QED BY <1>3, <1>10, <1>12

\* Every settled event of the failed-breakout scanner is one the backtest over the same
\* day finds, for every day, although the backtest looks for breakouts until later
\* (backtest_failed_breakout).
THEOREM BacktestMirrored == Spec => []MirrorsBacktest
<1>1. ASSUME TypeOK, ScanInv PROVE MirrorsBacktest
  <2> SUFFICES ASSUME NEW k \in Journaled, k[1] = "failed_breakout", rows[k].settled
               PROVE  rows[k].event \in BacktestEvents(k[2])
    BY DEF MirrorsBacktest
  <2>1. k[2] \in Tickers
    BY DEF Journaled, Keys
  <2>2. rows[k].event = FailedBreakout(day[k[2]], Prior[k[2]])
    BY <1>1 DEF ScanInv, RecordedMatchesDay, Detect
  <2>3. rows[k].event # None
    BY <1>1 DEF ScanInv, RecordedIsSome
  <2>4. QED BY <1>1, <2>1, <2>2, <2>3, BacktestFinds
<1>2. QED BY <1>1, TypeCorrect, ScanInductive, PTL
=============================================================================
