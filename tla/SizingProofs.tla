----------------------------- MODULE SizingProofs -----------------------------
(***************************************************************************)
(* The sizing rule computes the cap of REQ-003, for histories of any       *)
(* length.  The recursive function of LossStreak is characterised by a     *)
(* cardinality: the function i |-> number of losses from i on solves the   *)
(* recursion, and nothing else does.  Where an induction is needed, a      *)
(* least counterexample takes its place.                                   *)
(***************************************************************************)
EXTENDS SizingHistory, FiniteSetTheorems, FunctionTheorems, WellFoundedInduction, TLAPS

ClosedTrades == [size : Nat \ {0}, pnl : Outcomes]
Histories == Seq(ClosedTrades)
HistoryTypeOK == history \in Histories

LEMMA HistoryTyped ==
  ASSUME NEW h \in Histories
  PROVE  /\ Len(h) \in Nat /\ DOMAIN h = 1 .. Len(h)
         /\ \A i \in 1 .. Len(h) : h[i].size \in Nat \ {0} /\ h[i].pnl \in Int
<1>1. h \in [1 .. Len(h) -> ClosedTrades] /\ Len(h) \in Nat BY DEF Histories
<1>2. \A i \in 1 .. Len(h) : h[i].pnl \in Outcomes /\ h[i].size \in Nat \ {0} BY <1>1 DEF ClosedTrades
<1> QED BY <1>1, <1>2 DEF Outcomes

-----------------------------------------------------------------------------
(* Least and largest elements.                                               *)

(* Initial segments are ordered by inclusion as their bounds are by size,    *)
(* and inclusion of finite sets is well founded.                             *)
LEMMA LeastNatural ==
  ASSUME NEW S \in SUBSET Nat, S # {}
  PROVE  \E m \in S : \A k \in S : m <= k
<1> DEFINE T == {0 .. k : k \in S}
<1>1. T \subseteq FiniteSubsetsOf(Nat)
  <2>1. ASSUME NEW k \in S PROVE 0 .. k \in FiniteSubsetsOf(Nat)
    <3>1. IsFiniteSet(0 .. k) BY FS_Interval
    <3> QED BY <3>1 DEF FiniteSubsetsOf
  <2> QED BY <2>1
<1>2. T # {} OBVIOUS
<1>3. IsWellFoundedOn(StrictSubsetOrdering(Nat), FiniteSubsetsOf(Nat))
  BY FS_StrictSubsetOrderingWellFounded
<1>4. PICK x \in T : \A y \in T : <<y, x>> \notin StrictSubsetOrdering(Nat)
  <2> HIDE DEF T
  <2> QED BY <1>1, <1>2, <1>3, WFMin
<1>5. PICK m \in S : x = 0 .. m BY <1>4
<1>6. ASSUME NEW k \in S, k < m PROVE FALSE
  <2>1. 0 .. k \in T OBVIOUS
  <2>2. 0 .. k \subseteq 0 .. m /\ m \in 0 .. m /\ m \notin 0 .. k BY <1>6
  <2>3. 0 .. k \subseteq 0 .. m /\ 0 .. k # 0 .. m BY <2>2
  <2>4. 0 .. k \in SUBSET Nat /\ 0 .. m \in SUBSET Nat OBVIOUS
  <2>5. <<0 .. k, 0 .. m>> \in StrictSubsetOrdering(Nat)
    BY <2>3, <2>4 DEF StrictSubsetOrdering
  <2> QED BY <1>4, <1>5, <2>1, <2>5
<1> QED BY <1>6

LEMMA LargestExists ==
  ASSUME NEW n \in Nat \ {0}, NEW f, \A i \in 1 .. n : f[i] \in Nat
  PROVE  \E m \in 1 .. n : \A i \in 1 .. n : f[i] <= f[m]
<1> DEFINE HasLargest(k) == \E m \in 1 .. k : \A i \in 1 .. k : f[i] <= f[m]
           S == {k \in 1 .. n : ~ HasLargest(k)}
<1>1. SUFFICES ASSUME S # {} PROVE FALSE
  <2>1. S = {} => n \notin S OBVIOUS
  <2>2. n \in 1 .. n OBVIOUS
  <2>3. n \notin S => HasLargest(n) BY <2>2
  <2> QED BY <2>1, <2>3
<1>2. PICK k \in S : \A j \in S : k <= j
  <2>1. S \in SUBSET Nat OBVIOUS
  <2> QED BY <1>1, <2>1, LeastNatural
<1>3. HasLargest(1) OBVIOUS
<1>4. k # 1 BY <1>2, <1>3
<1>5. k - 1 \in 1 .. n /\ k - 1 \notin S
  <2>1. k \in 1 .. n /\ ~ k <= k - 1 BY <1>2
  <2>2. k - 1 \in 1 .. n BY <1>4, <2>1
  <2> HIDE DEF S
  <2> QED BY <1>2, <2>1, <2>2
<1>6. PICK m \in 1 .. k - 1 : \A i \in 1 .. k - 1 : f[i] <= f[m] BY <1>5
<1>7. \A i \in 1 .. k : i = k \/ i \in 1 .. k - 1 BY <1>2
<1>8. f[k] \in Nat /\ f[m] \in Nat BY <1>2, <1>5
<1>9. CASE f[k] <= f[m]
  <2>1. m \in 1 .. k /\ \A i \in 1 .. k : f[i] <= f[m] BY <1>6, <1>7, <1>9, <1>2
  <2> QED BY <2>1, <1>2
<1>10. CASE f[m] <= f[k]
  <2>1. \A i \in 1 .. k - 1 : f[i] \in Nat BY <1>5
  <2>2. \A i \in 1 .. k : f[i] <= f[k] BY <1>6, <1>7, <1>8, <1>10, <2>1
  <2> QED BY <2>2, <1>2
<1> QED BY <1>8, <1>9, <1>10

-----------------------------------------------------------------------------
(* The streak.                                                               *)

(* The losses from the i-th trade on that no win separates from it.          *)
LossesFrom(h, i) ==
    {j \in i .. Len(h) : h[j].pnl < 0 /\ \A k \in i .. j : h[k].pnl <= 0}

LEMMA LossesAreFinite ==
  ASSUME NEW h \in Histories, NEW i \in Nat
  PROVE  IsFiniteSet(LossesFrom(h, i)) /\ Cardinality(LossesFrom(h, i)) \in Nat
<1>1. IsFiniteSet(i .. Len(h)) BY FS_Interval DEF Histories
<1>2. LossesFrom(h, i) \in SUBSET (i .. Len(h)) BY DEF LossesFrom
<1>3. IsFiniteSet(LossesFrom(h, i)) BY <1>1, <1>2, FS_Subset
<1> QED BY <1>3, FS_CardinalityType

(* Counting them obeys the recursion of LossStreak.                          *)
LEMMA LossesRecur ==
  ASSUME NEW h \in Histories, NEW i \in 1 .. Len(h) + 1
  PROVE  Cardinality(LossesFrom(h, i)) =
           IF i > Len(h) \/ h[i].pnl > 0 THEN 0
           ELSE Cardinality(LossesFrom(h, i + 1)) + (IF h[i].pnl < 0 THEN 1 ELSE 0)
<1>0. Len(h) \in Nat /\ \A j \in 1 .. Len(h) : h[j].pnl \in Int BY HistoryTyped
<1>1. CASE i > Len(h)
  <2>1. LossesFrom(h, i) = {} BY <1>0, <1>1 DEF LossesFrom
  <2> QED BY <1>1, <2>1, FS_EmptySet
<1>2. CASE i <= Len(h) /\ h[i].pnl > 0
  <2>1. \A j \in i .. Len(h) : i \in i .. j OBVIOUS
  <2>2. LossesFrom(h, i) = {} BY <1>0, <1>2, <2>1 DEF LossesFrom
  <2> QED BY <1>2, <2>2, FS_EmptySet
<1>3. CASE i <= Len(h) /\ ~ h[i].pnl > 0
  <2>1. i \in 1 .. Len(h) /\ h[i].pnl <= 0 BY <1>0, <1>3
  <2>2. \A j \in i .. Len(h) : j = i \/ j \in i + 1 .. Len(h) BY <1>0
  <2>3. \A j \in i + 1 .. Len(h) :
          /\ j \in i .. Len(h)
          /\ \A k \in i .. j : k = i \/ k \in i + 1 .. j
          /\ \A k \in i + 1 .. j : k \in i .. j
    BY <1>0
  <2>4. ASSUME NEW j \in i + 1 .. Len(h) PROVE j \in LossesFrom(h, i) <=> j \in LossesFrom(h, i + 1)
    BY <2>1, <2>3 DEF LossesFrom
  <2>5. i \in LossesFrom(h, i) <=> h[i].pnl < 0
    <3>1. i .. i = {i} /\ i \in i .. Len(h) BY <2>1
    <3> QED BY <2>1, <3>1 DEF LossesFrom
  <2>6. i \notin LossesFrom(h, i + 1) BY DEF LossesFrom
  <2>7. LossesFrom(h, i) \subseteq i .. Len(h) /\ LossesFrom(h, i + 1) \subseteq i + 1 .. Len(h)
    BY DEF LossesFrom
  <2>8. IsFiniteSet(LossesFrom(h, i + 1)) /\ Cardinality(LossesFrom(h, i + 1)) \in Nat BY LossesAreFinite
  <2>9. CASE h[i].pnl < 0
    <3>1. LossesFrom(h, i) = LossesFrom(h, i + 1) \cup {i} BY <2>2, <2>4, <2>5, <2>7, <2>9
    <3>2. Cardinality(LossesFrom(h, i)) = Cardinality(LossesFrom(h, i + 1)) + 1
      BY <2>6, <2>8, <3>1, FS_AddElement
    <3> QED BY <1>3, <2>1, <2>9, <3>2
  <2>10. CASE ~ h[i].pnl < 0
    <3>1. LossesFrom(h, i) = LossesFrom(h, i + 1) BY <2>2, <2>4, <2>5, <2>7, <2>6, <2>10
    <3> QED BY <1>3, <2>1, <2>8, <2>10, <3>1
  <2> QED BY <2>9, <2>10
<1> QED BY <1>0, <1>1, <1>2, <1>3

(* What LossStreak computes.                                                 *)
LEMMA StreakIsCardinality ==
  ASSUME NEW h \in Histories
  PROVE  LossStreak(h) = Cardinality(LossesFrom(h, 1))
<1> DEFINE n == Len(h)
           Next(f, i) == IF i > Len(h) \/ h[i].pnl > 0 THEN 0
                         ELSE f[i + 1] + (IF h[i].pnl < 0 THEN 1 ELSE 0)
           count == [i \in 1 .. n + 1 |-> Cardinality(LossesFrom(h, i))]
<1>0. n \in Nat BY DEF Histories
<1>1. ASSUME NEW i \in 1 .. n + 1 PROVE count[i] = Next(count, i)
  <2>1. CASE i > n BY <2>1, LossesRecur
  <2>2. CASE i <= n
    <3>1. i + 1 \in 1 .. n + 1 BY <1>0, <2>2
    <3> QED BY <3>1, LossesRecur
  <2> QED BY <1>0, <2>1, <2>2
<1>2. count = [i \in 1 .. n + 1 |-> Next(count, i)] BY <1>1
<1>3. ASSUME NEW f, f = [i \in 1 .. n + 1 |-> Next(f, i)] PROVE f = count
  <2> DEFINE S == {k \in 0 .. n : f[n + 1 - k] # count[n + 1 - k]}
  <2>1. SUFFICES S = {}
    <3>1. \A i \in 1 .. n + 1 : n + 1 - i \in 0 .. n /\ n + 1 - (n + 1 - i) = i BY <1>0
    <3>2. S = {} => \A k \in 0 .. n : f[n + 1 - k] = count[n + 1 - k] OBVIOUS
    <3>3. S = {} => \A i \in 1 .. n + 1 : f[i] = count[i] BY <3>1, <3>2
    <3> HIDE DEF S, n, Next
    <3> QED BY <1>3, <3>3
  <2>2. SUFFICES ASSUME S # {} PROVE FALSE OBVIOUS
  <2>3. PICK k \in S : \A j \in S : k <= j
    <3>1. S \in SUBSET Nat BY <1>0
    <3> QED BY <2>2, <3>1, LeastNatural
  <2>4. k \in 0 .. n /\ n + 1 - k \in 1 .. n + 1 BY <1>0
  <2>5. f[n + 1 - k] = Next(f, n + 1 - k) BY <1>3, <2>4
  <2>6. count[n + 1 - k] = Next(count, n + 1 - k) BY <1>1, <2>4
  <2>7. CASE k = 0
    <3>1. n + 1 - k > n BY <1>0, <2>7
    <3>2. Next(f, n + 1 - k) = 0 /\ Next(count, n + 1 - k) = 0 BY <3>1
    <3> QED BY <2>5, <2>6, <3>2
  <2>8. CASE k # 0
    <3>1. k - 1 \in 0 .. n /\ ~ k <= k - 1 BY <2>4, <2>8, <1>0
    <3>2. k - 1 \notin S
      <4> HIDE DEF S
      <4> QED BY <2>3, <3>1
    <3>3. f[n + 1 - (k - 1)] = count[n + 1 - (k - 1)] BY <3>1, <3>2
    <3>4. n + 1 - (k - 1) = n + 1 - k + 1 BY <1>0, <2>4
    <3>5. f[n + 1 - k + 1] = count[n + 1 - k + 1] BY <3>3, <3>4
    <3>6. Next(f, n + 1 - k) = Next(count, n + 1 - k)
      <4> HIDE DEF count
      <4> QED BY <3>5
    <3>7. f[n + 1 - k] # count[n + 1 - k] BY <2>3
    <3> QED BY <2>5, <2>6, <3>6, <3>7
  <2> QED BY <2>7, <2>8
<1>4. (CHOOSE f : f = [i \in 1 .. n + 1 |-> Next(f, i)]) = count
  <2> HIDE DEF count, Next, n
  <2> QED BY <1>2, <1>3
<1>5. LossStreak(h) = count[1]
  <2> HIDE DEF count
  <2> QED BY <1>4 DEF LossStreak
<1> QED BY <1>0, <1>5

-----------------------------------------------------------------------------
(* The cap.                                                                  *)

LEMMA NewestWinIsNewest ==
  ASSUME NEW h \in Histories, Wins(h) # {}
  PROVE  /\ NewestWin(h) \in Wins(h)
         /\ \A j \in Wins(h) : NewestWin(h) <= j
<1>1. Wins(h) \in SUBSET Nat BY HistoryTyped DEF Wins
<1>2. \E i \in Wins(h) : \A j \in Wins(h) : i <= j BY <1>1, LeastNatural
<1> QED BY <1>2 DEF NewestWin

LEMMA LargestSizeIsLargest ==
  ASSUME NEW h \in Histories, Len(h) # 0
  PROVE  /\ \E i \in 1 .. Len(h) : LargestSize(h) = h[i].size
         /\ \A i \in 1 .. Len(h) : h[i].size <= LargestSize(h)
<1> DEFINE size == [i \in 1 .. Len(h) |-> h[i].size]
<1>1. Len(h) \in Nat \ {0} /\ DOMAIN h = 1 .. Len(h) BY HistoryTyped
<1>2. \A i \in 1 .. Len(h) : size[i] \in Nat BY HistoryTyped
<1>3. PICK m \in 1 .. Len(h) : \A i \in 1 .. Len(h) : size[i] <= size[m]
  <2> HIDE DEF size
  <2> QED BY <1>1, <1>2, LargestExists
<1>4. \A i \in 1 .. Len(h) : h[i].size <= h[m].size BY <1>3
<1>5. \E s \in {h[i].size : i \in DOMAIN h} : \A i \in DOMAIN h : h[i].size <= s BY <1>1, <1>4
<1>6. /\ LargestSize(h) \in {h[i].size : i \in DOMAIN h}
      /\ \A i \in DOMAIN h : h[i].size <= LargestSize(h)
  BY <1>5 DEF LargestSize
<1> QED BY <1>1, <1>6

(* The three cases of the basis.                                             *)
LEMMA BasisAfterWin ==
  ASSUME NEW h \in Histories, Wins(h) # {}
  PROVE  /\ NewestWin(h) \in 1 .. Len(h)
         /\ h[NewestWin(h)].pnl > 0
         /\ \A j \in 1 .. NewestWin(h) - 1 : h[j].pnl <= 0
         /\ CapBasis(h) = 5 * h[NewestWin(h)].size
<1>1. NewestWin(h) \in Wins(h) /\ \A j \in Wins(h) : NewestWin(h) <= j BY NewestWinIsNewest
<1>2. NewestWin(h) \in 1 .. Len(h) /\ h[NewestWin(h)].pnl > 0 BY <1>1, HistoryTyped DEF Wins
<1>3. ASSUME NEW j \in 1 .. NewestWin(h) - 1 PROVE h[j].pnl <= 0
  <2>1. j \in 1 .. Len(h) /\ ~ NewestWin(h) <= j /\ h[j].pnl \in Int BY <1>2, HistoryTyped
  <2>2. j \notin Wins(h) BY <1>1, <2>1
  <2> QED BY <2>1, <2>2, HistoryTyped DEF Wins
<1> QED BY <1>2, <1>3 DEF CapBasis

LEMMA BasisOfFew ==
  ASSUME NEW h \in Histories, Wins(h) = {}, Len(h) # 0, Len(h) < 5
  PROVE  CapBasis(h) = 5 * LargestSize(h)
BY DEF CapBasis

LEMMA BasisOfFive ==
  ASSUME NEW h \in Histories, Wins(h) = {}, Len(h) >= 5
  PROVE  /\ CapBasis(h) = LastFiveTotal(h)
         /\ LastFiveTotal(h) <= 5 * LargestSize(h)
<1>1. Len(h) \in Nat /\ Len(h) # 0 BY HistoryTyped
<1>2. \A i \in 1 .. Len(h) : h[i].size \in Nat \ {0} BY HistoryTyped
<1>3. LargestSize(h) \in Nat /\ \A i \in 1 .. Len(h) : h[i].size <= LargestSize(h)
  BY <1>1, <1>2, LargestSizeIsLargest
<1>4. LastFiveTotal(h) \in Nat /\ LastFiveTotal(h) <= 5 * LargestSize(h)
  <2>1. \A i \in {1, 2, 3, 4, 5} : h[i].size \in Nat /\ h[i].size <= LargestSize(h)
    <3>1. \A i \in {1, 2, 3, 4, 5} : i \in 1 .. Len(h) BY <1>1
    <3> QED BY <1>2, <1>3, <3>1
  <2>2. \A a, b, c, d, e, m \in Nat :
           a <= m /\ b <= m /\ c <= m /\ d <= m /\ e <= m => a + b + c + d + e <= 5 * m
    OBVIOUS
  <2>3. /\ h[1].size \in Nat /\ h[2].size \in Nat /\ h[3].size \in Nat /\ h[4].size \in Nat /\ h[5].size \in Nat
        /\ h[1].size <= LargestSize(h) /\ h[2].size <= LargestSize(h) /\ h[3].size <= LargestSize(h)
        /\ h[4].size <= LargestSize(h) /\ h[5].size <= LargestSize(h)
    BY <2>1
  <2>4. LastFiveTotal(h) \in Nat
    <3>1. \A a, b, c, d, e \in Nat : a + b + c + d + e \in Nat OBVIOUS
    <3> QED BY <2>3, <3>1 DEF LastFiveTotal
  <2>5. LastFiveTotal(h) <= 5 * LargestSize(h) BY <1>3, <2>2, <2>3 DEF LastFiveTotal
  <2> QED BY <2>4, <2>5
<1>5. CapBasis(h) = Smaller(LastFiveTotal(h), 5 * LargestSize(h)) BY <1>1 DEF CapBasis
<1> QED BY <1>4, <1>5 DEF Smaller

LEMMA BasisIsBounded ==
  ASSUME NEW h \in Histories, Len(h) # 0
  PROVE  /\ CapBasis(h) \in Nat \ {0}
         /\ \E i \in 1 .. Len(h) : CapBasis(h) <= 5 * h[i].size
<1>1. Len(h) \in Nat /\ \A i \in 1 .. Len(h) : h[i].size \in Nat \ {0} BY HistoryTyped
<1>2. CASE Wins(h) # {} BY <1>1, <1>2, BasisAfterWin
<1>3. CASE Wins(h) = {} /\ Len(h) < 5 BY <1>1, <1>3, BasisOfFew, LargestSizeIsLargest
<1>4. CASE Wins(h) = {} /\ Len(h) >= 5
  <2>1. \A i \in {1, 2, 3, 4, 5} : h[i].size \in Nat \ {0}
    <3>1. \A i \in {1, 2, 3, 4, 5} : i \in 1 .. Len(h) BY <1>1, <1>4
    <3> QED BY <1>1, <3>1
  <2>2. LastFiveTotal(h) \in Nat \ {0}
    <3>1. /\ h[1].size \in Nat \ {0} /\ h[2].size \in Nat \ {0} /\ h[3].size \in Nat \ {0}
          /\ h[4].size \in Nat \ {0} /\ h[5].size \in Nat \ {0}
      BY <2>1
    <3>2. \A a, b, c, d, e \in Nat \ {0} : a + b + c + d + e \in Nat \ {0} OBVIOUS
    <3> QED BY <3>1, <3>2 DEF LastFiveTotal
  <2> QED BY <1>1, <1>4, <2>2, BasisOfFive, LargestSizeIsLargest
<1> QED BY <1>1, <1>2, <1>3, <1>4

(* A streak presupposes a trade.                                             *)
LEMMA StreakNeedsTrades ==
  ASSUME NEW h \in Histories, ~ LossStreak(h) < Threshold
  PROVE  Len(h) # 0 /\ SizeCap(h) = FactorNum * CapBasis(h)
<1>1. Len(h) # 0
  <2>1. SUFFICES ASSUME Len(h) = 0 PROVE FALSE OBVIOUS
  <2>2. LossesFrom(h, 1) = {} BY <2>1 DEF LossesFrom
  <2>3. LossStreak(h) = 0 BY <2>2, StreakIsCardinality, FS_EmptySet
  <2> QED BY <2>3, SizingAssumption
<1> QED BY <1>1 DEF SizeCap

LEMMA CapIsPositive ==
  ASSUME NEW h \in Histories
  PROVE  /\ LossStreak(h) < Threshold => SizeCap(h) = NoCap
         /\ ~ LossStreak(h) < Threshold => SizeCap(h) # NoCap
<1>1. ASSUME ~ LossStreak(h) < Threshold PROVE SizeCap(h) # NoCap
  <2>1. SizeCap(h) = FactorNum * CapBasis(h) BY <1>1, StreakNeedsTrades
  <2>2. CapBasis(h) \in Nat \ {0} BY <1>1, StreakNeedsTrades, BasisIsBounded
  <2>3. FactorNum \in Nat \ {0} BY SizingAssumption
  <2>4. \A a, b \in Nat \ {0} : a * b # 0 OBVIOUS
  <2> QED BY <2>1, <2>2, <2>3, <2>4 DEF NoCap
<1> QED BY <1>1 DEF SizeCap

-----------------------------------------------------------------------------
(* The theorems.                                                             *)

(* The record of a symbol is a history of trades of positive size.           *)
THEOREM HistoryTypeCorrect == HistorySpec => []HistoryTypeOK
<1>1. HistoryInit => HistoryTypeOK BY DEF HistoryInit, Histories, HistoryTypeOK
<1>2. HistoryTypeOK /\ [HistoryNext]_history => HistoryTypeOK'
  <2> SUFFICES ASSUME HistoryTypeOK, [HistoryNext]_history PROVE HistoryTypeOK' OBVIOUS
  <2> USE DEF Histories, HistoryTypeOK
  <2>0. Len(history) \in Nat /\ history \in [1 .. Len(history) -> ClosedTrades] OBVIOUS
  <2>1. ASSUME NEW size \in Sizes, NEW pnl \in Outcomes, Close(size, pnl) PROVE HistoryTypeOK'
    <3>1. [size |-> size, pnl |-> pnl] \in ClosedTrades BY HistoryAssumption DEF ClosedTrades
    <3>2. <<[size |-> size, pnl |-> pnl]>> \in Histories BY <3>1
    <3> QED BY <2>1, <3>2 DEF Close
  <2>2. ASSUME NEW i \in DOMAIN history, NEW pnl \in Outcomes, SetPnl(i, pnl) PROVE HistoryTypeOK'
    <3>1. [history[i] EXCEPT !.pnl = pnl] \in ClosedTrades BY <2>0 DEF ClosedTrades
    <3>2. history' = [history EXCEPT ![i] = [history[i] EXCEPT !.pnl = pnl]] BY <2>2 DEF SetPnl
    <3> QED BY <3>1, <3>2
  <2>3. ASSUME NEW i \in DOMAIN history, NEW size \in Sizes, NEW pnl \in Outcomes,
               EditFigures(i, size, pnl)
        PROVE  HistoryTypeOK'
    <3>1. [size |-> size, pnl |-> pnl] \in ClosedTrades BY HistoryAssumption DEF ClosedTrades
    <3> QED BY <2>3, <3>1 DEF EditFigures
  <2>4. ASSUME NEW i \in DOMAIN history, EditClosedAt(i) PROVE HistoryTypeOK'
    <3>1. history[i] \in ClosedTrades /\ history[i + 1] \in ClosedTrades BY <2>0, <2>4 DEF EditClosedAt
    <3> QED BY <2>4, <3>1 DEF EditClosedAt
  <2>5. CASE UNCHANGED history BY <2>5
  <2> QED BY <2>1, <2>2, <2>3, <2>4, <2>5 DEF HistoryNext
<1> QED BY <1>1, <1>2, PTL DEF HistorySpec

(* compute_size_cap is the cap of REQ-003, however long the history and      *)
(* whatever the settings.                                                    *)
THEOREM CapIsTheRequiredOne == HistorySpec => []CapIsAsRequired
<1>1. HistoryTypeOK => CapIsAsRequired
  <2> SUFFICES ASSUME history \in Histories PROVE CapIsAsRequired BY DEF HistoryTypeOK
  <2> DEFINE cap == SizeCap(history)
             Cap(size) == 5 * FactorNum * size
  <2>0. /\ Len(history) \in Nat /\ DOMAIN history = 1 .. Len(history)
        /\ \A i \in 1 .. Len(history) : history[i].size \in Nat \ {0} /\ history[i].pnl \in Int
    BY HistoryTyped
  <2>1. RequiredStreak = LossStreak(history)
    <3>1. {i \in DOMAIN history : history[i].pnl < 0 /\ \A j \in 1 .. i : history[j].pnl <= 0}
            = LossesFrom(history, 1)
      BY <2>0 DEF LossesFrom
    <3> QED BY <3>1, StreakIsCardinality DEF RequiredStreak
  <2>2. RequiredStreak < Threshold <=> cap = NoCap BY <2>1, CapIsPositive
  <2>3. FactorNum \in Nat BY SizingAssumption
  <2>4. ASSUME cap # NoCap
        PROVE  Len(history) # 0 /\ cap = FactorNum * CapBasis(history)
    BY <2>4, CapIsPositive, StreakNeedsTrades
  <2>5. ASSUME cap # NoCap, Wins(history) # {}
        PROVE  \E w \in DOMAIN history :
                  /\ history[w].pnl > 0
                  /\ \A j \in 1 .. w - 1 : history[j].pnl <= 0
                  /\ cap = Cap(history[w].size)
    <3> DEFINE w == NewestWin(history)
    <3>1. /\ w \in DOMAIN history /\ history[w].pnl > 0
          /\ \A j \in 1 .. w - 1 : history[j].pnl <= 0
          /\ CapBasis(history) = 5 * history[w].size
      BY <2>0, <2>5, BasisAfterWin
    <3>2. history[w].size \in Nat BY <2>0, <3>1
    <3> HIDE DEF w
    <3>3. cap = Cap(history[w].size) BY <2>3, <2>4, <2>5, <3>1, <3>2
    <3> QED BY <3>1, <3>3
  <2>6. ASSUME Wins(history) = {} PROVE \A i \in DOMAIN history : history[i].pnl <= 0
    BY <2>0, <2>6 DEF Wins
  <2>7. ASSUME cap # NoCap, Wins(history) = {}, Len(history) < 5
        PROVE  /\ \A i \in DOMAIN history : cap >= Cap(history[i].size)
               /\ \E s \in {history[i].size : i \in DOMAIN history} : cap = Cap(s)
    <3>1. PICK m \in 1 .. Len(history) : LargestSize(history) = history[m].size
      BY <2>4, <2>7, LargestSizeIsLargest
    <3>2. cap = Cap(history[m].size)
      BY <2>0, <2>3, <2>4, <2>7, <3>1, BasisOfFew
    <3>3. ASSUME NEW i \in 1 .. Len(history) PROVE Cap(history[i].size) <= Cap(history[m].size)
      <4>1. history[i].size <= history[m].size BY <2>4, <2>7, <3>1, LargestSizeIsLargest
      <4>2. \A a, b, c \in Nat : a <= b => 5 * c * a <= 5 * c * b OBVIOUS
      <4> QED BY <2>0, <2>3, <4>1, <4>2
    <3>4. Cap(history[m].size) \in Nat BY <2>0, <2>3
    <3>5. \A i \in 1 .. Len(history) : Cap(history[i].size) \in Nat BY <2>0, <2>3
    <3> QED BY <2>0, <3>2, <3>3, <3>4, <3>5
  <2>8. ASSUME cap # NoCap, Wins(history) = {}, Len(history) >= 5
        PROVE  5 * cap = Cap(history[1].size) + Cap(history[2].size) + Cap(history[3].size)
                       + Cap(history[4].size) + Cap(history[5].size)
    <3>1. \A i \in {1, 2, 3, 4, 5} : history[i].size \in Nat
      <4>1. \A i \in {1, 2, 3, 4, 5} : i \in 1 .. Len(history) BY <2>0, <2>8
      <4> QED BY <2>0, <4>1
    <3>2. cap = FactorNum * LastFiveTotal(history) BY <2>4, <2>8, BasisOfFive
    <3>3. \A f, a, b, c, d, e \in Nat :
             5 * (f * (a + b + c + d + e)) = 5 * f * a + 5 * f * b + 5 * f * c + 5 * f * d + 5 * f * e
      OBVIOUS
    <3> QED BY <2>3, <3>1, <3>2, <3>3 DEF LastFiveTotal
  <2> HIDE DEF cap
  <2>9. cap # NoCap =>
           \/ \E w \in DOMAIN history :
              /\ history[w].pnl > 0
              /\ \A j \in 1 .. w - 1 : history[j].pnl <= 0
              /\ cap = Cap(history[w].size)
           \/ /\ \A i \in DOMAIN history : history[i].pnl <= 0
              /\ \A i \in DOMAIN history : Len(history) < 5 => cap >= Cap(history[i].size)
              /\ Len(history) < 5 => \E s \in {history[i].size : i \in DOMAIN history} : cap = Cap(s)
              /\ Len(history) >= 5 =>
                 5 * cap = Cap(history[1].size) + Cap(history[2].size) + Cap(history[3].size)
                         + Cap(history[4].size) + Cap(history[5].size)
    BY <2>5, <2>6, <2>7, <2>8
  <2> QED BY <2>2, <2>9 DEF CapIsAsRequired, cap
<1> QED BY <1>1, HistoryTypeCorrect, PTL

(* A cap below 100% forbids a size the trader has used.                      *)
THEOREM CapsBite == HistorySpec => []CapBites
<1>1. HistoryTypeOK => CapBites
  <2> SUFFICES ASSUME history \in Histories, SizeCap(history) # NoCap, FactorNum < FactorDen
               PROVE  \E i \in DOMAIN history : ~ WithinCap(history[i].size, SizeCap(history))
    BY DEF HistoryTypeOK, CapBites
  <2>1. Len(history) # 0 /\ SizeCap(history) = FactorNum * CapBasis(history)
    BY CapIsPositive, StreakNeedsTrades
  <2>2. PICK i \in 1 .. Len(history) : CapBasis(history) <= 5 * history[i].size
    BY <2>1, BasisIsBounded
  <2>3. /\ CapBasis(history) \in Nat \ {0} /\ history[i].size \in Nat \ {0}
        /\ FactorNum \in Nat \ {0} /\ FactorDen \in Nat
    BY <2>1, BasisIsBounded, HistoryTyped, SizingAssumption
  <2>4. FactorNum * CapBasis(history) < history[i].size * (5 * FactorDen)
    <3>1. \A f, b, s \in Nat : b <= 5 * s => f * b <= f * (5 * s) OBVIOUS
    <3>2. FactorNum * CapBasis(history) <= FactorNum * (5 * history[i].size) BY <2>2, <2>3, <3>1
    <3>3. \A f, d, t \in Nat : f < d /\ t # 0 => f * t < d * t OBVIOUS
    <3>4. FactorNum * (5 * history[i].size) < FactorDen * (5 * history[i].size)
      <4>1. 5 * history[i].size \in Nat /\ 5 * history[i].size # 0 BY <2>3
      <4> QED BY <2>3, <3>3, <4>1
    <3>5. FactorDen * (5 * history[i].size) = history[i].size * (5 * FactorDen) BY <2>3
    <3>6. /\ FactorNum * CapBasis(history) \in Int /\ FactorNum * (5 * history[i].size) \in Int
          /\ FactorDen * (5 * history[i].size) \in Int
      BY <2>3
    <3>7. \A a, b, c \in Int : a <= b /\ b < c => a < c OBVIOUS
    <3>8. FactorNum * CapBasis(history) < FactorDen * (5 * history[i].size)
      BY <3>2, <3>4, <3>6, <3>7
    <3> QED BY <3>5, <3>8
  <2>5. /\ FactorNum * CapBasis(history) \in Int /\ history[i].size * (5 * FactorDen) \in Int
    BY <2>3
  <2>6. ~ history[i].size * CapUnit <= SizeCap(history) BY <2>1, <2>4, <2>5 DEF CapUnit
  <2>7. i \in DOMAIN history BY HistoryTyped
  <2> QED BY <2>6, <2>7 DEF WithinCap
<1> QED BY <1>1, HistoryTypeCorrect, PTL

(* Two histories that agree up to a win have the same cap.                   *)
LEMMA CapLooksBackToWin ==
  ASSUME NEW h \in Histories, NEW g \in Histories, NEW w \in (1 .. Len(h)) \cap (1 .. Len(g)),
         h[w].pnl > 0, \A i \in 1 .. w : h[i] = g[i]
  PROVE  SizeCap(h) = SizeCap(g)
<1>0. /\ Len(h) \in Nat /\ DOMAIN h = 1 .. Len(h) /\ Len(g) \in Nat /\ DOMAIN g = 1 .. Len(g)
      /\ \A i \in 1 .. Len(h) : h[i].pnl \in Int
      /\ \A i \in 1 .. Len(g) : g[i].pnl \in Int
  BY HistoryTyped
<1>1. g[w] = h[w] /\ g[w].pnl > 0 BY <1>0
<1>2. LossStreak(h) = LossStreak(g)
  <2>1. \A j \in LossesFrom(h, 1) \cup LossesFrom(g, 1) : j < w
    <3>1. \A j \in 1 .. Len(h) : ~ j < w => w \in 1 .. j BY <1>0
    <3>2. \A j \in 1 .. Len(g) : ~ j < w => w \in 1 .. j BY <1>0
    <3> QED BY <1>0, <1>1, <3>1, <3>2 DEF LossesFrom
  <2>2. ASSUME NEW j \in 1 .. w - 1 PROVE j \in LossesFrom(h, 1) <=> j \in LossesFrom(g, 1)
    <3>1. j \in 1 .. Len(h) /\ j \in 1 .. Len(g) /\ \A k \in 1 .. j : h[k] = g[k] BY <1>0
    <3>2. h[j] = g[j] BY <3>1
    <3> QED BY <3>1, <3>2 DEF LossesFrom
  <2>3. LossesFrom(h, 1) \subseteq Nat /\ LossesFrom(g, 1) \subseteq Nat
        /\ \A j \in LossesFrom(h, 1) \cup LossesFrom(g, 1) : j \in 1 .. w - 1
    BY <2>1 DEF LossesFrom
  <2>4. LossesFrom(h, 1) = LossesFrom(g, 1) BY <2>2, <2>3
  <2> QED BY <2>4, StreakIsCardinality
<1>3. w \in Wins(h) /\ w \in Wins(g) BY <1>0, <1>1 DEF Wins
<1>4. /\ NewestWin(h) \in 1 .. Len(h) /\ NewestWin(h) <= w /\ h[NewestWin(h)].pnl > 0
      /\ NewestWin(g) \in 1 .. Len(g) /\ NewestWin(g) <= w /\ g[NewestWin(g)].pnl > 0
  BY <1>3, NewestWinIsNewest, BasisAfterWin
<1>5. NewestWin(h) \in 1 .. w /\ NewestWin(g) \in 1 .. w BY <1>0, <1>4
<1>6. NewestWin(h) \in Wins(g) /\ NewestWin(g) \in Wins(h)
  <2>1. h[NewestWin(h)] = g[NewestWin(h)] /\ h[NewestWin(g)] = g[NewestWin(g)] BY <1>5
  <2>2. NewestWin(h) \in 1 .. Len(g) /\ NewestWin(g) \in 1 .. Len(h) BY <1>0, <1>5
  <2> QED BY <1>0, <1>4, <2>1, <2>2 DEF Wins
<1>7. NewestWin(h) = NewestWin(g)
  <2>1. NewestWin(h) <= NewestWin(g) /\ NewestWin(g) <= NewestWin(h)
    BY <1>3, <1>6, NewestWinIsNewest
  <2> QED BY <1>0, <1>4, <2>1
<1>8. CapBasis(h) = CapBasis(g) BY <1>3, <1>5, <1>7, BasisAfterWin
<1> QED BY <1>2, <1>8 DEF SizeCap

(* What is older than the newest win does not count.                         *)
THEOREM OldTradesDoNotCount == HistorySpec => OldTradesAreForgotten
<1>1. HistoryTypeOK /\ HistoryTypeOK' /\ [HistoryNext]_history =>
        [\A w \in DOMAIN history \cap DOMAIN history' :
            /\ history[w].pnl > 0
            /\ SubSeq(history, 1, w) = SubSeq(history', 1, w)
            => SizeCap(history') = SizeCap(history)]_history
  <2> SUFFICES ASSUME history \in Histories, history' \in Histories,
                      NEW w \in DOMAIN history \cap DOMAIN history', history[w].pnl > 0,
                      SubSeq(history, 1, w) = SubSeq(history', 1, w)
               PROVE  SizeCap(history') = SizeCap(history)
    BY DEF HistoryTypeOK
  <2>1. w \in (1 .. Len(history)) \cap (1 .. Len(history')) BY HistoryTyped
  <2>2. ASSUME NEW i \in 1 .. w PROVE history[i] = history'[i]
    <3>1. SubSeq(history, 1, w)[i] = history[i] BY <2>1 DEF Histories
    <3>2. SubSeq(history', 1, w)[i] = history'[i] BY <2>1 DEF Histories
    <3> QED BY <3>1, <3>2
  <2> QED BY <2>1, <2>2, CapLooksBackToWin
<1> QED BY <1>1, HistoryTypeCorrect, PTL DEF HistorySpec, OldTradesAreForgotten

-----------------------------------------------------------------------------
(* Closing a trade.                                                          *)

OnTop(c, h) == <<c>> \o h

LEMMA ClosedOnTop ==
  ASSUME NEW h \in Histories, NEW c \in ClosedTrades
  PROVE  /\ OnTop(c, h) \in Histories /\ Len(OnTop(c, h)) = Len(h) + 1 /\ OnTop(c, h)[1] = c
         /\ \A i \in 1 .. Len(h) : OnTop(c, h)[i + 1] = h[i]
         /\ \A i \in 2 .. Len(OnTop(c, h)) : i - 1 \in 1 .. Len(h) /\ OnTop(c, h)[i] = h[i - 1]
<1> DEFINE g == OnTop(c, h)
<1>1. h \in Seq(ClosedTrades) /\ <<c>> \in Seq(ClosedTrades) BY DEF Histories
<1>2. g \in Seq(ClosedTrades) /\ Len(g) = Len(h) + 1 /\ g[1] = c BY <1>1 DEF OnTop
<1>3. \A i \in 2 .. Len(g) : i - 1 \in 1 .. Len(h) /\ g[i] = h[i - 1] BY <1>1, <1>2 DEF OnTop
<1>4. ASSUME NEW i \in 1 .. Len(h) PROVE g[i + 1] = h[i]
  <2>1. i + 1 \in 2 .. Len(g) /\ (i + 1) - 1 = i BY <1>1, <1>2
  <2> QED BY <1>3, <2>1
<1> QED BY <1>2, <1>3, <1>4 DEF Histories

(* The losses further down the record are the ones there were.               *)
LEMMA LossesShift ==
  ASSUME NEW h \in Histories, NEW c \in ClosedTrades
  PROVE  Cardinality(LossesFrom(OnTop(c, h), 2)) = Cardinality(LossesFrom(h, 1))
<1> DEFINE g == OnTop(c, h)
<1> DEFINE S == LossesFrom(h, 1)
           T == LossesFrom(g, 2)
           shift == [j \in S |-> j + 1]
<1>1. /\ g \in Histories /\ Len(g) = Len(h) + 1 /\ Len(h) \in Nat
      /\ \A i \in 1 .. Len(h) : g[i + 1] = h[i]
  BY ClosedOnTop, HistoryTyped
<1>2. ASSUME NEW j \in 1 .. Len(h) PROVE j \in S <=> j + 1 \in T
  <2>1. /\ j + 1 \in 2 .. Len(g) /\ g[j + 1] = h[j]
    BY <1>1
  <2>2. (\A k \in 1 .. j : h[k].pnl <= 0) <=> (\A k \in 2 .. j + 1 : g[k].pnl <= 0)
    <3>1. \A k \in 1 .. j : k + 1 \in 2 .. j + 1 /\ g[k + 1] = h[k] BY <1>1
    <3>2. \A k \in 2 .. j + 1 : k - 1 \in 1 .. j /\ (k - 1) + 1 = k OBVIOUS
    <3> QED BY <3>1, <3>2
  <2> QED BY <2>1, <2>2 DEF LossesFrom
<1>3. S \subseteq 1 .. Len(h) /\ T \subseteq 2 .. Len(g) BY DEF LossesFrom
<1> HIDE DEF S, T
<1>4. \A i \in T : i - 1 \in S /\ (i - 1) + 1 = i
  <2>1. \A i \in T : i - 1 \in 1 .. Len(h) /\ (i - 1) + 1 = i BY <1>1, <1>3
  <2> QED BY <1>2, <2>1
<1>5. shift \in [S -> T] BY <1>2, <1>3
<1>6. \A a, b \in S : shift[a] = shift[b] => a = b BY <1>3
<1>7. \A i \in T : \E j \in S : shift[j] = i BY <1>4
<1> HIDE DEF shift
<1>8. shift \in Bijection(S, T) BY <1>5, <1>6, <1>7, Fun_IsBij
<1>9. ExistsBijection(S, T) BY <1>8 DEF ExistsBijection
<1>10. IsFiniteSet(S) BY LossesAreFinite DEF S
<1> QED BY <1>9, <1>10, FS_Bijection DEF S, T

LEMMA StreakAfterClosing ==
  ASSUME NEW h \in Histories, NEW c \in ClosedTrades
  PROVE  /\ c.pnl > 0 => LossStreak(OnTop(c, h)) = 0
         /\ c.pnl = 0 => LossStreak(OnTop(c, h)) = LossStreak(h)
         /\ c.pnl < 0 => LossStreak(OnTop(c, h)) = LossStreak(h) + 1
<1> DEFINE g == OnTop(c, h)
<1>1. g \in Histories /\ Len(g) = Len(h) + 1 /\ g[1] = c /\ Len(h) \in Nat /\ c.pnl \in Int
  BY ClosedOnTop, HistoryTyped DEF ClosedTrades, Outcomes
<1>2. 1 \in 1 .. Len(g) + 1 /\ ~ 1 > Len(g) /\ 1 + 1 = 2 BY <1>1
<1>3. Cardinality(LossesFrom(g, 1)) =
        IF c.pnl > 0 THEN 0
        ELSE Cardinality(LossesFrom(g, 2)) + (IF c.pnl < 0 THEN 1 ELSE 0)
  BY <1>1, <1>2, LossesRecur
<1>4. /\ LossStreak(g) = Cardinality(LossesFrom(g, 1))
      /\ LossStreak(h) = Cardinality(LossesFrom(h, 1))
      /\ LossStreak(h) \in Nat
  BY <1>1, StreakIsCardinality, LossesAreFinite
<1>5. LossStreak(g) = IF c.pnl > 0 THEN 0 ELSE LossStreak(h) + (IF c.pnl < 0 THEN 1 ELSE 0)
  BY <1>3, <1>4, LossesShift
<1> QED BY <1>1, <1>4, <1>5

(* Below a trade that is no win the newest win is the one it was.            *)
LEMMA BasisAfterClosing ==
  ASSUME NEW h \in Histories, NEW c \in ClosedTrades,
         ~ c.pnl > 0, Wins(h) # {}
  PROVE  Wins(OnTop(c, h)) # {} /\ CapBasis(OnTop(c, h)) = CapBasis(h)
<1> DEFINE g == OnTop(c, h)
<1> DEFINE v == NewestWin(h)
           w == NewestWin(g)
<1>1. /\ g \in Histories /\ Len(g) = Len(h) + 1 /\ g[1] = c
      /\ \A i \in 1 .. Len(h) : g[i + 1] = h[i]
      /\ \A i \in 2 .. Len(g) : i - 1 \in 1 .. Len(h) /\ g[i] = h[i - 1]
  BY ClosedOnTop
<1>2. /\ Len(h) \in Nat /\ DOMAIN h = 1 .. Len(h) /\ DOMAIN g = 1 .. Len(g)
  BY <1>1, HistoryTyped
<1>3. v \in Wins(h) /\ \A j \in Wins(h) : v <= j BY NewestWinIsNewest
<1>4. v + 1 \in Wins(g)
  <2>1. v \in 1 .. Len(h) /\ h[v].pnl > 0 BY <1>2, <1>3 DEF Wins
  <2> HIDE DEF v
  <2>2. v + 1 \in 1 .. Len(g) /\ g[v + 1].pnl > 0 BY <1>1, <1>2, <2>1
  <2> QED BY <1>2, <2>2 DEF Wins
<1>5. w \in Wins(g) /\ \A j \in Wins(g) : w <= j BY <1>1, <1>4, NewestWinIsNewest
<1> HIDE DEF v, w
<1>6. w - 1 \in Wins(h) /\ w \in 2 .. Len(g)
  <2>1. w \in 1 .. Len(g) /\ g[w].pnl > 0 BY <1>2, <1>5 DEF Wins
  <2>2. w # 1 BY <1>1, <2>1
  <2>3. w \in 2 .. Len(g) BY <1>1, <1>2, <2>1, <2>2
  <2> QED BY <1>1, <1>2, <2>1, <2>3 DEF Wins
<1>7. w = v + 1
  <2>1. w <= v + 1 /\ v <= w - 1 BY <1>3, <1>4, <1>5, <1>6
  <2>2. v \in Int /\ w \in Int BY <1>2, <1>3, <1>6 DEF Wins
  <2> QED BY <2>1, <2>2
<1>8. g[w] = h[v] BY <1>1, <1>2, <1>3, <1>7 DEF Wins
<1>9. CapBasis(h) = 5 * h[v].size /\ CapBasis(g) = 5 * g[w].size
  BY <1>1, <1>4, BasisAfterWin DEF v, w
<1> QED BY <1>4, <1>8, <1>9

(* What /closed does to the record is one more trade on top of it.           *)
LEMMA CloseIsOnTop ==
  ASSUME HistoryTypeOK, NEW size \in Sizes, NEW pnl \in Outcomes, Close(size, pnl)
  PROVE  /\ history \in Histories
         /\ \E c \in ClosedTrades : c.pnl = pnl /\ history' = OnTop(c, history)
<1>1. [size |-> size, pnl |-> pnl] \in ClosedTrades BY HistoryAssumption DEF ClosedTrades
<1> QED BY <1>1 DEF Close, HistoryTypeOK, OnTop

(* The streak moves by what the closed trade has come to.                    *)
THEOREM StreakFollowsOutcomes == HistorySpec => ClosingMovesTheStreak
<1> DEFINE P == \A size \in Sizes, pnl \in Outcomes :
                  Close(size, pnl) =>
                     /\ pnl > 0 => LossStreak(history') = 0
                     /\ pnl = 0 => LossStreak(history') = LossStreak(history)
                     /\ pnl < 0 => LossStreak(history') = LossStreak(history) + 1
<1>1. ASSUME HistoryTypeOK PROVE P BY <1>1, CloseIsOnTop, StreakAfterClosing
<1> HIDE DEF P
<1>2. HistorySpec => [][P]_history BY <1>1, HistoryTypeCorrect, PTL DEF HistorySpec
<1> QED BY <1>2 DEF ClosingMovesTheStreak, P

(* Once it rests on a win, a cap changes only by being lifted.               *)
THEOREM StandingCapsAreSteady == HistorySpec => StandingCapIsSteady
<1> DEFINE P == \A size \in Sizes, pnl \in Outcomes :
                  Close(size, pnl) /\ SizeCap(history) # NoCap /\ Wins(history) # {} =>
                     SizeCap(history') = IF pnl > 0 THEN NoCap ELSE SizeCap(history)
<1>1. ASSUME HistoryTypeOK PROVE P
  <2> SUFFICES ASSUME NEW size \in Sizes, NEW pnl \in Outcomes, Close(size, pnl),
                      SizeCap(history) # NoCap, Wins(history) # {}
               PROVE  SizeCap(history') = IF pnl > 0 THEN NoCap ELSE SizeCap(history)
    OBVIOUS
  <2>1. history \in Histories BY <1>1, CloseIsOnTop
  <2>2. PICK c \in ClosedTrades : c.pnl = pnl /\ history' = OnTop(c, history) BY <1>1, CloseIsOnTop
  <2>3. history' \in Histories BY <2>1, <2>2, ClosedOnTop
  <2>4. ~ LossStreak(history) < Threshold /\ Threshold \in Nat \ {0}
    BY <2>1, CapIsPositive, SizingAssumption
  <2>5. CASE pnl > 0
    <3>1. LossStreak(history') = 0 BY <2>1, <2>2, <2>5, StreakAfterClosing
    <3> QED BY <2>3, <2>4, <2>5, <3>1, CapIsPositive
  <2>6. CASE ~ pnl > 0
    <3>1. LossStreak(history) \in Nat BY <2>1, StreakIsCardinality, LossesAreFinite
    <3>2. LossStreak(history') \in {LossStreak(history), LossStreak(history) + 1}
      BY <2>1, <2>2, <2>6, StreakAfterClosing DEF Outcomes
    <3>3. ~ LossStreak(history') < Threshold BY <2>4, <3>1, <3>2
    <3>4. CapBasis(history') = CapBasis(history) BY <2>1, <2>2, <2>6, BasisAfterClosing
    <3> QED BY <2>4, <2>6, <3>3, <3>4 DEF SizeCap
  <2> QED BY <2>5, <2>6
<1> HIDE DEF P
<1>2. HistorySpec => [][P]_history BY <1>1, HistoryTypeCorrect, PTL DEF HistorySpec
<1> QED BY <1>2 DEF StandingCapIsSteady, P
=============================================================================
