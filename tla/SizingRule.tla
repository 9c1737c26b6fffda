------------------------------ MODULE SizingRule ------------------------------
(***************************************************************************)
(* The consecutive-loss sizing rule (src/rules/sizing.py): a pure function *)
(* of the closed trades of one symbol, newest first.  Each is a record     *)
(* with the size of the trade and its realized P&L, of which only the sign *)
(* counts: -1 a loss, 0 break-even, 1 a win.                               *)
(*                                                                         *)
(* The reduction factor is FactorNum / FactorDen.  Caps are counted in     *)
(* units of 1 / CapUnit of a size, so that a fraction of an average of     *)
(* five stays an integer.                                                  *)
(***************************************************************************)
EXTENDS Integers, Sequences

CONSTANTS Threshold, FactorNum, FactorDen

(* compute_size_cap refuses other settings (sizing.py:22-27).                *)
ASSUME SizingAssumption ==
    /\ Threshold \in Nat \ {0}
    /\ FactorDen \in Nat \ {0}
    /\ FactorNum \in 1 .. FactorDen

Outcomes == {-1, 0, 1}

CapUnit == 5 * FactorDen

NoCap == 0

(* Faulty: a break-even trade ends the streak.                               *)
LossStreakToBreakEven(trades) ==
    LET streakFrom[i \in 1 .. Len(trades) + 1] ==
            IF i > Len(trades) \/ trades[i].pnl >= 0 THEN 0 ELSE streakFrom[i + 1] + 1
    IN streakFrom[1]

(* _consecutive_loss_count: losses are counted up to the newest win;         *)
(* break-even trades are passed over.                                        *)
LossStreak(trades) ==
    LET streakFrom[i \in 1 .. Len(trades) + 1] ==
            IF i > Len(trades) \/ trades[i].pnl > 0
            THEN 0
            ELSE streakFrom[i + 1] + (IF trades[i].pnl < 0 THEN 1 ELSE 0)
    IN streakFrom[1]

Wins(trades) == {i \in DOMAIN trades : trades[i].pnl > 0}

NewestWin(trades) == CHOOSE i \in Wins(trades) : \A j \in Wins(trades) : i <= j

LargestSize(trades) ==
    CHOOSE s \in {trades[i].size : i \in DOMAIN trades} :
        \A i \in DOMAIN trades : trades[i].size <= s

LastFiveTotal(trades) ==
    trades[1].size + trades[2].size + trades[3].size + trades[4].size + trades[5].size

Smaller(a, b) == IF a <= b THEN a ELSE b

(* Faulty: five trades are still treated as too few.                         *)
CapBasisAfterSix(trades) ==
    CASE Wins(trades) # {} -> 5 * trades[NewestWin(trades)].size
      [] Wins(trades) = {} /\ Len(trades) <= 5 -> 5 * LargestSize(trades)
      [] OTHER -> Smaller(LastFiveTotal(trades), 5 * LargestSize(trades))

(* Faulty: the largest win, not the newest one.                              *)
CapBasisOfLargestWin(trades) ==
    IF Wins(trades) # {}
    THEN 5 * LargestSize([i \in Wins(trades) |-> trades[i]])
    ELSE 5 * LargestSize(trades)

(* What the cap is a fraction of, five times over: the size of the newest    *)
(* win; without any win the largest size, or from five trades on the average *)
(* of the newest five if that is smaller.                                    *)
CapBasis(trades) ==
    CASE Wins(trades) # {} -> 5 * trades[NewestWin(trades)].size
      [] Wins(trades) = {} /\ Len(trades) < 5 -> 5 * LargestSize(trades)
      [] OTHER -> Smaller(LastFiveTotal(trades), 5 * LargestSize(trades))

(* Faulty: the factor is forgotten.                                          *)
FullSizeCap(trades) ==
    IF LossStreak(trades) < Threshold THEN NoCap ELSE FactorDen * CapBasis(trades)

(* compute_size_cap.                                                         *)
SizeCap(trades) ==
    IF LossStreak(trades) < Threshold THEN NoCap ELSE FactorNum * CapBasis(trades)

WithinCap(size, cap) == cap = NoCap \/ size * CapUnit <= cap
=============================================================================
