----------------------------- MODULE SizingHistory -----------------------------
(***************************************************************************)
(* Every history of one symbol that closing, /setpnl and /edit_closed can  *)
(* make, to check the sizing rule of SizingRule against requirement        *)
(* REQ-003 of src/dev-docs/phase-1/requirements.md.                        *)
(***************************************************************************)
EXTENDS SizingRule, FiniteSets

CONSTANTS Sizes, MaxTrades

ASSUME HistoryAssumption == Sizes \subseteq Nat \ {0} /\ MaxTrades \in Nat

VARIABLE history    \* the symbol's closed trades, newest first

HistoryInit == history = <<>>

(* /closed: the trade becomes the newest one.                                *)
Close(size, pnl) ==
    /\ Len(history) < MaxTrades
    /\ history' = <<[size |-> size, pnl |-> pnl]>> \o history

(* /setpnl.                                                                  *)
SetPnl(i, pnl) ==
    history' = [history EXCEPT ![i].pnl = pnl]

(* A confirmed /edit_closed: of the figures, or of closed_at, which lets the *)
(* trade and the next older one change places.                               *)
EditFigures(i, size, pnl) ==
    history' = [history EXCEPT ![i] = [size |-> size, pnl |-> pnl]]

EditClosedAt(i) ==
    /\ i < Len(history)
    /\ history' = [history EXCEPT ![i] = history[i + 1], ![i + 1] = history[i]]

HistoryNext ==
    \/ \E size \in Sizes, pnl \in Outcomes : Close(size, pnl)
    \/ \E i \in DOMAIN history :
       \/ \E pnl \in Outcomes : SetPnl(i, pnl)
       \/ \E size \in Sizes, pnl \in Outcomes : EditFigures(i, size, pnl)
       \/ EditClosedAt(i)

HistorySpec == HistoryInit /\ [][HistoryNext]_history

-----------------------------------------------------------------------------
(* Correctness.                                                              *)

(* The streak of REQ-003: the losses with no win after them (requirements    *)
(* 102, 109).                                                                *)
RequiredStreak ==
    Cardinality({i \in DOMAIN history :
        /\ history[i].pnl < 0
        /\ \A j \in 1 .. i : history[j].pnl <= 0})

(* compute_size_cap is the cap of REQ-003: none below the threshold; a       *)
(* fraction of the most recent winning trade; with no winner the same        *)
(* fraction of the average of the last five trades or of the largest size,   *)
(* whichever is smaller, and of the largest size with fewer than five.       *)
CapIsAsRequired ==
    LET cap == SizeCap(history)
        Cap(size) == 5 * FactorNum * size
        sizes == {history[i].size : i \in DOMAIN history}
    IN  /\ RequiredStreak < Threshold <=> cap = NoCap
        /\ cap # NoCap =>
           \/ \E w \in DOMAIN history :
              /\ history[w].pnl > 0
              /\ \A j \in 1 .. w - 1 : history[j].pnl <= 0
              /\ cap = Cap(history[w].size)
           \/ /\ \A i \in DOMAIN history : history[i].pnl <= 0
              /\ \A i \in DOMAIN history : Len(history) < 5 => cap >= Cap(history[i].size)
              /\ Len(history) < 5 => \E s \in sizes : cap = Cap(s)
              /\ Len(history) >= 5 =>
                 5 * cap = Cap(history[1].size) + Cap(history[2].size) + Cap(history[3].size)
                         + Cap(history[4].size) + Cap(history[5].size)

(* A reduction reduces: while a cap below 100% is in force, some size the    *)
(* trader has used on this symbol before is now refused.                     *)
CapBites ==
    SizeCap(history) # NoCap /\ FactorNum < FactorDen =>
        \E i \in DOMAIN history : ~ WithinCap(history[i].size, SizeCap(history))

(* What is older than the newest win does not count: no correction of it,    *)
(* by /setpnl or /edit_closed, moves the cap.                                *)
OldTradesAreForgotten ==
    [][\A w \in DOMAIN history \cap DOMAIN history' :
          /\ history[w].pnl > 0
          /\ SubSeq(history, 1, w) = SubSeq(history', 1, w)
          => SizeCap(history') = SizeCap(history)]_history

(* A loss lengthens the streak by one, a win ends it, and a break-even trade *)
(* neither resets nor increments it (the edge cases of REQ-003).             *)
ClosingMovesTheStreak ==
    [][\A size \in Sizes, pnl \in Outcomes :
          Close(size, pnl) =>
             /\ pnl > 0 => LossStreak(history') = 0
             /\ pnl = 0 => LossStreak(history') = LossStreak(history)
             /\ pnl < 0 => LossStreak(history') = LossStreak(history) + 1]_history

(* A cap that rests on a win holds as it is until the next win, which lifts  *)
(* it: to go on losing, at whatever sizes, neither loosens nor tightens it.  *)
StandingCapIsSteady ==
    [][\A size \in Sizes, pnl \in Outcomes :
          Close(size, pnl) /\ SizeCap(history) # NoCap /\ Wins(history) # {} =>
             SizeCap(history') = IF pnl > 0 THEN NoCap ELSE SizeCap(history)]_history
=============================================================================
