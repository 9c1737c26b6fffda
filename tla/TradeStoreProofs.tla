-------------------------- MODULE TradeStoreProofs --------------------------
(***************************************************************************)
(* TLAPS proofs about TradeStore, for any number of trades and breaches.   *)
(***************************************************************************)
EXTENDS TradeStore, TLAPS

USE BoundsAssumption DEF BoundsAssumption

(* Type correctness is preserved by every step.                            *)
LEMMA TypeStep == StoreInvariant /\ [Next]_vars => TypeOK'
<1> SUFFICES ASSUME TypeOK, IdsAreFresh, HandlerReadsHold, [Next]_vars PROVE TypeOK'
  BY DEF StoreInvariant
<1> USE DEF TypeOK, Trades, Breaches, MaybeTrade, MaybeBreach, None, Statuses,
            OpenStatuses, Responses, IdleHandler, IdleMonitor, MonitorMovesOn,
            TouchWatched, Answer, tradeVars, breachVars, seqVars
<1>1. CASE NewTradeId
  <2>1. tradeSeq + 1 \in Trades BY <1>1 DEF NewTradeId
  <2>2. tradeSeq' \in 0 .. MaxTrades BY <1>1 DEF NewTradeId
  <2> QED BY <1>1, <2>1, <2>2 DEF NewTradeId
<1>2. CASE CommitTrade BY <1>2 DEF CommitTrade, IdsAreFresh
<1>3. ASSUME NEW t \in Trades, CloseLookup(t) PROVE TypeOK' BY <1>3 DEF CloseLookup
<1>4. CASE CloseCheck BY <1>4 DEF CloseCheck
<1>5. CASE CloseScript
  <2> handler.trade \in Trades BY <1>5 DEF CloseScript, HandlerReadsHold
  <2>1. /\ status' \in [Trades -> Statuses \cup {"missing"}]
        /\ statusSet' \in [Statuses -> SUBSET Trades]
        /\ closedTrades' \in SUBSET Trades
    BY <1>5 DEF CloseScript
  <2>2. CASE handler.breach = None BY <1>5, <2>1, <2>2 DEF CloseScript
  <2>3. CASE handler.breach # None
    <3>1. /\ handler.breach \in Breaches /\ IdleHandler = handler'
          /\ Answer(handler.trade, handler.breach, "closed")
          /\ TouchWatched(handler.trade)
          /\ UNCHANGED <<allTrades, seqVars, openAtPoll>>
      BY <1>5, <2>3 DEF CloseScript
    <3> QED BY <2>1, <3>1
  <2> QED BY <2>2, <2>3
<1>6. CASE CloseScriptRefuses BY <1>6 DEF CloseScriptRefuses
<1>7. CASE CloseRetry BY <1>7 DEF CloseRetry, HandlerReadsHold
<1>8. ASSUME NEW t \in Trades, JustifyLookup(t) PROVE TypeOK' BY <1>8 DEF JustifyLookup
<1>9. CASE JustifyScript BY <1>9 DEF JustifyScript, OverrideAgrees, HandlerReadsHold
<1>10. ASSUME NEW t \in Trades, EditTrade(t) PROVE TypeOK' BY <1>10 DEF EditTrade
<1>11. CASE HandlerReplies BY <1>11 DEF HandlerReplies
<1>12. CASE HandlerFails BY <1>12 DEF HandlerFails
<1>13. CASE ReadOpenSet BY <1>13 DEF ReadOpenSet
<1>14. CASE ReadOverrideSet BY <1>14 DEF ReadOverrideSet
<1>15. ASSUME NEW t \in Trades, SkipTrade(t) PROVE TypeOK' BY <1>15 DEF SkipTrade
<1>16. ASSUME NEW t \in Trades, NewBreachId(t) PROVE TypeOK'
  <2>1. breachSeq + 1 \in Breaches BY <1>16 DEF NewBreachId
  <2>2. breachSeq' \in 0 .. MaxBreaches BY <1>16 DEF NewBreachId
  <2> QED BY <1>16, <2>1, <2>2 DEF NewBreachId
<1>17. CASE WatchTrade BY <1>17 DEF WatchTrade
<1>18. CASE CommitBreach BY <1>18 DEF CommitBreach, StoreBreach, IdsAreFresh
<1>19. CASE RetryBreach BY <1>19 DEF RetryBreach
<1>20. CASE FinishTick BY <1>20 DEF FinishTick
<1>21. CASE MonitorTickFails BY <1>21 DEF MonitorTickFails
<1>22. CASE Crash BY <1>22 DEF Crash
<1>23. CASE UNCHANGED vars BY <1>23 DEF vars
<1> QED
  BY <1>1, <1>2, <1>3, <1>4, <1>5, <1>6, <1>7, <1>8, <1>9, <1>10, <1>11, <1>12,
     <1>13, <1>14, <1>15, <1>16, <1>17, <1>18, <1>19, <1>20, <1>21, <1>22, <1>23
  DEF Next, HandlerNext, MonitorNext

(* Which steps write the trade keys and which the breach keys.             *)
LEMMA TradeWriters ==
  [Next]_vars => \/ CommitTrade \/ CloseScript \/ JustifyScript
                 \/ UNCHANGED tradeVars
<1> SUFFICES ASSUME [Next]_vars, ~ CommitTrade, ~ CloseScript, ~ JustifyScript
             PROVE UNCHANGED tradeVars
  OBVIOUS
<1>1. CASE HandlerNext
  BY <1>1 DEF HandlerNext, NewTradeId, CloseLookup, JustifyLookup, EditTrade, CloseCheck,
     CloseScriptRefuses, CloseRetry, HandlerReplies, HandlerFails
<1>2. CASE MonitorNext
  BY <1>2 DEF MonitorNext, ReadOpenSet, ReadOverrideSet, SkipTrade, NewBreachId, WatchTrade,
     CommitBreach, RetryBreach, FinishTick, MonitorTickFails
<1> QED BY <1>1, <1>2 DEF Next, Crash, vars

LEMMA BreachWriters ==
  [Next]_vars => \/ CommitBreach \/ CloseScript \/ JustifyScript
                 \/ UNCHANGED breachVars
<1> SUFFICES ASSUME [Next]_vars, ~ CommitBreach, ~ CloseScript, ~ JustifyScript
             PROVE UNCHANGED breachVars
  OBVIOUS
<1>1. CASE HandlerNext
  BY <1>1 DEF HandlerNext, NewTradeId, CommitTrade, CloseLookup, JustifyLookup, EditTrade,
     CloseCheck, CloseScriptRefuses, CloseRetry, HandlerReplies,
     HandlerFails
<1>2. CASE MonitorNext
  BY <1>2 DEF MonitorNext, ReadOpenSet, ReadOverrideSet, SkipTrade, NewBreachId, WatchTrade,
     RetryBreach, FinishTick, MonitorTickFails
<1> QED BY <1>1, <1>2 DEF Next, Crash, vars

(* The five trade keys stay in step.                                       *)
LEMMA TradeIndexesStep == StoreInvariant /\ [Next]_vars => TradeIndexesAgree'
<1> SUFFICES ASSUME TypeOK, TradeIndexesAgree, IdsAreFresh, HandlerReadsHold, [Next]_vars
             PROVE TradeIndexesAgree'
  BY DEF StoreInvariant
<1> USE DEF TypeOK, TradeIndexesAgree, Statuses, OpenStatuses, IsOpen
<1>1. CASE CommitTrade
  <2>1. handler.trade \in Trades /\ status[handler.trade] = "missing"
    BY <1>1 DEF CommitTrade, IdsAreFresh
  <2> QED BY <1>1, <2>1 DEF CommitTrade
<1>2. CASE CloseScript
  <2>1. handler.trade \in Trades BY <1>2 DEF CloseScript, HandlerReadsHold
  <2> QED BY <1>2, <2>1 DEF CloseScript
<1>3. CASE JustifyScript
  <2>1. handler.trade \in Trades /\ IsOpen(handler.trade)
    BY <1>3 DEF JustifyScript, OverrideAgrees, HandlerReadsHold, MaybeTrade
  <2> QED BY <1>3, <2>1 DEF JustifyScript
<1>4. CASE UNCHANGED tradeVars BY <1>4 DEF tradeVars
<1> QED BY <1>1, <1>2, <1>3, <1>4, TradeWriters

(* Answering the active breach of a trade keeps the breach keys in step,   *)
(* as long as every other open trade stays open.                           *)
LEMMA AnswerKeepsIndexes ==
  ASSUME TypeOK, BreachIndexesAgree, ActiveIsPending,
         NEW t \in Trades, NEW b \in Breaches, NEW reply \in {"closed", "justified"},
         active[t] = b, Answer(t, b, reply),
         \A u \in Trades \ {t} : IsOpen(u) => IsOpen(u)'
  PROVE  BreachIndexesAgree' /\ ActiveIsPending'
<1> USE DEF TypeOK, Answer
<1>1. response[b] = "none" /\ breachTrade[b] = t /\ b # None
  BY DEF ActiveIsPending, Breaches, None
<1>2. \A u \in Trades \ {t} : active[u] # b
  BY <1>1 DEF ActiveIsPending
<1>3. /\ active'[t] = None
      /\ response'[b] = reply
      /\ \A u \in Trades \ {t} : active'[u] = active[u]
      /\ \A c \in Breaches \ {b} : response'[c] = response[c]
      /\ breachTrade' = breachTrade /\ breachesOf' = breachesOf
  OBVIOUS
<1>4. unresolved' = {c \in Breaches : response'[c] = "none"}
  BY <1>3 DEF BreachIndexesAgree
<1>5. \A u \in Trades :
         breachesOf'[u] = {c \in Breaches : response'[c] # "missing" /\ breachTrade'[c] = u}
  BY <1>1, <1>3 DEF BreachIndexesAgree
<1>6. \A c \in Breaches :
         response'[c] = "none" <=> \E u \in Trades : active'[u] = c /\ breachTrade'[c] = u
  <2>1. ASSUME NEW c \in Breaches \ {b}
        PROVE response'[c] = "none" <=> \E u \in Trades : active'[u] = c /\ breachTrade'[c] = u
    <3>1. c # None BY DEF Breaches, None
    <3>2. \A u \in Trades : active'[u] = c <=> active[u] = c
      BY <1>3, <3>1
    <3> QED BY <1>3, <3>2 DEF BreachIndexesAgree
  <2>2. response'[b] # "none" /\ \A u \in Trades : active'[u] # b
    BY <1>1, <1>2, <1>3
  <2> QED BY <2>1, <2>2
<1>7. ActiveIsPending'
  BY <1>2, <1>3 DEF ActiveIsPending, MaybeBreach
<1> QED BY <1>4, <1>5, <1>6, <1>7 DEF BreachIndexesAgree

(* The breach hash and the three breach indexes stay in step.              *)
LEMMA BreachIndexesStep ==
  StoreInvariant /\ [Next]_vars => BreachIndexesAgree' /\ ActiveIsPending'
<1> SUFFICES ASSUME TypeOK, BreachIndexesAgree, ActiveIsPending, IdsAreFresh, WatchIsCurrent,
                    HandlerReadsHold, [Next]_vars
             PROVE BreachIndexesAgree' /\ ActiveIsPending'
  BY DEF StoreInvariant
<1> USE DEF TypeOK, BreachIndexesAgree, ActiveIsPending, OpenStatuses, IsOpen, Responses,
            MaybeBreach, None
<1>1. CASE CommitBreach
  <2>1. /\ monitor.trade \in Trades
        /\ monitor.breach \in Breaches
        /\ response[monitor.breach] = "missing"
        /\ IsOpen(monitor.trade)
        /\ active[monitor.trade] = None
    BY <1>1 DEF CommitBreach, StoreBreach, IdsAreFresh, WatchIsCurrent
  <2>2. status' = status BY <1>1 DEF CommitBreach, StoreBreach, tradeVars
  <2> QED BY <1>1, <2>1, <2>2 DEF CommitBreach, StoreBreach, Breaches
<1>2. CASE CloseScript
  <2>1. handler.trade \in Trades BY <1>2 DEF CloseScript, HandlerReadsHold
  <2>2. CASE handler.breach = None
    BY <1>2, <2>1, <2>2 DEF CloseScript, CloseAgrees, breachVars
  <2>3. CASE handler.breach # None
    <3>1. /\ handler.breach \in Breaches
          /\ active[handler.trade] = handler.breach
          /\ Answer(handler.trade, handler.breach, "closed")
      BY <1>2, <2>1, <2>3 DEF CloseScript, CloseAgrees
    <3>2. \A u \in Trades \ {handler.trade} : IsOpen(u) => IsOpen(u)'
      BY <1>2, <2>1 DEF CloseScript
    <3> QED BY <2>1, <3>1, <3>2, AnswerKeepsIndexes
  <2> QED BY <2>2, <2>3
<1>3. CASE JustifyScript
  <2>1. handler.trade \in Trades BY <1>3 DEF JustifyScript, OverrideAgrees, HandlerReadsHold
  <2>2. /\ handler.breach \in Breaches
        /\ active[handler.trade] = handler.breach
        /\ Answer(handler.trade, handler.breach, "justified")
    BY <1>3, <2>1 DEF JustifyScript, OverrideAgrees, HandlerReadsHold
  <2>3. \A u \in Trades \ {handler.trade} : IsOpen(u) => IsOpen(u)'
    BY <1>3, <2>1 DEF JustifyScript
  <2> QED BY <2>1, <2>2, <2>3, AnswerKeepsIndexes
<1>4. CASE UNCHANGED breachVars
  <2>1. \A t \in Trades : IsOpen(t) /\ active[t] # None => IsOpen(t)'
    <3>1. CASE CommitTrade BY <3>1 DEF CommitTrade, IdsAreFresh
    <3>2. CASE CloseScript
      BY <3>2, <1>4 DEF CloseScript, CloseAgrees, Answer, breachVars, HandlerReadsHold
    <3>3. CASE JustifyScript
      BY <3>3, <1>4 DEF JustifyScript, OverrideAgrees, Answer, breachVars, HandlerReadsHold
    <3>4. CASE UNCHANGED tradeVars BY <3>4 DEF tradeVars
    <3> QED BY <3>1, <3>2, <3>3, <3>4, TradeWriters
  <2> QED BY <1>4, <2>1 DEF breachVars
<1> QED BY <1>1, <1>2, <1>3, <1>4, BreachWriters

(* No id is used before it is handed out, and none is used twice.          *)
LEMMA IdsStep == StoreInvariant /\ [Next]_vars => IdsAreFresh'
<1> SUFFICES ASSUME TypeOK, IdsAreFresh, HandlerReadsHold, [Next]_vars
             PROVE IdsAreFresh'
  BY DEF StoreInvariant
<1> USE DEF TypeOK, IdsAreFresh, IdleHandler, IdleMonitor, MonitorMovesOn, TouchWatched,
            tradeVars, breachVars, seqVars
<1>1. CASE NewTradeId
  <2>1. tradeSeq + 1 \in Trades BY <1>1 DEF NewTradeId, Trades
  <2>2. \A t \in Trades : t <= tradeSeq => t <= tradeSeq + 1 BY DEF Trades
  <2>3. status[tradeSeq + 1] = "missing" BY <2>1
  <2> QED BY <1>1, <2>1, <2>2, <2>3 DEF NewTradeId
<1>2. CASE CommitTrade BY <1>2 DEF CommitTrade
<1>3. ASSUME NEW t \in Trades, CloseLookup(t) \/ JustifyLookup(t) \/ EditTrade(t)
      PROVE IdsAreFresh'
  <2>1. UNCHANGED <<tradeVars, breachVars, seqVars>>
    BY <1>3 DEF CloseLookup, JustifyLookup, EditTrade
  <2>2. handler'.pc # "creating"
    BY <1>3 DEF CloseLookup, JustifyLookup, EditTrade
  <2>3. \/ monitor' = monitor
        \/ monitor' = [monitor EXCEPT !.watch = "touched"]
    BY <1>3 DEF CloseLookup, JustifyLookup, EditTrade
  <2> QED BY <2>1, <2>2, <2>3
<1>4. CASE CloseCheck \/ CloseScriptRefuses \/ CloseRetry
           \/ HandlerReplies \/ HandlerFails
  <2>1. UNCHANGED <<tradeVars, breachVars, seqVars, monitor>> /\ handler'.pc # "creating"
    <3>1. CASE CloseCheck BY <3>1 DEF CloseCheck
    <3>2. CASE CloseScriptRefuses BY <3>2 DEF CloseScriptRefuses
    <3>3. CASE CloseRetry BY <3>3 DEF CloseRetry
    <3>4. CASE HandlerReplies BY <3>4 DEF HandlerReplies
    <3>5. CASE HandlerFails BY <3>5 DEF HandlerFails
    <3> QED BY <1>4, <3>1, <3>2, <3>3, <3>4, <3>5
  <2> QED BY <2>1
<1>5. CASE CloseScript
  <2>1. \A t \in Trades : status'[t] # "missing" => status[t] # "missing"
    BY <1>5 DEF CloseScript, IsOpen, OpenStatuses
  <2>2. \A b \in Breaches : response'[b] = response[b] \/ response[b] = "none"
    BY <1>5 DEF CloseScript, CloseAgrees, Answer
  <2> QED BY <1>5, <2>1, <2>2 DEF CloseScript
<1>6. CASE JustifyScript
  <2>1. \A t \in Trades : status'[t] # "missing" => status[t] # "missing"
    BY <1>6 DEF JustifyScript, OverrideAgrees, IsOpen, OpenStatuses
  <2>2. \A b \in Breaches : response'[b] = response[b] \/ response[b] = "none"
    BY <1>6 DEF JustifyScript, OverrideAgrees, Answer
  <2> QED BY <1>6, <2>1, <2>2 DEF JustifyScript
<1>7. CASE ReadOpenSet \/ ReadOverrideSet \/ RetryBreach \/ FinishTick \/ MonitorTickFails
  <2>1. UNCHANGED <<tradeVars, breachVars, seqVars, handler>>
    BY <1>7 DEF ReadOpenSet, ReadOverrideSet, RetryBreach, FinishTick, MonitorTickFails
  <2>2. \/ monitor'.pc \in {"idle", "overrides", "trades"}
        \/ monitor.pc = "watching" /\ monitor' = [monitor EXCEPT !.pc = "allocated"]
    <3>1. CASE ReadOpenSet BY <3>1 DEF ReadOpenSet
    <3>2. CASE ReadOverrideSet BY <3>2 DEF ReadOverrideSet
    <3>3. CASE RetryBreach BY <3>3 DEF RetryBreach
    <3>4. CASE FinishTick BY <3>4 DEF FinishTick
    <3>5. CASE MonitorTickFails BY <3>5 DEF MonitorTickFails
    <3> QED BY <1>7, <3>1, <3>2, <3>3, <3>4, <3>5
  <2> QED BY <2>1, <2>2
<1>8. CASE WatchTrade BY <1>8 DEF WatchTrade
<1>9. ASSUME NEW t \in Trades, SkipTrade(t) PROVE IdsAreFresh'
  BY <1>9 DEF SkipTrade
<1>10. ASSUME NEW t \in Trades, NewBreachId(t) PROVE IdsAreFresh'
  <2>1. breachSeq + 1 \in Breaches BY <1>10 DEF NewBreachId, Breaches
  <2>2. \A b \in Breaches : b <= breachSeq => b <= breachSeq + 1 BY DEF Breaches
  <2>3. response[breachSeq + 1] = "missing" BY <2>1
  <2> QED BY <1>10, <2>1, <2>2, <2>3 DEF NewBreachId
<1>11. CASE CommitBreach BY <1>11 DEF CommitBreach, StoreBreach
<1>12. CASE Crash \/ UNCHANGED vars BY <1>12 DEF Crash, vars
<1> QED
  BY <1>1, <1>2, <1>3, <1>4, <1>5, <1>6, <1>7, <1>8, <1>9, <1>10, <1>11, <1>12
  DEF Next, HandlerNext, MonitorNext

(* Whoever writes a trade the monitor watches makes its EXEC fail.         *)
LEMMA WatchStep == StoreInvariant /\ [Next]_vars => WatchIsCurrent'
<1> SUFFICES ASSUME TypeOK, IdsAreFresh, WatchIsCurrent, HandlerReadsHold, [Next]_vars
             PROVE WatchIsCurrent'
  BY DEF StoreInvariant
<1> USE DEF TypeOK, WatchIsCurrent, IsOpen, OpenStatuses, tradeVars, breachVars
<1>1. CASE CommitTrade
  BY <1>1 DEF CommitTrade, IdsAreFresh, TouchWatched
<1>2. CASE CloseScript
  <2>1. handler.trade \in Trades BY <1>2 DEF CloseScript, HandlerReadsHold
  <2>2. monitor'.pc = "watching" /\ monitor'.watch = "clean"
          => monitor' = monitor /\ monitor.trade # handler.trade
    BY <1>2 DEF CloseScript, TouchWatched
  <2>3. \A t \in Trades \ {handler.trade} : status'[t] = status[t] /\ active'[t] = active[t]
    BY <1>2, <2>1 DEF CloseScript, Answer
  <2> QED BY <2>2, <2>3 DEF IdsAreFresh
<1>3. CASE JustifyScript
  <2>1. handler.trade \in Trades BY <1>3 DEF JustifyScript, OverrideAgrees, HandlerReadsHold
  <2>2. monitor'.pc = "watching" /\ monitor'.watch = "clean"
          => monitor' = monitor /\ monitor.trade # handler.trade
    BY <1>3 DEF JustifyScript, OverrideAgrees, TouchWatched
  <2>3. \A t \in Trades \ {handler.trade} : status'[t] = status[t] /\ active'[t] = active[t]
    BY <1>3, <2>1 DEF JustifyScript, OverrideAgrees, Answer
  <2> QED BY <2>2, <2>3 DEF IdsAreFresh
<1>4. ASSUME NEW t \in Trades, CloseLookup(t) \/ JustifyLookup(t) \/ EditTrade(t)
      PROVE WatchIsCurrent'
  BY <1>4 DEF CloseLookup, JustifyLookup, EditTrade, TouchWatched
<1>5. CASE NewTradeId \/ CloseCheck \/ CloseScriptRefuses \/ CloseRetry
           \/ HandlerReplies \/ HandlerFails
  BY <1>5 DEF NewTradeId, CloseCheck, CloseScriptRefuses, CloseRetry,
              HandlerReplies, HandlerFails
<1>6. CASE WatchTrade BY <1>6 DEF WatchTrade, MonitorMovesOn
<1>7. CASE ReadOpenSet \/ ReadOverrideSet \/ CommitBreach \/ RetryBreach \/ FinishTick
           \/ MonitorTickFails
  <2>1. monitor'.pc # "watching"
    <3>1. CASE ReadOpenSet BY <3>1 DEF ReadOpenSet, IdleMonitor
    <3>2. CASE ReadOverrideSet BY <3>2 DEF ReadOverrideSet
    <3>3. CASE CommitBreach BY <3>3 DEF CommitBreach, StoreBreach, MonitorMovesOn
    <3>4. CASE RetryBreach BY <3>4 DEF RetryBreach
    <3>5. CASE FinishTick BY <3>5 DEF FinishTick, IdleMonitor
    <3>6. CASE MonitorTickFails BY <3>6 DEF MonitorTickFails, IdleMonitor
    <3> QED BY <1>7, <3>1, <3>2, <3>3, <3>4, <3>5, <3>6
  <2> QED BY <2>1
<1>8. ASSUME NEW t \in Trades, SkipTrade(t) \/ NewBreachId(t) PROVE WatchIsCurrent'
  BY <1>8 DEF SkipTrade, NewBreachId
<1>9. CASE Crash \/ UNCHANGED vars BY <1>9 DEF Crash, IdleMonitor, vars
<1> QED
  BY <1>1, <1>2, <1>3, <1>4, <1>5, <1>6, <1>7, <1>8, <1>9 DEF Next, HandlerNext, MonitorNext

(* What the handler has read still holds when it acts on it, and it refuses *)
(* a command only when the trade is no longer open.                        *)
LEMMA HandlerStep ==
  StoreInvariant /\ [Next]_vars => HandlerReadsHold' /\ RefusalIsTruthful'
<1> SUFFICES ASSUME TypeOK, ActiveIsPending, IdsAreFresh, WatchIsCurrent, HandlerReadsHold,
                    RefusalIsTruthful, [Next]_vars
             PROVE HandlerReadsHold' /\ RefusalIsTruthful'
  BY DEF StoreInvariant
<1> USE DEF HandlerReadsHold, RefusalIsTruthful, IsOpen, OpenStatuses
<1>1. CASE handler'.pc = "idle" \/ handler'.pc = "creating"
  BY <1>1
<1>2. ASSUME NEW t \in Trades, CloseLookup(t)
      PROVE HandlerReadsHold' /\ RefusalIsTruthful'
  BY <1>2 DEF CloseLookup, IdleHandler, breachVars, TypeOK
<1>9. ASSUME NEW t \in Trades, JustifyLookup(t)
       PROVE HandlerReadsHold' /\ RefusalIsTruthful'
  BY <1>9 DEF JustifyLookup, IdleHandler, breachVars, TypeOK
<1>3. CASE CloseCheck
  <2>1. UNCHANGED <<status, active>> BY <1>3 DEF CloseCheck, tradeVars, breachVars
  <2>2. handler.pc = "closing" /\ handler.trade \in Trades
    BY <1>3 DEF CloseCheck
  <2>3. CASE IsOpen(handler.trade)
    <3>1. handler' = [handler EXCEPT !.pc = "checked"]
      BY <1>3, <2>3 DEF CloseCheck
    <3> QED BY <2>1, <2>2, <2>3, <3>1 DEF TypeOK
  <2>4. CASE ~ IsOpen(handler.trade)
    <3>1. handler' = [handler EXCEPT !.pc = "refused"]
      BY <1>3, <2>4 DEF CloseCheck
    <3> QED BY <2>1, <2>2, <2>4, <3>1 DEF TypeOK
  <2> QED BY <2>3, <2>4
<1>4. CASE CloseScriptRefuses
  <2>1. UNCHANGED <<status, active>> BY <1>4 DEF CloseScriptRefuses, tradeVars, breachVars
  <2>2. /\ handler.pc = "checked" /\ handler.trade \in Trades /\ IsOpen(handler.trade)
        /\ ~ CloseAgrees(handler.trade, handler.breach)
    BY <1>4 DEF CloseScriptRefuses
  <2>3. handler.breach = None
    BY <2>2 DEF CloseAgrees, ActiveIsPending
  <2>4. active[handler.trade] # None
    BY <2>2, <2>3 DEF CloseAgrees
  <2>5. handler.attempt = 1
    BY <2>2, <2>3 DEF TypeOK
  <2>6. handler' = [handler EXCEPT !.pc = "conflict"]
    BY <1>4, <2>2, <2>3, <2>5 DEF CloseScriptRefuses
  <2> QED BY <2>1, <2>2, <2>4, <2>6 DEF TypeOK
<1>5. CASE CloseRetry
  BY <1>5 DEF CloseRetry, TypeOK, breachVars, tradeVars
<1>6. CASE handler' = handler
  <2>1. ASSUME NEW t \in Trades PROVE IsOpen(t)' <=> IsOpen(t)
    <3>1. CASE CommitTrade BY <3>1, <1>6 DEF CommitTrade, IdleHandler
    <3>2. CASE CloseScript BY <3>2, <1>6 DEF CloseScript, IdleHandler
    <3>3. CASE JustifyScript BY <3>3, <1>6 DEF JustifyScript, OverrideAgrees, IdleHandler
    <3>4. CASE UNCHANGED tradeVars BY <3>4 DEF tradeVars
    <3> QED BY <3>1, <3>2, <3>3, <3>4, TradeWriters
  <2>2. ASSUME NEW t \in Trades, active[t] # None PROVE active'[t] = active[t]
    <3>1. CASE CommitBreach
      BY <3>1, <2>2 DEF CommitBreach, StoreBreach, WatchIsCurrent, TypeOK
    <3>2. CASE CloseScript BY <3>2, <1>6 DEF CloseScript, IdleHandler
    <3>3. CASE JustifyScript BY <3>3, <1>6 DEF JustifyScript, OverrideAgrees, IdleHandler
    <3>4. CASE UNCHANGED breachVars BY <3>4 DEF breachVars
    <3> QED BY <3>1, <3>2, <3>3, <3>4, BreachWriters
  <2> QED BY <1>6, <2>1, <2>2
<1>7. \/ handler'.pc \in {"idle", "creating"} \/ handler' = handler
      \/ CloseCheck \/ CloseScriptRefuses \/ CloseRetry
      \/ \E t \in Trades : CloseLookup(t) \/ JustifyLookup(t)
  <2>1. CASE HandlerNext
    <3>1. CASE NewTradeId BY <3>1 DEF NewTradeId, IdleHandler
    <3>2. CASE CommitTrade BY <3>2 DEF CommitTrade, IdleHandler
    <3>3. ASSUME NEW t \in Trades, EditTrade(t) PROVE handler' = handler BY <3>3 DEF EditTrade
    <3>4. CASE CloseScript BY <3>4 DEF CloseScript, IdleHandler
    <3>5. CASE JustifyScript BY <3>5 DEF JustifyScript, OverrideAgrees, IdleHandler
    <3>6. CASE HandlerReplies BY <3>6 DEF HandlerReplies, IdleHandler
    <3>7. CASE HandlerFails BY <3>7 DEF HandlerFails, IdleHandler
    <3> QED BY <2>1, <3>1, <3>2, <3>3, <3>4, <3>5, <3>6, <3>7 DEF HandlerNext
  <2>2. CASE MonitorNext
    BY <2>2 DEF MonitorNext, ReadOpenSet, ReadOverrideSet, SkipTrade, NewBreachId,
                WatchTrade, CommitBreach, RetryBreach, FinishTick, MonitorTickFails
  <2> QED BY <2>1, <2>2 DEF Next, Crash, IdleHandler, vars
<1> QED BY <1>1, <1>2, <1>3, <1>4, <1>5, <1>6, <1>7, <1>9

(* The moves a trade can make, and only the open ones to a later status.   *)
LEMMA StatusMoves ==
  ASSUME StoreInvariant, [Next]_vars, NEW t \in Trades
  PROVE  \/ status'[t] = status[t]
         \/ status[t] = "missing" /\ status'[t] = "OPEN"
         \/ IsOpen(t) /\ status'[t] \in {"OPEN_OVERRIDE", "CLOSED"}
<1> USE DEF StoreInvariant, TypeOK, IsOpen, OpenStatuses
<1>1. CASE CommitTrade BY <1>1 DEF CommitTrade, IdsAreFresh
<1>2. CASE CloseScript BY <1>2 DEF CloseScript
<1>3. CASE JustifyScript BY <1>3 DEF JustifyScript, OverrideAgrees
<1>4. CASE UNCHANGED tradeVars BY <1>4 DEF tradeVars
<1> QED BY <1>1, <1>2, <1>3, <1>4, TradeWriters

(* A trade leaves the OPEN set only for the OPEN_OVERRIDE set or for good. *)
LEMMA ListingStep == StoreInvariant /\ [Next]_vars => ListingCovers'
<1> SUFFICES ASSUME StoreInvariant, [Next]_vars
             PROVE ListingCovers'
  OBVIOUS
<1> USE DEF TypeOK, ListingCovers, IsOpen, OpenStatuses
<1>1. CASE ReadOpenSet
  <2>1. /\ status' = status
        /\ monitor'.pending = statusSet["OPEN"]
        /\ openAtPoll' = {t \in Trades : IsOpen(t)}
    BY <1>1 DEF ReadOpenSet, IdleMonitor, tradeVars
  <2>2. \A t \in Trades : status[t] = "OPEN" => t \in statusSet["OPEN"]
    BY DEF StoreInvariant, TradeIndexesAgree, Statuses
  <2> QED BY <2>1, <2>2
<1>2. CASE /\ openAtPoll' = openAtPoll
           /\ monitor'.pc = "overrides" => monitor' = monitor
  <2>1. \A t \in openAtPoll : t \in Trades /\ status[t] # "missing"
    BY DEF StoreInvariant
  <2>2. \A t \in openAtPoll : status'[t] # "missing"
    BY <2>1, StatusMoves
  <2>3. ASSUME monitor'.pc = "overrides", NEW t \in openAtPoll, IsOpen(t)'
        PROVE  t \in monitor.pending \/ status'[t] = "OPEN_OVERRIDE"
    <3>1. IsOpen(t) /\ (status[t] = "OPEN_OVERRIDE" => status'[t] = "OPEN_OVERRIDE")
      BY <2>1, <2>3, StatusMoves
    <3> QED BY <1>2, <2>3, <3>1 DEF StoreInvariant
  <2> QED BY <1>2, <2>2, <2>3
<1>3. CASE openAtPoll' = {} BY <1>3
<1>4. \/ ReadOpenSet \/ openAtPoll' = {}
      \/ openAtPoll' = openAtPoll /\ (monitor'.pc = "overrides" => monitor' = monitor)
  <2>1. CASE HandlerNext
    <3>1. openAtPoll' = openAtPoll
      BY <2>1 DEF HandlerNext, NewTradeId, CommitTrade, CloseLookup, JustifyLookup, EditTrade,
         CloseCheck, CloseScript, CloseScriptRefuses, CloseRetry, JustifyScript,
         HandlerReplies, HandlerFails
    <3>2. monitor' = monitor \/ \E t \in MaybeTrade : TouchWatched(t)
      BY <2>1 DEF HandlerNext, NewTradeId, CommitTrade, CloseLookup, JustifyLookup, EditTrade,
         CloseCheck, CloseScript, CloseScriptRefuses, CloseRetry, JustifyScript,
         HandlerReplies, HandlerFails, MaybeTrade, StoreInvariant
    <3>3. monitor'.pc = "overrides" => monitor' = monitor
      BY <3>2 DEF TouchWatched, StoreInvariant
    <3> QED BY <3>1, <3>3
  <2>2. ASSUME NEW t \in Trades, SkipTrade(t) \/ NewBreachId(t)
        PROVE openAtPoll' = openAtPoll /\ monitor'.pc # "overrides"
    BY <2>2 DEF SkipTrade, NewBreachId, StoreInvariant
  <2>3. CASE ReadOverrideSet BY <2>3 DEF ReadOverrideSet, StoreInvariant
  <2>4. CASE WatchTrade BY <2>4 DEF WatchTrade, MonitorMovesOn, StoreInvariant
  <2>5. CASE CommitBreach BY <2>5 DEF CommitBreach, StoreBreach, MonitorMovesOn, StoreInvariant
  <2>6. CASE RetryBreach BY <2>6 DEF RetryBreach, StoreInvariant
  <2>7. CASE FinishTick \/ MonitorTickFails \/ Crash
    BY <2>7 DEF FinishTick, MonitorTickFails, Crash
  <2>8. CASE UNCHANGED vars BY <2>8 DEF vars
  <2> QED BY <2>1, <2>2, <2>3, <2>4, <2>5, <2>6, <2>7, <2>8 DEF Next, MonitorNext
<1> QED BY <1>1, <1>2, <1>3, <1>4
-----------------------------------------------------------------------------
(* Every behaviour of the store satisfies StoreInvariant: the trade and the *)
(* breach indexes agree with the hashes whatever the handler and the monitor *)
(* interleave, wherever they crash.                                        *)
THEOREM StoreInvariantHolds == Spec => []StoreInvariant
<1>1. Init => StoreInvariant
  BY DEF Init, StoreInvariant, TypeOK, TradeIndexesAgree, BreachIndexesAgree, ActiveIsPending,
         IdsAreFresh, WatchIsCurrent, HandlerReadsHold, ListingCovers, RefusalIsTruthful,
         IdleHandler, IdleMonitor, MaybeTrade, MaybeBreach, Statuses, Responses, None, Trades,
         Breaches
<1>2. StoreInvariant /\ [Next]_vars => StoreInvariant'
  BY TypeStep, TradeIndexesStep, BreachIndexesStep, IdsStep, WatchStep, HandlerStep, ListingStep
  DEF StoreInvariant
<1> QED BY <1>1, <1>2, PTL DEF Spec

(* Type correctness.                                                       *)
THEOREM StoreTypeCorrect == Spec => []TypeOK
<1>1. StoreInvariant => TypeOK BY DEF StoreInvariant
<1> QED BY <1>1, StoreInvariantHolds, PTL

(* The five trade keys of create_trade and the scripts tell one story.     *)
THEOREM TradeIndexesAlwaysAgree == Spec => []TradeIndexesAgree
<1>1. StoreInvariant => TradeIndexesAgree BY DEF StoreInvariant
<1> QED BY <1>1, StoreInvariantHolds, PTL

(* So do the breach hash, breaches:unresolved and breach:active.           *)
THEOREM BreachIndexesAlwaysAgree == Spec => []BreachIndexesAgree
<1>1. StoreInvariant => BreachIndexesAgree BY DEF StoreInvariant
<1> QED BY <1>1, StoreInvariantHolds, PTL

(* No closed trade keeps a breach that waits for an answer.                *)
THEOREM NoOrphanBreach == Spec => []NoPendingBreachOnClosedTrade
<1>1. StoreInvariant => NoPendingBreachOnClosedTrade
  BY DEF StoreInvariant, TypeOK, BreachIndexesAgree, ActiveIsPending, Breaches, None,
         NoPendingBreachOnClosedTrade
<1> QED BY <1>1, StoreInvariantHolds, PTL

(* One retry of close_trade is enough: a refused /closed or /justify means  *)
(* the trade is no longer open.                                            *)
THEOREM RefusalsAreTruthful == Spec => []RefusalIsTruthful
<1>1. StoreInvariant => RefusalIsTruthful BY DEF StoreInvariant
<1> QED BY <1>1, StoreInvariantHolds, PTL

(* After a successful look-up the override script does not refuse.         *)
THEOREM JustifyAlwaysAccepted == Spec => []JustifyIsAccepted
<1>1. StoreInvariant => JustifyIsAccepted
  <2> SUFFICES ASSUME StoreInvariant, handler.pc = "justifying"
               PROVE  OverrideAgrees(handler.trade, handler.breach)
    BY DEF JustifyIsAccepted
  <2> QED BY DEF StoreInvariant, HandlerReadsHold, ActiveIsPending, OverrideAgrees, MaybeBreach
<1> QED BY <1>1, StoreInvariantHolds, PTL

(* The two-read listing of open trades misses none that stays open.        *)
THEOREM ListingIsComplete == Spec => ListingMissesNoOpenTrade
<1>1. ASSUME StoreInvariant, [Next]_vars, monitor.pc = "overrides", monitor'.pc = "trades"
      PROVE  {t \in openAtPoll : IsOpen(t)} \subseteq monitor'.pending
  <2>1. ReadOverrideSet
    <3>1. CASE HandlerNext
      <4>1. monitor' = monitor \/ \E t \in MaybeTrade : TouchWatched(t)
        BY <1>1, <3>1 DEF HandlerNext, NewTradeId, CommitTrade, CloseLookup, JustifyLookup,
           EditTrade, CloseCheck, CloseScript, CloseScriptRefuses, CloseRetry, JustifyScript,
           HandlerReplies, HandlerFails, MaybeTrade, StoreInvariant, TypeOK
      <4> QED BY <1>1, <4>1 DEF TouchWatched
    <3>2. CASE MonitorNext
      <4>1. ~ (ReadOpenSet \/ FinishTick \/ MonitorTickFails)
        BY <1>1 DEF ReadOpenSet, FinishTick, MonitorTickFails, IdleMonitor
      <4>2. \A t \in Trades : ~ (SkipTrade(t) \/ NewBreachId(t))
        BY <1>1 DEF SkipTrade, NewBreachId
      <4>3. ~ (WatchTrade \/ CommitBreach \/ RetryBreach)
        BY <1>1 DEF WatchTrade, CommitBreach, StoreBreach, RetryBreach
      <4> QED BY <3>2, <4>1, <4>2, <4>3 DEF MonitorNext
    <3> QED BY <3>1, <3>2, <1>1 DEF Next, Crash, IdleMonitor, vars
  <2>2. monitor'.pending = monitor.pending \cup statusSet["OPEN_OVERRIDE"]
    BY <2>1 DEF ReadOverrideSet, StoreInvariant, TypeOK
  <2>3. \A t \in Trades : status[t] = "OPEN_OVERRIDE" => t \in statusSet["OPEN_OVERRIDE"]
    BY <1>1 DEF StoreInvariant, TradeIndexesAgree, Statuses
  <2> QED BY <1>1, <2>2, <2>3 DEF StoreInvariant, ListingCovers, TypeOK
<1>2. StoreInvariant /\ [Next]_vars
        => [monitor.pc = "overrides" /\ monitor'.pc = "trades"
              => {t \in openAtPoll : IsOpen(t)} \subseteq monitor'.pending]_vars
  BY <1>1
<1> QED BY <1>2, StoreInvariantHolds, PTL DEF Spec, ListingMissesNoOpenTrade

(* The answer to a breach is never rewritten.                              *)
THEOREM AnswersNeverChange == Spec => AnswersAreFinal
<1>1. ASSUME StoreInvariant, [Next]_vars, NEW b \in Breaches,
             response[b] \in {"closed", "justified"}
      PROVE  response'[b] = response[b] /\ breachTrade'[b] = breachTrade[b]
  <2> USE DEF StoreInvariant, TypeOK
  <2>1. CASE CommitBreach
    <3>1. monitor.breach # b BY <1>1, <2>1 DEF CommitBreach, StoreBreach, IdsAreFresh
    <3> QED BY <1>1, <2>1, <3>1 DEF CommitBreach, StoreBreach
  <2>2. CASE CloseScript
    BY <1>1, <2>2 DEF CloseScript, CloseAgrees, Answer, breachVars
  <2>3. CASE JustifyScript BY <1>1, <2>3 DEF JustifyScript, OverrideAgrees, Answer
  <2>4. CASE UNCHANGED breachVars BY <2>4 DEF breachVars
  <2> QED BY <1>1, <2>1, <2>2, <2>3, <2>4, BreachWriters
<1>2. StoreInvariant /\ [Next]_vars
        => [\A b \in Breaches : response[b] \in {"closed", "justified"}
              => response'[b] = response[b] /\ breachTrade'[b] = breachTrade[b]]_vars
  BY <1>1
<1> QED BY <1>2, StoreInvariantHolds, PTL DEF Spec, AnswersAreFinal

(* Closing a breached trade answers its breach in the same step.           *)
THEOREM ClosingAnswers == Spec => ClosingAnswersTheBreach
<1>1. ASSUME StoreInvariant, [Next]_vars, NEW t \in Trades,
             IsOpen(t), ~ IsOpen(t)', active[t] # None
      PROVE  response'[active[t]] = "closed"
  <2> USE DEF StoreInvariant, TypeOK, IsOpen, OpenStatuses
  <2>1. CASE CommitTrade BY <1>1, <2>1 DEF CommitTrade, IdsAreFresh
  <2>2. CASE CloseScript
    <3>1. handler.trade = t BY <1>1, <2>2 DEF CloseScript, HandlerReadsHold
    <3>2. active[t] = handler.breach /\ active[t] \in Breaches
      BY <1>1, <2>2, <3>1 DEF CloseScript, CloseAgrees, MaybeBreach
    <3> QED BY <1>1, <2>2, <3>1, <3>2 DEF CloseScript, Answer
  <2>3. CASE JustifyScript BY <1>1, <2>3 DEF JustifyScript
  <2>4. CASE UNCHANGED tradeVars BY <1>1, <2>4 DEF tradeVars
  <2> QED BY <1>1, <2>1, <2>2, <2>3, <2>4, TradeWriters
<1>2. StoreInvariant /\ [Next]_vars
        => [\A t \in Trades : IsOpen(t) /\ ~ IsOpen(t)' /\ active[t] # None
              => response'[active[t]] = "closed"]_vars
  BY <1>1
<1> QED BY <1>2, StoreInvariantHolds, PTL DEF Spec, ClosingAnswersTheBreach
-----------------------------------------------------------------------------
(* Writing one status field changes the phase of that trade alone.         *)
LEMMA PhaseUpdate ==
  ASSUME NEW t \in Trades, NEW s \in Statuses, TypeOK, status' = [status EXCEPT ![t] = s]
  PROVE  [u \in Trades |-> PhaseOf(status[u])]'
            = [[u \in Trades |-> PhaseOf(status[u])] EXCEPT ![t] = PhaseOf(s)]
<1>1. \A u \in Trades : status'[u] = IF u = t THEN s ELSE status[u]
  BY DEF TypeOK
<1>2. \A u \in Trades : PhaseOf(status'[u]) = IF u = t THEN PhaseOf(s) ELSE PhaseOf(status[u])
  BY <1>1
<1> QED BY <1>2, Zenon

(* The four writes of the store are the five steps of the life cycle.        *)
LEMMA CommitTradeOpens ==
  ASSUME StoreInvariant, CommitTrade PROVE \E t \in Trades : Lifecycle!OpenTrade(t)
<1> USE DEF StoreInvariant, TypeOK, PhaseOf
<1>1. PICK t \in Trades : t = handler.trade /\ status[t] = "missing"
  BY DEF CommitTrade, IdsAreFresh
<1>2. status' = [status EXCEPT ![t] = "OPEN"] /\ UNCHANGED <<active, response>>
  BY <1>1 DEF CommitTrade, breachVars
<1>3. Lifecycle!OpenTrade(t)
  BY <1>1, <1>2, PhaseUpdate DEF Lifecycle!OpenTrade, Statuses
<1> QED BY <1>3

LEMMA CommitBreachDetects ==
  ASSUME StoreInvariant, CommitBreach
  PROVE  \E t \in Trades : monitor.breach \in Breaches /\ Lifecycle!DetectBreach(t, monitor.breach)
<1> USE DEF StoreInvariant, TypeOK, PhaseOf, AnswerOf, IsOpen, OpenStatuses
<1>1. PICK t \in Trades, b \in Breaches :
         /\ t = monitor.trade /\ b = monitor.breach
         /\ IsOpen(t) /\ active[t] = None /\ response[b] = "missing"
  BY DEF CommitBreach, StoreBreach, IdsAreFresh, WatchIsCurrent
<1>2. /\ status' = status
      /\ response' = [response EXCEPT ![b] = "none"]
      /\ active' = [active EXCEPT ![t] = b]
  BY <1>1 DEF CommitBreach, StoreBreach, tradeVars
<1>3. \A u \in Trades : active[u] # b
  BY <1>1 DEF ActiveIsPending, Breaches, None
<1>4. Lifecycle!DetectBreach(t, b)
  BY <1>1, <1>2, <1>3 DEF Lifecycle!DetectBreach, Lifecycle!Live
<1> QED BY <1>1, <1>4

LEMMA CloseScriptCloses ==
  ASSUME StoreInvariant, CloseScript
  PROVE  \E t \in Trades : \/ Lifecycle!CloseQuietTrade(t)
                           \/ \E b \in Breaches : Lifecycle!CloseBreachedTrade(t, b)
<1> USE DEF StoreInvariant, TypeOK, PhaseOf, AnswerOf, IsOpen, OpenStatuses
<1>1. PICK t \in Trades : t = handler.trade /\ IsOpen(t)
  BY DEF CloseScript, HandlerReadsHold
<1>2. status' = [status EXCEPT ![t] = "CLOSED"] /\ active[t] = handler.breach
  BY <1>1 DEF CloseScript, CloseAgrees
<1>3. CASE handler.breach = None
  <2>1. UNCHANGED <<active, response>>
    BY <1>3 DEF CloseScript, breachVars
  <2>2. Lifecycle!CloseQuietTrade(t)
    BY <1>1, <1>2, <1>3, <2>1, PhaseUpdate
    DEF Lifecycle!CloseQuietTrade, Lifecycle!Live, Statuses
  <2> QED BY <2>2
<1>4. CASE handler.breach # None
  <2>1. PICK b \in Breaches : b = handler.breach
    BY <1>4 DEF MaybeBreach
  <2>2. /\ response' = [response EXCEPT ![b] = "closed"]
        /\ active' = [active EXCEPT ![t] = None]
    BY <1>1, <1>4, <2>1 DEF CloseScript, Answer
  <2>3. Lifecycle!CloseBreachedTrade(t, b)
    BY <1>1, <1>2, <2>1, <2>2, PhaseUpdate
    DEF Lifecycle!CloseBreachedTrade, Lifecycle!Live, Statuses
  <2> QED BY <2>3
<1> QED BY <1>3, <1>4

LEMMA JustifyScriptJustifies ==
  ASSUME StoreInvariant, JustifyScript
  PROVE  \E t \in Trades, b \in Breaches : Lifecycle!JustifyBreach(t, b)
<1> USE DEF StoreInvariant, TypeOK, PhaseOf, AnswerOf, IsOpen, OpenStatuses
<1>1. PICK t \in Trades, b \in Breaches :
         t = handler.trade /\ b = handler.breach /\ IsOpen(t) /\ active[t] = b
  BY DEF JustifyScript, OverrideAgrees, HandlerReadsHold, MaybeBreach
<1>2. /\ status' = [status EXCEPT ![t] = "OPEN_OVERRIDE"]
      /\ response' = [response EXCEPT ![b] = "justified"]
      /\ active' = [active EXCEPT ![t] = None]
  BY <1>1 DEF JustifyScript, OverrideAgrees, Answer
<1>3. Lifecycle!JustifyBreach(t, b)
  BY <1>1, <1>2, PhaseUpdate DEF Lifecycle!JustifyBreach, Lifecycle!Live, Statuses
<1> QED BY <1>3

(* The rest of what the two tasks do is invisible in it.                     *)
LEMMA LifecycleStutters ==
  ASSUME UNCHANGED <<tradeVars, breachVars>> PROVE UNCHANGED Lifecycle!lifecycleVars
  BY DEF tradeVars, breachVars, Lifecycle!lifecycleVars

LEMMA LifecycleWriters ==
  ASSUME StoreInvariant, [Next]_vars
  PROVE  CommitTrade \/ CommitBreach \/ CloseScript \/ JustifyScript \/ UNCHANGED <<tradeVars, breachVars>>
<1>1. CASE CommitTrade \/ CommitBreach \/ CloseScript \/ JustifyScript BY <1>1
<1>2. CASE ~ (CommitTrade \/ CommitBreach \/ CloseScript \/ JustifyScript)
  BY <1>2, TradeWriters, BreachWriters DEF StoreInvariant
<1> QED BY <1>1, <1>2

LEMMA StoreStepsLifecycle ==
  ASSUME StoreInvariant, [Next]_vars PROVE [Lifecycle!LifecycleNext]_(Lifecycle!lifecycleVars)
<1>1. CASE CommitTrade BY <1>1, CommitTradeOpens DEF Lifecycle!LifecycleNext
<1>2. CASE CommitBreach BY <1>2, CommitBreachDetects DEF Lifecycle!LifecycleNext
<1>3. CASE CloseScript BY <1>3, CloseScriptCloses DEF Lifecycle!LifecycleNext
<1>4. CASE JustifyScript BY <1>4, JustifyScriptJustifies DEF Lifecycle!LifecycleNext
<1>5. CASE UNCHANGED <<tradeVars, breachVars>> BY <1>5, LifecycleStutters
<1> QED BY <1>1, <1>2, <1>3, <1>4, <1>5, LifecycleWriters

(* The two tasks, step by step over Redis, implement the one-step life cycle *)
(* of TradeLifecycle.                                                        *)
THEOREM StoreImplementsLifecycle == Spec => ImplementsLifecycle
<1>1. Init => Lifecycle!LifecycleInit
  BY DEF Init, Lifecycle!LifecycleInit, PhaseOf, AnswerOf
<1> QED
  BY <1>1, StoreStepsLifecycle, StoreInvariantHolds, PTL
  DEF Spec, ImplementsLifecycle, Lifecycle!LifecycleSpec
=============================================================================
