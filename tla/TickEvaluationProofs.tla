------------------------- MODULE TickEvaluationProofs -------------------------
(***************************************************************************)
(* What TickEvaluation promises for any trades, prices and levels, and any *)
(* number of breaches and restarts.                                        *)
(***************************************************************************)
EXTENDS TickEvaluation, TLAPS

USE TickAssumption DEF TickAssumption

-----------------------------------------------------------------------------
(* Types.                                                                    *)

LEMMA TermsAreRecords == Terms \subseteq AnyTerms /\ NoTerms \notin Terms
  BY DEF Terms, AnyTerms, NoTerms

LEMMA ArmedIsSequence ==
  ASSUME TickTypeOK, NEW b \in Breaches, Armed(b) PROVE armed[b] \in Sequences
  BY DEF TickTypeOK, Armed

LEMMA StoredIsRecord ==
  ASSUME TickTypeOK, NEW b \in Breaches, Stored(b) PROVE breach[b] \in BreachRecords
  BY DEF TickTypeOK, Stored

LEMMA StartTyped == TickInit => TickTypeOK
  BY DEF TickInit, TickTypeOK, OpenStatuses, Breaches, None, MonitorStates, IdleMonitor

LEMMA HandlerTyped ==
  ASSUME TickTypeOK, ActiveIsStored, HandlerStep PROVE TickTypeOK'
<1> USE DEF TickTypeOK
<1>1. ASSUME NEW t \in Trades, NEW x \in AnyTerms, NewTrade(t, x) PROVE TickTypeOK'
  BY <1>1 DEF NewTrade, Terms, OpenStatuses, memoryVars, historyVars
<1>2. ASSUME NEW t \in Trades, NEW x \in AnyTerms, EditTrade(t, x) PROVE TickTypeOK'
  BY <1>2 DEF EditTrade, Terms, BreachesOf, memoryVars
<1>3. ASSUME NEW t \in Trades, NEW x \in AnyTerms, NEW price \in Prices, EditClosed(t, x, price)
      PROVE  TickTypeOK'
  BY <1>3 DEF EditClosed, Terms, BreachesOf, memoryVars
<1>4. ASSUME NEW t \in Trades, NEW r \in {"justified", "closed"}, active[t] # None
      PROVE  [breach EXCEPT ![active[t]].response = r] \in [Breaches -> BreachRecords \cup {NoBreach}]
  <2>1. active[t] \in Breaches /\ Stored(active[t]) BY <1>4 DEF ActiveIsStored
  <2>2. breach[active[t]] \in BreachRecords BY <2>1, StoredIsRecord
  <2>3. [breach[active[t]] EXCEPT !.response = r] \in BreachRecords BY <2>2 DEF BreachRecords
  <2> QED BY <2>1, <2>3
<1>5. ASSUME NEW t \in Trades, Justify(t) PROVE TickTypeOK'
  BY <1>4, <1>5 DEF Justify, OpenStatuses, None
<1>6. ASSUME NEW t \in Trades, NEW price \in Prices, Close(t, price) PROVE TickTypeOK'
  <2>1. breach' \in [Breaches -> BreachRecords \cup {NoBreach}] BY <1>4, <1>6 DEF Close
  <2> QED BY <1>6, <2>1 DEF Close, None
<1>7. ASSUME StopAlerts PROVE TickTypeOK'
  BY <1>7 DEF StopAlerts, storeVars, historyVars
<1> QED BY <1>1, <1>2, <1>3, <1>5, <1>6, <1>7, HandlerStep DEF HandlerStep

LEMMA NotedTyped ==
  ASSUME TickTypeOK, monitor.pc # "idle", NEW S \in SUBSET {b \in Breaches : Armed(b)}
  PROVE  [b \in Breaches |-> IF b \in S THEN [armed[b] EXCEPT !.price = monitor.price] ELSE armed[b]]
            \in [Breaches -> Sequences \cup {NoSequence}]
<1>1. ASSUME NEW b \in S PROVE [armed[b] EXCEPT !.price = monitor.price] \in Sequences
  BY ArmedIsSequence DEF TickTypeOK, Sequences
<1> QED BY <1>1 DEF TickTypeOK

LEMMA MonitorTyped ==
  ASSUME TickTypeOK, MonitorHolds, MonitorStep \/ TickFails PROVE TickTypeOK'
<1> USE DEF TickTypeOK
<1>1. CASE ReceiveTick
  <2>1. monitor' \in MonitorStates /\ monitor'.price \in Prices
    BY <1>1 DEF ReceiveTick, MonitorStates, IdleMonitor, None
  <2> QED BY <1>1, <2>1 DEF ReceiveTick, storeVars, historyVars
<1>2. CASE ListTrades
  <2>1. monitor' \in MonitorStates /\ monitor'.price = monitor.price
    BY <1>2 DEF ListTrades, MonitorStates
  <2> QED BY <1>2, <2>1 DEF ListTrades, At, storeVars
<1>3. CASE FinishTick
  <2>1. monitor' \in MonitorStates /\ monitor'.pc = "idle"
    BY <1>3 DEF FinishTick, MonitorStates, IdleMonitor, None
  <2> QED BY <1>3, <2>1 DEF FinishTick, storeVars, historyVars
<1>4. ASSUME NEW t \in Trades, LookAt(t) PROVE TickTypeOK'
  <2>1. monitor' \in MonitorStates /\ monitor'.price = monitor.price
    BY <1>4 DEF LookAt, MonitorStates
  <2>2. monitor.pc # "idle" BY <1>4 DEF LookAt, At
  <2> DEFINE S == {b \in Breaches : Armed(b) /\ b \in BreachesOf(t)}
  <2>3. PriceNoted(t) =
          [b \in Breaches |-> IF b \in S THEN [armed[b] EXCEPT !.price = monitor.price] ELSE armed[b]]
    BY DEF PriceNoted
  <2>4. S \in SUBSET {b \in Breaches : Armed(b)} OBVIOUS
  <2> HIDE DEF S
  <2>5. armed' \in [Breaches -> Sequences \cup {NoSequence}]
    BY <1>4, <2>2, <2>3, <2>4, NotedTyped DEF LookAt
  <2> QED BY <1>4, <2>1, <2>2, <2>5 DEF LookAt, storeVars, historyVars
<1>5. ASSUME MonitorMovesOn PROVE monitor' \in MonitorStates /\ monitor'.price = monitor.price
  BY <1>5 DEF MonitorMovesOn, MonitorStates
<1>6. CASE CreateBreach
  <2> DEFINE b == lastBreach + 1
  <2>1. b \in Breaches /\ b \in 0 .. MaxBreaches BY <1>6 DEF CreateBreach, Breaches
  <2>2. monitor.trade \in Trades /\ monitor.listed[monitor.trade] \in Terms
    BY <1>6 DEF CreateBreach, At, MonitorHolds, MonitorStates
  <2>3. monitor.price \in Prices BY <1>6 DEF CreateBreach, At
  <2>4. [trade |-> monitor.trade, price |-> monitor.price, response |-> "none",
         judgedBy |-> monitor.listed[monitor.trade]] \in BreachRecords
    BY <2>2, <2>3 DEF BreachRecords
  <2>5. monitor' \in MonitorStates /\ monitor'.price = monitor.price
    BY <1>6, <2>1 DEF CreateBreach, MonitorStates
  <2>6. breach' \in [Breaches -> BreachRecords \cup {NoBreach}] BY <1>6, <2>4 DEF CreateBreach
  <2>7. active' \in [Trades -> Breaches \cup {None}] BY <1>6, <2>1 DEF CreateBreach
  <2>8. restated' \subseteq Breaches BY <1>6, <2>1 DEF CreateBreach
  <2> QED BY <1>6, <2>1, <2>3, <2>5, <2>6, <2>7, <2>8 DEF CreateBreach
<1>7. CASE BreachRefused
  BY <1>5, <1>7 DEF BreachRefused, At, storeVars, historyVars
<1>8. CASE Arm
  <2>1. monitor.trade \in Trades /\ monitor.listed[monitor.trade] \in Terms /\ monitor.price \in Prices
    BY <1>8 DEF Arm, At, MonitorHolds, MonitorStates
  <2>2. [terms |-> monitor.listed[monitor.trade], price |-> monitor.price, from |-> "tick"] \in Sequences
    BY <2>1 DEF Sequences
  <2>3. monitor' \in MonitorStates /\ monitor'.price = monitor.price BY <1>8 DEF Arm, MonitorStates
  <2> QED BY <1>8, <2>1, <2>2, <2>3 DEF Arm, storeVars, historyVars
<1>9. CASE Announced
  <2>1. monitor.pc # "idle" BY <1>9 DEF Announced, At
  <2>2. armed' \in [Breaches -> Sequences \cup {NoSequence}] BY <1>9, <2>1, NotedTyped DEF Announced
  <2> QED BY <1>5, <1>9, <2>1, <2>2 DEF Announced, storeVars, historyVars
<1>10. CASE TickFails
  <2>1. monitor' \in MonitorStates /\ monitor'.pc = "idle"
    BY <1>10 DEF TickFails, MonitorStates, IdleMonitor, None
  <2> QED BY <1>10, <2>1 DEF TickFails, storeVars, historyVars
<1> QED BY <1>1, <1>2, <1>3, <1>4, <1>6, <1>7, <1>8, <1>9, <1>10 DEF MonitorStep, Create

LEMMA TickTyped ==
  ASSUME TickTypeOK, TermsAreGiven, ActiveIsStored, MonitorHolds, [TickNext]_tickVars PROVE TickTypeOK'
<1> USE DEF TickTypeOK
<1>1. ASSUME NEW price \in Prices, PriceMoves(price) PROVE TickTypeOK'
  BY <1>1 DEF PriceMoves, storeVars, memoryVars, historyVars
<1>2. ASSUME NEW b \in Breaches, LoopSends(b) PROVE TickTypeOK'
  BY <1>2, ArmedIsSequence DEF LoopSends, storeVars, historyVars
<1>3. CASE LoopWritesBack
  BY <1>3 DEF LoopWritesBack, storeVars, historyVars
<1>4. CASE ProcessDies
  <2>1. IdleMonitor \in MonitorStates /\ IdleMonitor.pc = "idle" BY DEF IdleMonitor, MonitorStates, None
  <2> QED BY <1>4, <2>1 DEF ProcessDies, storeVars, historyVars
<1>5. CASE ResumeState
  <2>1. ASSUME NEW b \in Breaches, Stored(b), IsOpen(breach[b].trade), TermsAreGiven
        PROVE  [terms |-> terms[breach[b].trade], price |-> breach[b].price, from |-> "resume"] \in Sequences
    BY <2>1, StoredIsRecord DEF BreachRecords, Sequences, TermsAreGiven, IsOpen, OpenStatuses
  <2> QED BY <1>5, <2>1 DEF ResumeState, storeVars, historyVars
<1>6. CASE UNCHANGED tickVars BY <1>6 DEF tickVars, storeVars, memoryVars, historyVars
<1> QED BY <1>1, <1>2, <1>3, <1>4, <1>5, <1>6, HandlerTyped, MonitorTyped DEF TickNext
-----------------------------------------------------------------------------
(* What is stored about a breach.                                            *)

BreachesHold == BreachesAreJudged /\ ActiveIsStored /\ TermsAreGiven

LEMMA BreachesHandler ==
  ASSUME TickTypeOK, BreachesHold, HandlerStep PROVE BreachesHold'
<1> USE DEF BreachesHold, BreachesAreJudged, ActiveIsStored, TermsAreGiven, Stored, IsOpen, OpenStatuses
<1>0. \A b \in Breaches : Stored(b) => breach[b].trade \in Trades
  BY StoredIsRecord DEF BreachRecords
<1>1. ASSUME NEW t \in Trades, NEW x \in AnyTerms, NewTrade(t, x) PROVE BreachesHold'
  <2>1. \A b \in Breaches : Stored(b) => breach[b].trade # t BY <1>1, <1>0 DEF NewTrade
  <2>2. x # NoTerms BY DEF AnyTerms, NoTerms
  <2> QED BY <1>0, <1>1, <2>1, <2>2 DEF NewTrade, historyVars, TickTypeOK
<1>2. ASSUME NEW t \in Trades, NEW x \in AnyTerms, terms' = [terms EXCEPT ![t] = x],
             restated' = restated \cup BreachesOf(t), status[t] # "MISSING",
             UNCHANGED <<status, active, breach, lastBreach>>
      PROVE BreachesHold'
  <2>1. x # NoTerms BY DEF AnyTerms, NoTerms
  <2>2. \A b \in Breaches : Stored(b) /\ b \notin restated' => breach[b].trade # t
    BY <1>2 DEF BreachesOf
  <2> QED BY <1>0, <1>2, <2>1, <2>2 DEF TickTypeOK
<1>3. ASSUME NEW t \in Trades, NEW x \in AnyTerms, EditTrade(t, x) PROVE BreachesHold'
  BY <1>2, <1>3 DEF EditTrade
<1>4. ASSUME NEW t \in Trades, NEW x \in AnyTerms, NEW price \in Prices, EditClosed(t, x, price)
      PROVE  BreachesHold'
  BY <1>2, <1>4 DEF EditClosed
<1>5. ASSUME NEW t \in Trades, Justify(t) PROVE BreachesHold'
  <2> DEFINE a == active[t]
  <2>1. a \in Breaches /\ Stored(a) /\ breach[a].trade = t /\ breach[a] \in BreachRecords
    BY <1>5, StoredIsRecord DEF Justify, TickTypeOK
  <2>2. breach'[a] = [breach[a] EXCEPT !.response = "justified"] BY <1>5, <2>1 DEF Justify, TickTypeOK
  <2>3. /\ breach'[a].trade = t /\ breach'[a].price = breach[a].price
        /\ breach'[a].judgedBy = breach[a].judgedBy /\ breach'[a].response = "justified"
        /\ breach'[a] # NoBreach
    BY <2>1, <2>2 DEF BreachRecords, NoBreach
  <2>4. \A b \in Breaches \ {a} : breach'[b] = breach[b] BY <1>5, <2>1 DEF Justify, TickTypeOK
  <2>5. \A u \in Trades \ {t} : active'[u] = active[u] /\ status'[u] = status[u]
    BY <1>5 DEF Justify, TickTypeOK
  <2>6. active'[t] = None /\ status'[t] = "OPEN_OVERRIDE" BY <1>5 DEF Justify, TickTypeOK
  <2>7. \A u \in Trades \ {t} : active[u] # a BY <2>1, <1>5 DEF Justify
  <2>8. None \notin Breaches BY DEF None, Breaches
  <2>9. UNCHANGED <<terms, lastBreach, restated>> BY <1>5 DEF Justify
  <2>10. BreachesAreJudged'
    <3>1. ASSUME NEW b \in Breaches, b # a, Stored(b)
          PROVE  breach[b].trade = t => breach[b].response # "none"
      BY <3>1
    <3>2. a <= lastBreach /\ terms[t] # NoTerms /\ IsBreach(breach[a].judgedBy, breach[a].price)
          /\ (a \notin restated => terms[t] = breach[a].judgedBy)
      BY <2>1
    <3> QED BY <1>0, <2>1, <2>3, <2>4, <2>5, <2>6, <2>8, <2>9, <3>1, <3>2 DEF IsBreach
  <2>11. ASSUME NEW u \in Trades, active'[u] # None
         PROVE  IsOpen(u)' /\ Stored(active[u])' /\ active'[u] = active[u] /\ breach'[active[u]].trade = u
    <3>1. u # t /\ active'[u] = active[u] BY <2>5, <2>6, <2>11
    <3>2. active[u] \in Breaches \ {a} BY <2>7, <2>11, <3>1 DEF TickTypeOK
    <3> QED BY <2>4, <2>5, <2>11, <3>1, <3>2
  <2>12. ActiveIsStored' BY <2>11
  <2>13. TermsAreGiven' BY <1>5, <2>5, <2>6, <2>9 DEF Justify
  <2> QED BY <2>10, <2>12, <2>13
<1>6. ASSUME NEW t \in Trades, NEW price \in Prices, Close(t, price) PROVE BreachesHold'
  <2> DEFINE a == active[t]
  <2>1. \A u \in Trades \ {t} : active'[u] = active[u] /\ status'[u] = status[u]
    BY <1>6 DEF Close, TickTypeOK
  <2>2. active'[t] = None /\ status'[t] = "CLOSED" /\ status[t] # "MISSING"
    BY <1>6 DEF Close, TickTypeOK
  <2>3. UNCHANGED <<terms, lastBreach, restated>> BY <1>6 DEF Close
  <2>4. None \notin Breaches BY DEF None, Breaches
  <2>5. CASE a = None
    BY <1>0, <1>6, <2>1, <2>2, <2>3, <2>4, <2>5 DEF Close
  <2>6. CASE a # None
    <3>1. a \in Breaches /\ Stored(a) /\ breach[a].trade = t /\ breach[a] \in BreachRecords
      BY <2>6, StoredIsRecord DEF TickTypeOK
    <3>2. breach'[a] = [breach[a] EXCEPT !.response = "closed"] BY <1>6, <2>6, <3>1 DEF Close, TickTypeOK
    <3>3. /\ breach'[a].trade = t /\ breach'[a].price = breach[a].price
          /\ breach'[a].judgedBy = breach[a].judgedBy /\ breach'[a].response = "closed"
          /\ breach'[a] # NoBreach
      BY <3>1, <3>2 DEF BreachRecords, NoBreach
    <3>4. \A b \in Breaches \ {a} : breach'[b] = breach[b] BY <1>6, <2>6, <3>1 DEF Close, TickTypeOK
    <3>5. \A u \in Trades \ {t} : active[u] # a BY <3>1, <2>6
    <3>6. ASSUME NEW b \in Breaches, b # a, Stored(b)
          PROVE  breach[b].trade = t => breach[b].response # "none"
      BY <3>6
    <3>7. a <= lastBreach /\ terms[t] # NoTerms /\ IsBreach(breach[a].judgedBy, breach[a].price)
          /\ (a \notin restated => terms[t] = breach[a].judgedBy)
      BY <3>1
    <3>8. BreachesAreJudged'
      BY <1>0, <2>1, <2>2, <2>3, <2>4, <3>1, <3>3, <3>4, <3>6, <3>7 DEF IsBreach
    <3>9. ASSUME NEW u \in Trades, active'[u] # None
          PROVE  IsOpen(u)' /\ Stored(active[u])' /\ active'[u] = active[u] /\ breach'[active[u]].trade = u
      <4>1. u # t /\ active'[u] = active[u] BY <2>1, <2>2, <3>9
      <4>2. active[u] \in Breaches \ {a} BY <3>5, <3>9, <4>1 DEF TickTypeOK
      <4> QED BY <2>1, <3>4, <3>9, <4>1, <4>2
    <3>10. TermsAreGiven' BY <2>1, <2>2, <2>3
    <3> QED BY <3>8, <3>9, <3>10
  <2> QED BY <2>5, <2>6
<1>7. CASE StopAlerts BY <1>7 DEF StopAlerts, storeVars, historyVars
<1> QED BY <1>1, <1>3, <1>4, <1>5, <1>6, <1>7, HandlerStep DEF HandlerStep

LEMMA BreachesCreate ==
  ASSUME TickTypeOK, BreachesHold, MonitorHolds, CreateBreach PROVE BreachesHold'
<1> USE DEF BreachesHold, BreachesAreJudged, ActiveIsStored, TermsAreGiven, Stored, IsOpen, OpenStatuses
<1> DEFINE t == monitor.trade
           b == lastBreach + 1
<1>0. \A c \in Breaches : Stored(c) => breach[c].trade \in Trades
  BY StoredIsRecord DEF BreachRecords
<1>1. b \in Breaches /\ ~ Stored(b) BY CreateBreach DEF CreateBreach, Breaches, TickTypeOK
<1>2. t \in Trades /\ IsBreach(monitor.listed[t], monitor.price) /\ IsOpen(t) /\ active[t] = None
  BY CreateBreach DEF CreateBreach, At, MonitorHolds, MonitorStates, TickTypeOK, MayBeBreached
<1>3. breach'[b] = [trade |-> t, price |-> monitor.price, response |-> "none", judgedBy |-> monitor.listed[t]]
  BY <1>1, CreateBreach DEF CreateBreach, TickTypeOK
<1>4. breach'[b] # NoBreach BY <1>3 DEF NoBreach
<1>5. \A c \in Breaches \ {b} : breach'[c] = breach[c] BY <1>1, CreateBreach DEF CreateBreach, TickTypeOK
<1>6. active'[t] = b /\ \A u \in Trades \ {t} : active'[u] = active[u]
  BY <1>2, CreateBreach DEF CreateBreach, TickTypeOK
<1>7. lastBreach' = b /\ UNCHANGED <<terms, status>> BY CreateBreach DEF CreateBreach
<1>8. restated \subseteq restated' /\ (b \notin restated' => terms[t] = monitor.listed[t])
  BY CreateBreach DEF CreateBreach
<1>9. \A c \in Breaches : Stored(c) => c # b /\ c <= b BY <1>1 DEF TickTypeOK, Breaches
<1>10. \A u \in Trades : active[u] # b BY <1>1 DEF None, Breaches
<1>11. ASSUME NEW c \in Breaches, Stored(c)' PROVE
            /\ c <= lastBreach'
            /\ terms'[breach'[c].trade] # NoTerms
            /\ IsBreach(breach'[c].judgedBy, breach'[c].price)
            /\ c \notin restated' => terms'[breach'[c].trade] = breach'[c].judgedBy
            /\ breach'[c].response = "none" <=> active'[breach'[c].trade] = c
            /\ breach'[c].response = "closed" => status'[breach'[c].trade] = "CLOSED"
  <2>1. CASE c = b BY <2>1, <1>1, <1>2, <1>3, <1>6, <1>7, <1>8 DEF Breaches, IsBreach
  <2>2. CASE c # b
    <3>1. Stored(c) /\ breach'[c] = breach[c] BY <1>5, <1>11, <2>2
    <3>2. breach[c].trade = t => breach[c].response # "none"
      BY <3>1, <1>2 DEF None, Breaches
    <3> QED BY <1>0, <2>2, <3>1, <3>2, <1>6, <1>7, <1>8, <1>9
  <2> QED BY <2>1, <2>2
<1>12. ASSUME NEW u \in Trades, active'[u] # None
       PROVE  status'[u] \in OpenStatuses /\ breach'[active'[u]] # NoBreach /\ breach'[active'[u]].trade = u
  <2>1. CASE u = t BY <2>1, <1>2, <1>3, <1>4, <1>6, <1>7
  <2>2. CASE u # t
    <3>1. active'[u] = active[u] /\ active[u] \in Breaches \ {b}
      BY <1>6, <1>10, <1>12, <2>2 DEF TickTypeOK
    <3> QED BY <1>5, <1>7, <1>12, <3>1
  <2> QED BY <2>1, <2>2
<1>13. BreachesAreJudged' BY <1>11
<1>14. ActiveIsStored' BY <1>12
<1>15. TermsAreGiven' BY <1>7
<1> QED BY <1>13, <1>14, <1>15

LEMMA BreachesStep ==
  ASSUME TickTypeOK, BreachesHold, MonitorHolds, [TickNext]_tickVars PROVE BreachesHold'
<1>1. CASE HandlerStep BY <1>1, BreachesHandler
<1>2. CASE CreateBreach BY <1>2, BreachesCreate
<1>3. CASE UNCHANGED <<status, terms, active, breach, lastBreach, restated>>
  BY <1>3 DEF BreachesHold, BreachesAreJudged, ActiveIsStored, TermsAreGiven, Stored, IsOpen
<1>4. ~ HandlerStep /\ ~ CreateBreach => UNCHANGED <<status, terms, active, breach, lastBreach, restated>>
  BY DEF TickNext, MonitorStep, ReceiveTick, ListTrades, FinishTick, LookAt, Create, BreachRefused, Arm,
     Announced, TickFails, PriceMoves, LoopSends, LoopWritesBack, ProcessDies, ResumeState,
     tickVars, storeVars, historyVars
<1> QED BY <1>1, <1>2, <1>3, <1>4

(* A breach, once stored, keeps its trade, price and terms; edits add up.    *)
LEMMA StoredStays ==
  ASSUME TickTypeOK, BreachesHold, [TickNext]_tickVars, NEW b \in Breaches, Stored(b)
  PROVE  /\ Stored(b)'
         /\ breach'[b].trade = breach[b].trade
         /\ breach'[b].price = breach[b].price
         /\ breach'[b].judgedBy = breach[b].judgedBy
         /\ restated \subseteq restated'
<1>1. ASSUME NEW t \in Trades, NEW r \in {"justified", "closed"},
             breach' = [breach EXCEPT ![active[t]].response = r] \/ breach' = breach
      PROVE  /\ breach'[b].trade = breach[b].trade
             /\ breach'[b].price = breach[b].price
             /\ breach'[b].judgedBy = breach[b].judgedBy
             /\ breach'[b] # NoBreach
  <2>1. breach[b] \in BreachRecords BY StoredIsRecord
  <2>2. breach'[b] = breach[b] \/ breach'[b] = [breach[b] EXCEPT !.response = r]
    BY <1>1 DEF TickTypeOK
  <2> QED BY <2>1, <2>2, Stored(b) DEF BreachRecords, NoBreach, Stored
<1>2. CASE HandlerStep
  <2>1. restated \subseteq restated'
    BY <1>2 DEF HandlerStep, NewTrade, EditTrade, EditClosed, Justify, Close, StopAlerts, historyVars
  <2>2. ASSUME NEW t \in Trades, Justify(t)
        PROVE  breach' = [breach EXCEPT ![active[t]].response = "justified"]
    BY <2>2 DEF Justify
  <2>3. ASSUME NEW t \in Trades, NEW price \in Prices, Close(t, price)
        PROVE  breach' = [breach EXCEPT ![active[t]].response = "closed"] \/ breach' = breach
    BY <2>3 DEF Close
  <2>4. (\A t \in Trades : ~ Justify(t) /\ \A price \in Prices : ~ Close(t, price)) => breach' = breach
    BY <1>2 DEF HandlerStep, NewTrade, EditTrade, EditClosed, StopAlerts, storeVars
  <2> QED BY <1>1, <2>1, <2>2, <2>3, <2>4 DEF Stored
<1>3. CASE CreateBreach
  <2>1. b # lastBreach + 1 BY DEF BreachesHold, BreachesAreJudged, TickTypeOK
  <2>2. breach'[b] = breach[b] BY <1>3, <2>1 DEF CreateBreach, TickTypeOK
  <2> QED BY <1>3, <2>2 DEF CreateBreach, Stored
<1>4. CASE UNCHANGED <<breach, restated>> BY <1>4 DEF Stored
<1>5. ~ HandlerStep /\ ~ CreateBreach => UNCHANGED <<breach, restated>>
  BY DEF TickNext, MonitorStep, ReceiveTick, ListTrades, FinishTick, LookAt, Create, BreachRefused, Arm,
     Announced, TickFails, PriceMoves, LoopSends, LoopWritesBack, ProcessDies, ResumeState,
     tickVars, storeVars, historyVars
<1> QED BY <1>2, <1>3, <1>4, <1>5

-----------------------------------------------------------------------------
(* What the alerts quote.                                                    *)

(* A sequence that differs from a quoting one in its price quotes as well.   *)
LEMMA QuotesStay ==
  ASSUME TickTypeOK, BreachesHold, [TickNext]_tickVars, NEW b \in Breaches, NEW s, NEW was,
         Quotes(was, b), s.terms = was.terms, s.from = was.from
  PROVE  Quotes(s, b)'
  BY StoredStays DEF Quotes

LEMMA QuotesNoted ==
  ASSUME TickTypeOK, BreachesHold, SequencesQuote, [TickNext]_tickVars, NEW b \in Breaches,
         armed'[b] = armed[b] \/ (Armed(b) /\ armed'[b] = [armed[b] EXCEPT !.price = monitor.price]),
         Armed(b)'
  PROVE  Quotes(armed[b], b)'
<1>1. Armed(b) BY DEF Armed
<1>2. armed'[b].terms = armed[b].terms /\ armed'[b].from = armed[b].from
  BY <1>1, ArmedIsSequence DEF Sequences
<1> QED BY <1>1, <1>2, QuotesStay DEF SequencesQuote, Quotes

LEMMA QuotesStep ==
  ASSUME TickTypeOK, BreachesHold, MonitorHolds, SequencesQuote, [TickNext]_tickVars
  PROVE  SequencesQuote'
<1>1. ASSUME NEW b \in Breaches, Armed(b)' PROVE Quotes(armed[b], b)'
  <2>1. CASE armed'[b] = armed[b] BY <1>1, <2>1, QuotesNoted
  <2>2. CASE StopAlerts
    <3>1. armed'[b] \in {armed[b], NoSequence} BY <2>2 DEF StopAlerts, TickTypeOK
    <3> QED BY <1>1, <2>1, <3>1 DEF Armed
  <2>3. ASSUME NEW t \in Trades, LookAt(t) PROVE Quotes(armed[b], b)'
    <3>1. armed'[b] = armed[b] \/ (Armed(b) /\ armed'[b] = [armed[b] EXCEPT !.price = monitor.price])
      BY <2>3 DEF LookAt, PriceNoted
    <3> QED BY <1>1, <3>1, QuotesNoted
  <2>4. CASE Announced
    <3>1. armed'[b] = armed[b] \/ (Armed(b) /\ armed'[b] = [armed[b] EXCEPT !.price = monitor.price])
      BY <2>4 DEF Announced
    <3> QED BY <1>1, <3>1, QuotesNoted
  <2>5. CASE Arm
    <3>1. CASE b # monitor.breach BY <2>1, <2>5, <3>1 DEF Arm, TickTypeOK
    <3>2. CASE b = monitor.breach
      <4>1. Stored(b) /\ breach[b].judgedBy = monitor.listed[monitor.trade]
        BY <2>5, <3>2 DEF Arm, At, MonitorHolds
      <4>2. armed'[b].terms = monitor.listed[monitor.trade] BY <2>5, <3>2 DEF Arm, TickTypeOK
      <4> QED BY <4>1, <4>2, StoredStays DEF Quotes
    <3> QED BY <3>1, <3>2
  <2>6. CASE LoopWritesBack
    <3>1. armed'[b] = armed[b] \/ (b = sending.breach /\ armed'[b] = sending.was /\ sending # NotSending)
      BY <2>6 DEF LoopWritesBack, TickTypeOK
    <3> QED BY <2>1, <3>1, QuotesStay DEF SequencesQuote, Quotes
  <2>7. CASE ProcessDies BY <1>1, <2>7 DEF ProcessDies, Armed
  <2>8. CASE ResumeState
    <3>1. /\ Stored(b) /\ armed'[b] = [terms |-> terms[breach[b].trade], price |-> breach[b].price, from |-> "resume"]
      BY <1>1, <2>8 DEF ResumeState, Armed
    <3>2. b \notin restated => terms[breach[b].trade] = breach[b].judgedBy
      BY <3>1 DEF BreachesHold, BreachesAreJudged
    <3>3. restated' = restated BY <2>8 DEF ResumeState, historyVars
    <3> QED BY <3>1, <3>2, <3>3, StoredStays DEF Quotes
  <2>9. armed'[b] = armed[b] \/ StopAlerts \/ (\E t \in Trades : LookAt(t)) \/ Announced \/ Arm
          \/ LoopWritesBack \/ ProcessDies \/ ResumeState
    BY DEF TickNext, HandlerStep, NewTrade, EditTrade, EditClosed, Justify, Close, MonitorStep, ReceiveTick,
       ListTrades, FinishTick, Create, CreateBreach, BreachRefused, TickFails, PriceMoves, LoopSends,
       tickVars, memoryVars
  <2> QED BY <2>1, <2>2, <2>3, <2>4, <2>5, <2>6, <2>7, <2>8, <2>9
<1>2. ASSUME sending' # NotSending PROVE Quotes(sending.was, sending.breach)'
  <2>1. CASE sending' = sending
    <3>1. sending.breach \in Breaches BY <1>2, <2>1 DEF TickTypeOK
    <3> QED BY <1>2, <2>1, <3>1, QuotesStay DEF SequencesQuote, Quotes
  <2>2. ASSUME NEW b \in Breaches, LoopSends(b) PROVE Quotes(sending.was, sending.breach)'
    <3>1. sending'.breach = b /\ sending'.was = armed[b] /\ Armed(b) BY <2>2 DEF LoopSends
    <3> QED BY <3>1, QuotesStay DEF SequencesQuote, Quotes
  <2>3. sending' = sending \/ (\E b \in Breaches : LoopSends(b))
    BY <1>2 DEF TickNext, HandlerStep, NewTrade, EditTrade, EditClosed, Justify, Close, StopAlerts,
       MonitorStep, ReceiveTick, ListTrades, FinishTick, LookAt, Create, CreateBreach, BreachRefused, Arm,
       Announced, TickFails, PriceMoves, LoopWritesBack, ProcessDies, ResumeState, tickVars, memoryVars
  <2> QED BY <2>1, <2>2, <2>3
<1> QED BY <1>1, <1>2 DEF SequencesQuote

-----------------------------------------------------------------------------
(* What the monitor has read, and what it has done with it.                  *)

MonitorKnows == MonitorHolds /\ BreachIsFound

(* A trade that is no longer open, or no longer breached, has been answered. *)
LEMMA AnsweredStays ==
  ASSUME TickTypeOK, BreachesHold, [TickNext]_tickVars, NEW t \in Trades, ~ ListTrades
  PROVE  /\ IsOpen(t) => IsOpen(t)' \/ t \in answered'
         /\ active[t] # None => active'[t] # None \/ t \in answered'
         /\ answered \subseteq answered'
<1> USE DEF IsOpen, OpenStatuses
<1>1. CASE HandlerStep
  <2>1. ASSUME NEW u \in Trades, NEW x \in AnyTerms, NewTrade(u, x)
        PROVE  (status'[t] = status[t] \/ status'[t] = "OPEN") /\ UNCHANGED <<active, answered>>
    BY <2>1 DEF NewTrade, TickTypeOK, historyVars
  <2>2. ASSUME NEW u \in Trades, Justify(u)
        PROVE  /\ status'[t] = status[t] \/ status'[t] = "OPEN_OVERRIDE"
               /\ active'[t] = active[t] \/ t \in answered'
               /\ answered \subseteq answered'
    BY <2>2 DEF Justify, TickTypeOK
  <2>3. ASSUME NEW u \in Trades, NEW price \in Prices, Close(u, price)
        PROVE  /\ status'[t] = status[t] \/ t \in answered'
               /\ active'[t] = active[t] \/ t \in answered'
               /\ answered \subseteq answered'
    BY <2>3 DEF Close, TickTypeOK
  <2>4. ASSUME NEW u \in Trades, NEW x \in AnyTerms,
               EditTrade(u, x) \/ \E price \in Prices : EditClosed(u, x, price)
        PROVE  UNCHANGED <<status, active, answered>>
    BY <2>4 DEF EditTrade, EditClosed
  <2>5. CASE StopAlerts BY <2>5 DEF StopAlerts, storeVars, historyVars
  <2> QED BY <1>1, <2>1, <2>2, <2>3, <2>4, <2>5 DEF HandlerStep
<1>2. CASE CreateBreach
  <2>1. lastBreach + 1 # None BY DEF TickTypeOK, None
  <2> QED BY <1>2, <2>1 DEF CreateBreach, TickTypeOK
<1>3. CASE UNCHANGED <<status, active, answered>> BY <1>3
<1>4. ~ HandlerStep /\ ~ CreateBreach => UNCHANGED <<status, active, answered>>
  BY DEF TickNext, MonitorStep, ReceiveTick, FinishTick, LookAt, Create, BreachRefused, Arm,
     Announced, TickFails, PriceMoves, LoopSends, LoopWritesBack, ProcessDies, ResumeState,
     tickVars, storeVars, historyVars
<1> QED BY <1>1, <1>2, <1>3, <1>4

(* The two conditions agree where levels and prices are numbers.             *)
LEMMA BeyondIsBreach ==
  ASSUME NEW x \in Terms, NEW price \in Prices PROVE Beyond(x, price) <=> IsBreach(x, price)
<1>1. x.level \in Nat /\ price \in Nat BY DEF Terms, AnyTerms
<1> QED BY <1>1 DEF Beyond, IsBreach

(* Whoever steps, a monitor that stands still knows what it knew.            *)
LEMMA MonitorStands ==
  ASSUME TickTypeOK, BreachesHold, MonitorKnows, [TickNext]_tickVars,
         UNCHANGED monitor, ~ ListTrades, app' = "booting" => monitor' = IdleMonitor /\ sending' = NotSending
  PROVE  MonitorKnows'
<1> USE DEF MonitorKnows
<1>1. \A t \in Trades : IsOpen(t) \/ t \in answered => IsOpen(t)' \/ t \in answered'
  BY AnsweredStays
<1>2. \A t \in Trades : active[t] # None \/ t \in answered => active'[t] # None \/ t \in answered'
  BY AnsweredStays
<1>3. \A b \in Breaches : Stored(b) => Stored(b)' /\ breach'[b].trade = breach[b].trade
                                      /\ breach'[b].judgedBy = breach[b].judgedBy
  BY StoredStays
<1>4. monitor.left \subseteq Trades BY DEF TickTypeOK, MonitorStates
<1>5. MonitorHolds' BY <1>1, <1>2, <1>3, <1>4 DEF MonitorHolds, IsBreach
<1>6. BreachIsFound' BY <1>2 DEF BreachIsFound, Beyond
<1> QED BY <1>5, <1>6

LEMMA MonitorRuns ==
  ASSUME TickTypeOK, BreachesHold, MonitorKnows, MonitorStep \/ TickFails
  PROVE  MonitorKnows'
<1> USE DEF MonitorKnows
<1>1. ASSUME monitor' = IdleMonitor \/ (monitor'.pc = "listing" /\ monitor'.left = {}), app' = "running"
      PROVE  MonitorKnows'
  BY <1>1 DEF IdleMonitor, MonitorHolds, BreachIsFound
<1>2. CASE ReceiveTick
  <2>1. monitor'.pc = "listing" /\ monitor'.left = {} BY <1>2 DEF ReceiveTick, IdleMonitor
  <2> QED BY <1>1, <1>2, <2>1 DEF ReceiveTick, At
<1>3. CASE FinishTick \/ TickFails BY <1>1, <1>3 DEF FinishTick, TickFails, At
<1>4. CASE ListTrades
  <2>1. /\ monitor'.pc = "looking"
        /\ monitor'.left = {t \in Trades : IsOpen(t)}
        /\ monitor'.listed = [t \in Trades |-> IF IsOpen(t) THEN terms[t] ELSE NoTerms]
    BY <1>4 DEF ListTrades, TickTypeOK, MonitorStates
  <2>2. UNCHANGED <<status, terms, active, app>> BY <1>4 DEF ListTrades, storeVars
  <2>3. \A t \in Trades : IsOpen(t) => terms[t] # NoTerms
    BY DEF BreachesHold, TermsAreGiven, IsOpen, OpenStatuses
  <2>4. MonitorHolds' BY <1>4, <2>1, <2>2, <2>3 DEF ListTrades, At, MonitorHolds, IsOpen
  <2>5. BreachIsFound' BY <2>1 DEF BreachIsFound
  <2> QED BY <2>4, <2>5
<1>5. ASSUME NEW t \in Trades, LookAt(t) PROVE MonitorKnows'
  <2>1. monitor.listed[t] \in Terms /\ monitor.price \in Prices
    BY <1>5 DEF LookAt, At, MonitorHolds, TickTypeOK, MonitorStates
  <2>2. UNCHANGED <<status, active, app, answered, breach>>
    BY <1>5 DEF LookAt, storeVars, historyVars
  <2>3. monitor.pc = "looking" /\ t \in monitor.left /\ app = "running" BY <1>5 DEF LookAt, At
  <2>4. CASE IsBreach(monitor.listed[t], monitor.price)
    <3>1. /\ monitor'.pc = "creating" /\ monitor'.trade = t
          /\ monitor'.listed = monitor.listed /\ monitor'.left = monitor.left /\ monitor'.price = monitor.price
      BY <1>5, <2>4 DEF LookAt, TickTypeOK, MonitorStates
    <3>2. MonitorHolds' BY <2>2, <2>3, <2>4, <3>1 DEF MonitorHolds, IsOpen, IsBreach
    <3>3. BreachIsFound' BY <2>2, <2>3, <3>1 DEF BreachIsFound, Beyond
    <3> QED BY <3>2, <3>3
  <2>5. CASE ~ IsBreach(monitor.listed[t], monitor.price)
    <3>1. /\ monitor'.pc = "looking" /\ monitor'.listed = monitor.listed
          /\ monitor'.left = monitor.left \ {t} /\ monitor'.price = monitor.price
      BY <1>5, <2>3, <2>5 DEF LookAt, TickTypeOK, MonitorStates
    <3>2. ~ Beyond(monitor.listed[t], monitor.price) BY <2>1, <2>5, BeyondIsBreach
    <3>3. MonitorHolds' BY <2>2, <2>3, <3>1 DEF MonitorHolds, IsOpen
    <3>4. BreachIsFound' BY <2>2, <2>3, <3>1, <3>2 DEF BreachIsFound, Beyond
    <3> QED BY <3>3, <3>4
  <2> QED BY <2>4, <2>5
<1>6. ASSUME MonitorMovesOn, At("creating") \/ At("announcing"), UNCHANGED <<status, active, app, answered>>,
             active[monitor.trade] # None \/ monitor.trade \in answered
      PROVE  MonitorKnows'
  <2>1. /\ monitor'.pc = "looking" /\ monitor'.listed = monitor.listed
        /\ monitor'.left = monitor.left \ {monitor.trade} /\ monitor'.price = monitor.price
    BY <1>6 DEF MonitorMovesOn, TickTypeOK, MonitorStates
  <2>2. monitor.pc \in {"creating", "announcing"} /\ app = "running" BY <1>6 DEF At
  <2>3. MonitorHolds' BY <1>6, <2>1, <2>2 DEF MonitorHolds, IsOpen
  <2>4. BreachIsFound' BY <1>6, <2>1, <2>2 DEF BreachIsFound, Beyond
  <2> QED BY <2>3, <2>4
<1>7. CASE BreachRefused
  <2> DEFINE t == monitor.trade
  <2>1. t \in Trades /\ monitor.listed[t] # NoTerms /\ monitor.pc = "creating"
    BY <1>7 DEF BreachRefused, At, MonitorHolds, TickTypeOK, MonitorStates
  <2>2. IsOpen(t) \/ t \in answered BY <2>1 DEF MonitorHolds
  <2>3. active[t] # None \/ t \in answered BY <1>7, <2>2 DEF BreachRefused, MayBeBreached
  <2> QED BY <1>6, <1>7, <2>3 DEF BreachRefused, storeVars, historyVars
<1>8. CASE Announced
  <2>1. active[monitor.trade] # None \/ monitor.trade \in answered
    BY <1>8 DEF Announced, At, MonitorHolds
  <2> QED BY <1>6, <1>8, <2>1 DEF Announced, storeVars, historyVars
<1>9. CASE CreateBreach
  <2> DEFINE t == monitor.trade
             b == lastBreach + 1
  <2>1. /\ monitor'.pc = "arming" /\ monitor'.breach = b /\ monitor'.trade = t
        /\ monitor'.listed = monitor.listed /\ monitor'.left = monitor.left /\ monitor'.price = monitor.price
    BY <1>9 DEF CreateBreach, TickTypeOK, MonitorStates
  <2>2. b \in Breaches /\ b # None BY <1>9 DEF CreateBreach, Breaches, TickTypeOK, None
  <2>3. t \in Trades BY <1>9 DEF CreateBreach, At, MonitorHolds, TickTypeOK, MonitorStates
  <2>4. breach'[b] = [trade |-> t, price |-> monitor.price, response |-> "none", judgedBy |-> monitor.listed[t]]
    BY <1>9, <2>2 DEF CreateBreach, TickTypeOK
  <2>5. breach'[b] # NoBreach /\ breach'[b].trade = t /\ breach'[b].judgedBy = monitor.listed[t]
    BY <2>4 DEF NoBreach
  <2>6. active'[t] = b /\ \A u \in Trades \ {t} : active'[u] = active[u]
    BY <1>9, <2>3 DEF CreateBreach, TickTypeOK
  <2>7. UNCHANGED <<status, app, answered>> /\ monitor.pc = "creating" /\ app = "running"
    BY <1>9 DEF CreateBreach, At
  <2>8. MonitorHolds'
    BY <2>1, <2>2, <2>3, <2>5, <2>6, <2>7 DEF MonitorHolds, IsOpen, IsBreach, Stored
  <2>9. BreachIsFound' BY <2>1, <2>2, <2>6, <2>7 DEF BreachIsFound, Beyond
  <2> QED BY <2>8, <2>9
<1>10. CASE Arm
  <2>1. /\ monitor'.pc = "announcing" /\ monitor'.breach = monitor.breach /\ monitor'.trade = monitor.trade
        /\ monitor'.listed = monitor.listed /\ monitor'.left = monitor.left /\ monitor'.price = monitor.price
    BY <1>10 DEF Arm, TickTypeOK, MonitorStates
  <2>2. UNCHANGED <<status, active, breach, app, answered>> /\ monitor.pc = "arming" /\ app = "running"
    BY <1>10 DEF Arm, At, storeVars, historyVars
  <2>3. MonitorHolds' BY <2>1, <2>2 DEF MonitorHolds, IsOpen, IsBreach, Stored
  <2>4. BreachIsFound' BY <2>1, <2>2 DEF BreachIsFound, Beyond
  <2> QED BY <2>3, <2>4
<1> QED BY <1>2, <1>3, <1>4, <1>5, <1>7, <1>8, <1>9, <1>10 DEF MonitorStep, Create

LEMMA MonitorKnowsStep ==
  ASSUME TickTypeOK, BreachesHold, MonitorKnows, [TickNext]_tickVars PROVE MonitorKnows'
<1>1. CASE MonitorStep \/ TickFails BY <1>1, MonitorRuns
<1>2. CASE ProcessDies
  BY <1>2 DEF ProcessDies, MonitorKnows, MonitorHolds, BreachIsFound, IdleMonitor
<1>3. CASE ~ MonitorStep /\ ~ TickFails /\ ~ ProcessDies
  <2>1. UNCHANGED monitor
    BY <1>3 DEF TickNext, HandlerStep, NewTrade, EditTrade, EditClosed, Justify, Close, StopAlerts, PriceMoves,
       LoopSends, LoopWritesBack, ResumeState, tickVars, memoryVars
  <2>2. app' = "booting" => app = "booting" /\ sending' = sending
    BY <1>3 DEF TickNext, HandlerStep, HandlerFree, NewTrade, EditTrade, EditClosed, Justify, Close, StopAlerts,
       PriceMoves, LoopSends, LoopWritesBack, ResumeState, tickVars, memoryVars
  <2>3. app' = "booting" => monitor' = IdleMonitor /\ sending' = NotSending
    BY <2>1, <2>2 DEF MonitorKnows, MonitorHolds
  <2>4. ~ ListTrades BY <1>3 DEF MonitorStep
  <2> QED BY <2>1, <2>3, <2>4, MonitorStands
<1> QED BY <1>1, <1>2, <1>3

-----------------------------------------------------------------------------
(* Which breaches are armed.                                                 *)

(* A step of the tick that only notes prices begins and ends no sequence.    *)
LEMMA NotedStaysArmed ==
  ASSUME TickTypeOK, NEW b \in Breaches,
         armed'[b] = armed[b] \/ (Armed(b) /\ armed'[b] = [armed[b] EXCEPT !.price = monitor.price])
  PROVE  Armed(b)' <=> Armed(b)
<1>1. ASSUME Armed(b), armed'[b] = [armed[b] EXCEPT !.price = monitor.price] PROVE Armed(b)'
  <2>1. armed'[b].from \in {"tick", "resume"} BY <1>1, ArmedIsSequence DEF Sequences
  <2> QED BY <2>1 DEF Armed, NoSequence
<1> QED BY <1>1 DEF Armed

(* Four steps change which breaches are armed, and each says how.            *)
LEMMA ArmedChanges ==
  ASSUME TickTypeOK, MonitorHolds, [TickNext]_tickVars, NEW b \in Breaches
  PROVE  \/ StopAlerts /\ (Armed(b)' <=> Armed(b) /\ b # toStop)
         \/ Arm /\ (Armed(b)' <=> Armed(b) \/ b = monitor.breach)
         \/ ProcessDies /\ ~ Armed(b)'
         \/ ResumeState /\ (Armed(b)' <=> /\ Stored(b) /\ breach[b].response = "none"
                                          /\ IsOpen(breach[b].trade))
         \/ ~ StopAlerts /\ ~ Arm /\ ~ ProcessDies /\ ~ ResumeState /\ (Armed(b)' <=> Armed(b))
<1>1. CASE StopAlerts BY <1>1 DEF StopAlerts, Armed, TickTypeOK
<1>2. CASE Arm
  <2> DEFINE s == [terms |-> monitor.listed[monitor.trade], price |-> monitor.price, from |-> "tick"]
  <2>1. s # NoSequence BY DEF NoSequence
  <2>2. armed'[b] = IF b = monitor.breach THEN s ELSE armed[b] BY <1>2 DEF Arm, TickTypeOK
  <2> QED BY <1>2, <2>1, <2>2 DEF Armed
<1>3. CASE ProcessDies BY <1>3 DEF ProcessDies, Armed
<1>4. CASE ResumeState
  <2> DEFINE s == [terms |-> terms[breach[b].trade], price |-> breach[b].price, from |-> "resume"]
             c == Stored(b) /\ breach[b].response = "none" /\ IsOpen(breach[b].trade)
  <2>1. s # NoSequence BY DEF NoSequence
  <2>2. armed'[b] = IF c THEN s ELSE NoSequence BY <1>4 DEF ResumeState
  <2> QED BY <1>4, <2>1, <2>2 DEF Armed
<1>5. CASE ~ StopAlerts /\ ~ Arm /\ ~ ProcessDies /\ ~ ResumeState
  <2>1. ASSUME NEW t \in Trades, LookAt(t) PROVE Armed(b)' <=> Armed(b)
    BY <2>1, NotedStaysArmed DEF LookAt, PriceNoted
  <2>2. ASSUME Announced PROVE Armed(b)' <=> Armed(b) BY <2>2, NotedStaysArmed DEF Announced
  <2>3. ASSUME LoopWritesBack PROVE Armed(b)' <=> Armed(b)
    <3>1. armed'[b] = armed[b] \/ (Armed(b) /\ armed'[b] = sending.was /\ sending # NotSending)
      BY <2>3 DEF LoopWritesBack, TickTypeOK
    <3>2. sending # NotSending => sending.was # NoSequence
      BY DEF TickTypeOK, Sequences, NoSequence
    <3> QED BY <3>1, <3>2 DEF Armed
  <2>4. ASSUME armed' = armed PROVE Armed(b)' <=> Armed(b) BY <2>4 DEF Armed
  <2>5. armed' = armed \/ (\E t \in Trades : LookAt(t)) \/ Announced \/ LoopWritesBack
    BY <1>5 DEF TickNext, HandlerStep, NewTrade, EditTrade, EditClosed, Justify, Close, MonitorStep, ReceiveTick,
       ListTrades, FinishTick, Create, CreateBreach, BreachRefused, TickFails, PriceMoves, LoopSends,
       tickVars, memoryVars
  <2> QED BY <1>5, <2>1, <2>2, <2>3, <2>4, <2>5
<1> QED BY <1>1, <1>2, <1>3, <1>4, <1>5

(* What the steps of the store do to the unanswered breaches.                *)
LEMMA ActiveChanges ==
  ASSUME TickTypeOK, BreachesHold, MonitorHolds, [TickNext]_tickVars
  PROVE  \/ \E t \in Trades : Justify(t) \/ \E price \in Prices : Close(t, price)
         \/ CreateBreach
         \/ UNCHANGED <<active, breach>>
  BY DEF TickNext, HandlerStep, NewTrade, EditTrade, EditClosed, StopAlerts, MonitorStep, ReceiveTick,
     ListTrades, FinishTick, LookAt, Create, BreachRefused, Arm, Announced, TickFails, PriceMoves, LoopSends,
     LoopWritesBack, ProcessDies, ResumeState, tickVars, storeVars

(* An answer clears the trade it is given to, and no other.                  *)
LEMMA AnswerWrites ==
  ASSUME TickTypeOK, BreachesHold, NEW t \in Trades, NEW r \in {"justified", "closed"},
         active[t] # None,
         breach' = [breach EXCEPT ![active[t]].response = r],
         active' = [active EXCEPT ![t] = None]
  PROVE  /\ active[t] \in Breaches
         /\ breach[active[t]].response = "none"
         /\ breach'[active[t]].response = r
         /\ \A b \in Breaches : b # active[t] => breach'[b] = breach[b]
         /\ \A u \in Trades : u # t => active'[u] = active[u]
         /\ active'[t] = None
<1>1. active[t] \in Breaches /\ Stored(active[t]) /\ breach[active[t]].trade = t
  BY DEF BreachesHold, ActiveIsStored, TickTypeOK
<1>2. breach[active[t]] \in BreachRecords BY <1>1, StoredIsRecord
<1>3. breach'[active[t]] = [breach[active[t]] EXCEPT !.response = r] BY <1>1 DEF TickTypeOK
<1>4. breach'[active[t]].response = r BY <1>2, <1>3 DEF BreachRecords
<1>5. breach[active[t]].response = "none" BY <1>1 DEF BreachesHold, BreachesAreJudged
<1> QED BY <1>1, <1>4, <1>5 DEF TickTypeOK

(* Of a trade the handler answers, by what it does to the store.             *)
LEMMA AnswerSteps ==
  ASSUME NEW t \in Trades, Justify(t) \/ \E price \in Prices : Close(t, price)
  PROVE  /\ active' = [active EXCEPT ![t] = None]
         /\ active[t] # None =>
               \/ breach' = [breach EXCEPT ![active[t]].response = "justified"]
               \/ breach' = [breach EXCEPT ![active[t]].response = "closed"]
         /\ active[t] = None => breach' = breach
         /\ toStop' \in {active[t], None}
         /\ app = "running" /\ toStop = None
         /\ UNCHANGED <<app, monitor, armed>>
  BY DEF Justify, Close, HandlerFree

(* The monitor goes on from "arming" by arming, if the process lives.        *)
LEMMA OwedStays ==
  ASSUME [TickNext]_tickVars, ~ Arm, ~ ProcessDies, monitor.pc = "arming" PROVE monitor' = monitor
  BY DEF TickNext, HandlerStep, NewTrade, EditTrade, EditClosed, Justify, Close, StopAlerts, MonitorStep,
     ReceiveTick, ListTrades, FinishTick, LookAt, Create, CreateBreach, BreachRefused, Announced, TickFails,
     At, PriceMoves, LoopSends, LoopWritesBack, ResumeState, tickVars, memoryVars

LEMMA ActiveIsArmedStep ==
  ASSUME TickTypeOK, BreachesHold, MonitorHolds, ActiveIsArmed, [TickNext]_tickVars
  PROVE  ActiveIsArmed'
<1>0. None \notin Breaches BY DEF None, Breaches
<1>1. ASSUME NEW t \in Trades, Justify(t) \/ \E price \in Prices : Close(t, price)
      PROVE  ActiveIsArmed'
  <2>1. /\ active' = [active EXCEPT ![t] = None]
        /\ toStop' \in {active[t], None}
        /\ UNCHANGED <<app, monitor, armed>>
    BY <1>1, AnswerSteps
  <2>2. ASSUME NEW u \in Trades, active'[u] # None, app = "running"
        PROVE  Armed(active[u])' \/ active'[u] = Owed'
    <3>1. active'[u] = active[u] BY <2>1, <2>2 DEF TickTypeOK
    <3> QED BY <2>1, <2>2, <3>1 DEF ActiveIsArmed, Armed, Owed
  <2>3. ASSUME toStop' # None PROVE breach'[toStop'].response \in {"justified", "closed"}
    <3>1. active[t] # None /\ toStop' = active[t] BY <2>1, <2>3
    <3>2. PICK r \in {"justified", "closed"} : breach' = [breach EXCEPT ![active[t]].response = r]
      BY <1>1, <3>1, AnswerSteps
    <3> QED BY <2>1, <3>1, <3>2, AnswerWrites
  <2> QED BY <2>1, <2>2, <2>3 DEF ActiveIsArmed
<1>2. CASE CreateBreach
  <2> DEFINE b == lastBreach + 1
  <2>1. /\ b \in Breaches /\ ~ Stored(b) /\ monitor.trade \in Trades
        /\ monitor.pc = "creating" /\ app = "running"
    BY <1>2 DEF CreateBreach, At, Breaches, BreachesHold, BreachesAreJudged, TickTypeOK, MonitorHolds, MonitorStates
  <2>2. monitor'.pc = "arming" /\ monitor'.breach = b BY <1>2 DEF CreateBreach, TickTypeOK, MonitorStates
  <2>3. ASSUME NEW u \in Trades, active'[u] # None PROVE Armed(active[u])' \/ active'[u] = Owed'
    <3>1. CASE u = monitor.trade
      BY <1>2, <2>1, <2>2, <3>1 DEF CreateBreach, TickTypeOK, Owed
    <3>2. CASE u # monitor.trade
      <4>1. active'[u] = active[u] /\ armed' = armed BY <1>2, <3>2 DEF CreateBreach, TickTypeOK
      <4> QED BY <2>1, <2>3, <4>1 DEF ActiveIsArmed, Owed, Armed
    <3> QED BY <3>1, <3>2
  <2>4. ASSUME toStop # None PROVE breach'[toStop].response \in {"justified", "closed"}
    <3>1. toStop \in Breaches /\ toStop # b BY <2>1, <2>4 DEF ActiveIsArmed, TickTypeOK, Stored, NoBreach
    <3>2. breach'[toStop] = breach[toStop] BY <1>2, <3>1 DEF CreateBreach, TickTypeOK
    <3> QED BY <2>4, <3>2 DEF ActiveIsArmed
  <2>5. UNCHANGED <<app, toStop>> BY <1>2 DEF CreateBreach
  <2> QED BY <2>3, <2>4, <2>5 DEF ActiveIsArmed
<1>3. CASE UNCHANGED <<active, breach>> /\ \A t \in Trades : ~ (Justify(t) \/ \E price \in Prices : Close(t, price))
  <2>1. ASSUME NEW t \in Trades, active[t] # None, app' = "running"
        PROVE  Armed(active[t])' \/ active[t] = Owed'
    <3>0. PICK a \in Breaches : a = active[t] BY <2>1 DEF TickTypeOK
    <3>1. /\ a \in Breaches /\ Stored(a) /\ breach[a].response = "none"
          /\ breach[a].trade = t /\ IsOpen(t)
      BY <2>1, <3>0 DEF BreachesHold, BreachesAreJudged, ActiveIsStored, TickTypeOK
    <3>2. app = "running" \/ ResumeState
      BY <2>1 DEF TickNext, HandlerStep, HandlerFree, NewTrade, EditTrade, EditClosed, Justify, Close, StopAlerts,
         MonitorStep, ReceiveTick, ListTrades, FinishTick, LookAt, Create, CreateBreach, BreachRefused, Arm,
         Announced, TickFails, At, PriceMoves, LoopSends, LoopWritesBack, ProcessDies, tickVars
    <3>3. CASE StopAlerts
      <4>1. a # toStop BY <3>1, <3>3 DEF StopAlerts, ActiveIsArmed
      <4>2. Armed(a) \/ a = Owed BY <2>1, <3>0, <3>3 DEF StopAlerts, ActiveIsArmed
      <4>3. Armed(a)' <=> Armed(a) BY <3>1, <3>3, <4>1 DEF StopAlerts, Armed, TickTypeOK
      <4>4. monitor' = monitor BY <3>3 DEF StopAlerts
      <4> QED BY <1>3, <3>0, <4>2, <4>3, <4>4 DEF Owed
    <3>4. CASE Arm
      <4>1. Armed(a) \/ a = Owed BY <2>1, <3>0, <3>4 DEF Arm, At, ActiveIsArmed
      <4>2. Owed = monitor.breach BY <3>4 DEF Arm, At, Owed
      <4>3. Armed(a)' <=> Armed(a) \/ a = monitor.breach
        BY <3>1, <3>4 DEF Arm, Armed, NoSequence, TickTypeOK
      <4> QED BY <1>3, <3>0, <4>1, <4>2, <4>3
    <3>5. CASE ProcessDies BY <2>1, <3>5 DEF ProcessDies
    <3>6. CASE ResumeState
      <4>1. Armed(a)' <=> Stored(a) /\ breach[a].response = "none" /\ IsOpen(breach[a].trade)
        BY <3>1, <3>6 DEF ResumeState, Armed, NoSequence
      <4> QED BY <1>3, <3>0, <3>1, <4>1
    <3>7. CASE ~ StopAlerts /\ ~ Arm /\ ~ ProcessDies /\ ~ ResumeState
      <4>1. Armed(a) \/ a = Owed BY <2>1, <3>0, <3>2, <3>7 DEF ActiveIsArmed
      <4>2. Armed(a)' <=> Armed(a) BY <3>1, <3>7, ArmedChanges
      <4>3. a = Owed => Owed' = Owed BY <1>0, <3>1, <3>7, OwedStays DEF Owed
      <4> QED BY <1>3, <3>0, <4>1, <4>2, <4>3
    <3> QED BY <3>3, <3>4, <3>5, <3>6, <3>7
  <2>2. toStop' = toStop \/ toStop' = None
    BY <1>3 DEF TickNext, HandlerStep, NewTrade, EditTrade, EditClosed, StopAlerts,
       MonitorStep, ReceiveTick, ListTrades, FinishTick, LookAt, Create, CreateBreach, BreachRefused, Arm,
       Announced, TickFails, PriceMoves, LoopSends, LoopWritesBack, ProcessDies, ResumeState, tickVars, memoryVars
  <2> QED BY <1>3, <2>1, <2>2 DEF ActiveIsArmed
<1> QED BY <1>1, <1>2, <1>3, ActiveChanges

-----------------------------------------------------------------------------
(* The theorems.                                                             *)

LEMMA TickStart == TickInit => TickInvariant
<1> SUFFICES ASSUME TickInit PROVE TickInvariant
  OBVIOUS
<1>1. TickTypeOK BY StartTyped
<1>2. BreachesAreJudged /\ ActiveIsStored /\ TermsAreGiven
  BY DEF TickInit, BreachesAreJudged, ActiveIsStored, TermsAreGiven, Stored, NoBreach, NoTerms
<1>3. SequencesQuote BY DEF TickInit, SequencesQuote, Armed
<1>4. MonitorHolds /\ BreachIsFound BY DEF TickInit, MonitorHolds, BreachIsFound, IdleMonitor
<1>5. ActiveIsArmed BY DEF TickInit, ActiveIsArmed
<1> QED BY <1>1, <1>2, <1>3, <1>4, <1>5 DEF TickInvariant

LEMMA TickInductive == TickInvariant /\ [TickNext]_tickVars => TickInvariant'
<1> SUFFICES ASSUME TickInvariant, [TickNext]_tickVars PROVE TickInvariant'
  OBVIOUS
<1> USE DEF TickInvariant
<1>1. TickTypeOK' BY TickTyped
<1>2. BreachesHold' BY BreachesStep DEF BreachesHold
<1>3. SequencesQuote' BY QuotesStep DEF BreachesHold
<1>4. MonitorKnows' BY MonitorKnowsStep DEF BreachesHold, MonitorKnows
<1>5. ActiveIsArmed' BY ActiveIsArmedStep DEF BreachesHold
<1> QED BY <1>1, <1>2, <1>3, <1>4, <1>5 DEF BreachesHold, MonitorKnows

(* The store, the sequences, the snapshots and the monitor's listing agree   *)
(* on the tick a breach was made from.                                       *)
THEOREM TickInvariantHolds == TickSpec => []TickInvariant
<1> QED BY TickStart, TickInductive, PTL DEF TickSpec

(* No refusal of create_breach is a breach missed, and the breach it leans   *)
(* on is being alerted about.                                                *)
THEOREM NoBreachMissed == TickSpec => []NoBreachIsMissed
<1>1. TickInvariant => NoBreachIsMissed
  <2> SUFFICES ASSUME TickInvariant, NEW t \in Trades,
                      monitor.pc \notin {"idle", "listing"}, monitor.listed[t] # NoTerms,
                      t \notin monitor.left, Beyond(monitor.listed[t], monitor.price),
                      t \notin answered
               PROVE  active[t] # None /\ Armed(active[t])
    BY DEF NoBreachIsMissed
  <2>1. active[t] # None BY DEF TickInvariant, BreachIsFound
  <2>2. app = "running" BY DEF TickInvariant, TickTypeOK, MonitorHolds, IdleMonitor
  <2>3. breach[active[t]].trade = t BY <2>1 DEF TickInvariant, ActiveIsStored
  <2>4. active[t] # Owed
    <3>1. CASE monitor.pc = "arming"
      BY <2>3, <3>1 DEF TickInvariant, MonitorHolds, Owed
    <3> QED BY <2>1, <3>1 DEF Owed
  <2> QED BY <2>1, <2>2, <2>4 DEF TickInvariant, ActiveIsArmed
<1> QED BY <1>1, TickInvariantHolds, PTL

(* Alerts quote a level their breach has broken, and a breach is a loss.     *)
THEOREM AlertsQuoteBrokenLevels == TickSpec => []AlertQuotesBrokenLevel
<1>1. TickInvariant => AlertQuotesBrokenLevel
  <2> SUFFICES ASSUME TickInvariant, NEW b \in Breaches, Armed(b),
                      armed[b].from = "tick" \/ b \notin restated
               PROVE  /\ Stored(b)
                      /\ Beyond(armed[b].terms, breach[b].price)
                      /\ CurrentLoss(armed[b].terms, breach[b].price) > 0
    BY DEF AlertQuotesBrokenLevel
  <2> DEFINE x == breach[b].judgedBy
             p == breach[b].price
  <2>1. Stored(b) /\ armed[b].terms = x BY DEF TickInvariant, SequencesQuote, Quotes
  <2>2. x \in Terms /\ p \in Prices BY <2>1, StoredIsRecord DEF TickInvariant, BreachRecords
  <2>3. IsBreach(x, p) BY <2>1 DEF TickInvariant, BreachesAreJudged
  <2>4. x.level \in Nat /\ x.entry \in Nat /\ p \in Nat /\ OnItsSide(x) BY <2>2 DEF Terms, AnyTerms
  <2> HIDE DEF x, p
  <2>5. CurrentLoss(x, p) > 0 BY <2>3, <2>4 DEF CurrentLoss, IsBreach, OnItsSide
  <2> QED BY <2>1, <2>2, <2>3, <2>5, BeyondIsBreach DEF x, p
<1> QED BY <1>1, TickInvariantHolds, PTL

(* What compute_stats counts as adherence is adherence to the broken level.  *)
THEOREM AdherenceEarned == TickSpec => []AdherenceIsEarned
<1>1. TickInvariant => AdherenceIsEarned
  <2> SUFFICES ASSUME TickInvariant, NEW b \in AdherenceHits \ restated
               PROVE  LET x == breach[b].judgedBy
                      IN  /\ status[breach[b].trade] = "CLOSED"
                          /\ x.direction = "long" => ~ (closePrice[breach[b].trade] < x.level)
                          /\ x.direction = "short" => ~ (closePrice[breach[b].trade] > x.level)
    BY DEF AdherenceIsEarned
  <2> DEFINE x == breach[b].judgedBy
             p == closePrice[breach[b].trade]
  <2>1. b \in Breaches /\ Stored(b) /\ breach[b].response = "closed" /\ p # None
        /\ ClosedAtOrBetter(terms[breach[b].trade], p)
    BY DEF AdherenceHits
  <2>2. x \in Terms /\ breach[b].trade \in Trades
    BY <2>1, StoredIsRecord DEF TickInvariant, BreachRecords
  <2>3. terms[breach[b].trade] = x /\ status[breach[b].trade] = "CLOSED"
    BY <2>1 DEF TickInvariant, BreachesAreJudged
  <2>4. p \in Nat /\ x.level \in Nat /\ x.direction \in {"long", "short"}
    BY <2>1, <2>2 DEF TickInvariant, TickTypeOK, Terms, AnyTerms
  <2>5. ClosedAtOrBetter(x, p) BY <2>1, <2>3
  <2> HIDE DEF x, p
  <2>6. (x.direction = "long" => ~ (p < x.level)) /\ (x.direction = "short" => ~ (p > x.level))
    BY <2>4, <2>5 DEF ClosedAtOrBetter
  <2> QED BY <2>3, <2>6 DEF x, p
<1> QED BY <1>1, TickInvariantHolds, PTL
-----------------------------------------------------------------------------
(* The refinement of AlertingLifecycle.                                      *)

(* Writing one status field changes the phase of that trade alone.           *)
LEMMA PhaseUpdate ==
  ASSUME TickTypeOK, NEW t \in Trades, NEW s, status' = [status EXCEPT ![t] = s]
  PROVE  [u \in Trades |-> PhaseOf(status[u])]'
            = [[u \in Trades |-> PhaseOf(status[u])] EXCEPT ![t] = PhaseOf(s)]
<1>1. \A u \in Trades : status'[u] = IF u = t THEN s ELSE status[u] BY DEF TickTypeOK
<1>2. \A u \in Trades : PhaseOf(status'[u]) = IF u = t THEN PhaseOf(s) ELSE PhaseOf(status[u])
  BY <1>1
<1> QED BY <1>2, Zenon

(* So does answering one breach with its answer.                             *)
LEMMA AnswerUpdate ==
  ASSUME TickTypeOK, BreachesHold, NEW t \in Trades, NEW r \in {"justified", "closed"}, active[t] # None,
         breach' = [breach EXCEPT ![active[t]].response = r],
         active' = [active EXCEPT ![t] = None]
  PROVE  [b \in Breaches |-> AnswerOf(breach[b].response)]'
            = [[b \in Breaches |-> AnswerOf(breach[b].response)] EXCEPT ![active[t]] = r]
<1>1. PICK a \in Breaches : a = active[t] BY AnswerWrites
<1>2. \A b \in Breaches : AnswerOf(breach'[b].response) = IF b = a THEN r ELSE AnswerOf(breach[b].response)
  BY <1>1, AnswerWrites DEF AnswerOf
<1> QED BY <1>1, <1>2, Zenon

(* Storing a breach answers none.                                            *)
LEMMA CreateAnswersNone ==
  ASSUME TickTypeOK, BreachesHold, MonitorHolds, CreateBreach
  PROVE  /\ lastBreach + 1 \in Breaches
         /\ AnswerOf(breach[lastBreach + 1].response) = "unanswered"
         /\ [b \in Breaches |-> AnswerOf(breach[b].response)]'
              = [b \in Breaches |-> AnswerOf(breach[b].response)]
<1> DEFINE a == lastBreach + 1
<1>1. a \in Breaches /\ ~ Stored(a)
  BY DEF CreateBreach, Breaches, BreachesHold, BreachesAreJudged, TickTypeOK
<1>2. AnswerOf(breach[a].response) = "unanswered" BY <1>1 DEF Stored, NoBreach, AnswerOf
<1>3. breach'[a].response = "none" BY <1>1 DEF CreateBreach, TickTypeOK
<1>4. \A b \in Breaches : b # a => breach'[b] = breach[b] BY DEF CreateBreach, TickTypeOK
<1>5. \A b \in Breaches : AnswerOf(breach'[b].response) = AnswerOf(breach[b].response)
  BY <1>2, <1>3, <1>4 DEF AnswerOf
<1> QED BY <1>1, <1>2, <1>5

(* The steps that are invisible in the promise.                              *)
LEMMA PromiseStutters ==
  ASSUME \A b \in Breaches : Armed(b)' <=> Armed(b), Owed' = Owed, UNCHANGED <<status, active, breach, app>>
  PROVE  UNCHANGED Alerting!alertingLifecycleVars
<1>1. {b \in Breaches : Armed(b)}' = {b \in Breaches : Armed(b)} OBVIOUS
<1> QED BY <1>1 DEF Alerting!alertingLifecycleVars, Alerting!lifecycleVars, Alerting!alertVars

(* What a handler step does, in the terms of the promise.                    *)
LEMMA HandlerKeepsPromise ==
  ASSUME TickInvariant, [TickNext]_tickVars, HandlerStep
  PROVE  [Alerting!AlertingLifecycleNext]_(Alerting!alertingLifecycleVars)
<1> USE DEF TickInvariant
<1>h. BreachesHold BY DEF BreachesHold
<1>a. ASSUME armed' = armed, monitor' = monitor, app' = app
      PROVE  UNCHANGED Alerting!alertVars
  <2>1. {b \in Breaches : Armed(b)}' = {b \in Breaches : Armed(b)} BY <1>a DEF Armed
  <2> QED BY <1>a, <2>1 DEF Alerting!alertVars, Owed
<1>1. ASSUME NEW t \in Trades, NEW x \in AnyTerms, NewTrade(t, x)
      PROVE  Alerting!AlertingLifecycleNext
  <2>1. /\ status[t] = "MISSING" /\ status' = [status EXCEPT ![t] = "OPEN"] /\ app = "running"
        /\ UNCHANGED <<active, breach, app, armed, monitor>>
    BY <1>1 DEF NewTrade, HandlerFree, memoryVars
  <2>2. Alerting!OpenTrade(t) BY <2>1, PhaseUpdate DEF Alerting!OpenTrade, PhaseOf
  <2>3. Alerting!UserActs(t) BY <1>a, <2>1, <2>2 DEF Alerting!UserActs, Alerting!Running
  <2> QED BY <2>3 DEF Alerting!AlertingLifecycleNext
<1>2. ASSUME NEW t \in Trades, NEW x \in AnyTerms, EditTrade(t, x) \/ \E price \in Prices : EditClosed(t, x, price)
      PROVE  UNCHANGED Alerting!alertingLifecycleVars
  <2>1. UNCHANGED <<status, active, breach, app, armed, monitor>>
    BY <1>2 DEF EditTrade, EditClosed, memoryVars
  <2> QED BY <2>1, PromiseStutters DEF Armed, Owed
<1>3. ASSUME NEW t \in Trades, Justify(t) PROVE Alerting!AlertingLifecycleNext
  <2>1. PICK b \in Breaches : b = active[t] BY <1>3 DEF Justify, TickTypeOK
  <2>2. /\ IsOpen(t) /\ active[t] # None /\ app = "running"
        /\ status' = [status EXCEPT ![t] = "OPEN_OVERRIDE"]
        /\ breach' = [breach EXCEPT ![active[t]].response = "justified"]
        /\ active' = [active EXCEPT ![t] = None]
        /\ UNCHANGED <<app, armed, monitor>>
    BY <1>3 DEF Justify, HandlerFree
  <2>3. Alerting!JustifyBreach(t, b)
    BY <1>h, <2>1, <2>2, PhaseUpdate, AnswerUpdate
    DEF Alerting!JustifyBreach, Alerting!Live, PhaseOf, IsOpen, OpenStatuses
  <2>4. Alerting!UserActs(t) BY <1>a, <2>2, <2>3 DEF Alerting!UserActs, Alerting!Running
  <2> QED BY <2>4 DEF Alerting!AlertingLifecycleNext
<1>4. ASSUME NEW t \in Trades, NEW price \in Prices, Close(t, price) PROVE Alerting!AlertingLifecycleNext
  <2>1. /\ IsOpen(t) /\ app = "running"
        /\ status' = [status EXCEPT ![t] = "CLOSED"]
        /\ active' = [active EXCEPT ![t] = None]
        /\ UNCHANGED <<app, armed, monitor>>
    BY <1>4 DEF Close, HandlerFree
  <2>2. CASE active[t] = None
    <3>1. breach' = breach /\ active' = active BY <1>4, <2>1, <2>2 DEF Close, TickTypeOK
    <3>2. Alerting!CloseQuietTrade(t)
      BY <2>1, <2>2, <3>1, PhaseUpdate
      DEF Alerting!CloseQuietTrade, Alerting!Live, PhaseOf, IsOpen, OpenStatuses
    <3>3. Alerting!UserActs(t) BY <1>a, <2>1, <3>2 DEF Alerting!UserActs, Alerting!Running
    <3> QED BY <3>3 DEF Alerting!AlertingLifecycleNext
  <2>3. CASE active[t] # None
    <3>1. PICK b \in Breaches : b = active[t] BY <2>3 DEF TickTypeOK
    <3>2. breach' = [breach EXCEPT ![active[t]].response = "closed"] BY <1>4, <2>3 DEF Close
    <3>3. Alerting!CloseBreachedTrade(t, b)
      BY <1>h, <2>1, <2>3, <3>1, <3>2, PhaseUpdate, AnswerUpdate
      DEF Alerting!CloseBreachedTrade, Alerting!Live, PhaseOf, IsOpen, OpenStatuses
    <3>4. Alerting!UserActs(t) BY <1>a, <2>1, <3>3 DEF Alerting!UserActs, Alerting!Running
    <3> QED BY <3>4 DEF Alerting!AlertingLifecycleNext
  <2> QED BY <2>2, <2>3
<1>5. ASSUME StopAlerts PROVE Alerting!AlertingLifecycleNext
  <2>1. PICK b \in Breaches : b = toStop BY <1>5 DEF StopAlerts, TickTypeOK
  <2>2. UNCHANGED <<status, active, breach, app, monitor>> /\ app = "running" /\ toStop # None
    BY <1>5 DEF StopAlerts, storeVars
  <2>3. AnswerOf(breach[b].response) # "unanswered" BY <2>1, <2>2 DEF ActiveIsArmed, AnswerOf
  <2>4. \A c \in Breaches : Armed(c)' <=> Armed(c) /\ c # b
    BY <1>5, <2>1 DEF StopAlerts, Armed, TickTypeOK
  <2>5. {c \in Breaches : Armed(c)}' = {c \in Breaches : Armed(c)} \ {b} BY <2>4
  <2>6. Alerting!StopSequence(b)
    BY <2>2, <2>3, <2>5 DEF Alerting!StopSequence, Alerting!Running, Alerting!lifecycleVars, Owed
  <2> QED BY <2>6 DEF Alerting!AlertingLifecycleNext
<1> QED BY <1>1, <1>2, <1>3, <1>4, <1>5 DEF HandlerStep

(* What process_tick does that the promise speaks of.                        *)
LEMMA MonitorKeepsPromise ==
  ASSUME TickInvariant, CreateBreach \/ Arm
  PROVE  Alerting!AlertingLifecycleNext
<1> USE DEF TickInvariant
<1>h. BreachesHold BY DEF BreachesHold
<1>1. CASE CreateBreach
  <2>1. PICK t \in Trades, b \in Breaches : t = monitor.trade /\ b = lastBreach + 1
    BY <1>1, <1>h, CreateAnswersNone DEF CreateBreach, At, MonitorHolds, MonitorStates, TickTypeOK
  <2>2. /\ app = "running" /\ IsOpen(t) /\ active[t] = None /\ monitor.pc = "creating"
        /\ active' = [active EXCEPT ![t] = b]
        /\ monitor'.pc = "arming" /\ monitor'.breach = b
        /\ UNCHANGED <<status, app, armed>>
    BY <1>1, <2>1 DEF CreateBreach, At, MayBeBreached, TickTypeOK, MonitorStates
  <2>3. \A u \in Trades : active[u] # b
    <3>1. ~ Stored(b) BY <2>1 DEF BreachesAreJudged, TickTypeOK
    <3> QED BY <3>1 DEF ActiveIsStored, None, Breaches
  <2>4. Alerting!DetectBreach(t, b)
    BY <1>1, <1>h, <2>1, <2>2, <2>3, CreateAnswersNone
    DEF Alerting!DetectBreach, Alerting!Live, PhaseOf, IsOpen, OpenStatuses
  <2>5. {c \in Breaches : Armed(c)}' = {c \in Breaches : Armed(c)} BY <2>2 DEF Armed
  <2>6. Alerting!DetectAndOwe(t, b)
    BY <2>2, <2>4, <2>5 DEF Alerting!DetectAndOwe, Alerting!Running, Owed
  <2> QED BY <2>6 DEF Alerting!AlertingLifecycleNext
<1>2. CASE Arm
  <2>1. PICK b \in Breaches : b = monitor.breach BY <1>2 DEF Arm, At, MonitorHolds
  <2>2. /\ app = "running" /\ monitor.pc = "arming" /\ monitor'.pc = "announcing"
        /\ UNCHANGED <<status, active, breach, app>>
    BY <1>2 DEF Arm, At, storeVars, TickTypeOK, MonitorStates
  <2>3. Owed = b /\ Owed' = None BY <2>1, <2>2 DEF Owed
  <2>4. \A c \in Breaches : Armed(c)' <=> Armed(c) \/ c = b
    BY <1>2, <2>1 DEF Arm, Armed, NoSequence, TickTypeOK
  <2>5. {c \in Breaches : Armed(c)}' = {c \in Breaches : Armed(c)} \cup {b} BY <2>4
  <2>6. b # None BY DEF Breaches, None
  <2>7. Alerting!BeginSequence
    BY <2>2, <2>3, <2>5, <2>6 DEF Alerting!BeginSequence, Alerting!Running, Alerting!lifecycleVars
  <2> QED BY <2>7 DEF Alerting!AlertingLifecycleNext
<1> QED BY <1>1, <1>2

(* A restart, in the terms of the promise.                                   *)
LEMMA RestartKeepsPromise ==
  ASSUME TickInvariant, ProcessDies \/ ResumeState
  PROVE  Alerting!AlertingLifecycleNext
<1> USE DEF TickInvariant
<1>1. CASE ProcessDies
  <2>1. {c \in Breaches : Armed(c)}' = {} BY <1>1 DEF ProcessDies, Armed
  <2>2. Owed' = None BY <1>1 DEF ProcessDies, Owed, IdleMonitor
  <2>3. Alerting!Die BY <1>1, <2>1, <2>2 DEF ProcessDies, storeVars, Alerting!Die, Alerting!lifecycleVars
  <2> QED BY <2>3 DEF Alerting!AlertingLifecycleNext
<1>2. CASE ResumeState
  <2>1. \A b \in Breaches :
           Armed(b)' <=> Stored(b) /\ breach[b].response = "none" /\ IsOpen(breach[b].trade)
    BY <1>2 DEF ResumeState, Armed, NoSequence
  <2>2. ASSUME NEW b \in Breaches
        PROVE  (Stored(b) /\ breach[b].response = "none" /\ IsOpen(breach[b].trade))
                 <=> \E t \in Trades : active[t] = b
    <3>1. ASSUME Stored(b), breach[b].response = "none" PROVE \E t \in Trades : active[t] = b
      <4>1. breach[b].trade \in Trades BY <3>1, StoredIsRecord DEF BreachRecords
      <4>2. active[breach[b].trade] = b BY <3>1 DEF BreachesAreJudged
      <4> QED BY <4>1, <4>2
    <3>2. ASSUME NEW t \in Trades, active[t] = b
          PROVE  Stored(b) /\ breach[b].response = "none" /\ IsOpen(breach[b].trade)
      <4>1. IsOpen(t) /\ Stored(b) /\ breach[b].trade = t
        BY <3>2 DEF ActiveIsStored, Breaches, None
      <4> QED BY <3>2, <4>1 DEF BreachesAreJudged
    <3> QED BY <3>1, <3>2
  <2>3. {b \in Breaches : Armed(b)}' = {active[t] : t \in Trades} \ {None}
    <3>1. \A t \in Trades : active[t] # None => active[t] \in Breaches BY DEF TickTypeOK
    <3>2. None \notin Breaches BY DEF Breaches, None
    <3>3. \A b \in Breaches : Armed(b)' <=> \E t \in Trades : active[t] = b BY <2>1, <2>2
    <3> QED BY <3>1, <3>2, <3>3
  <2>4. Alerting!Resume
    BY <1>2, <2>3 DEF ResumeState, storeVars, Alerting!Resume, Alerting!Unanswered, Alerting!lifecycleVars, Owed
  <2> QED BY <2>4 DEF Alerting!AlertingLifecycleNext
<1> QED BY <1>1, <1>2

LEMMA StepKeepsPromise ==
  ASSUME TickInvariant, [TickNext]_tickVars
  PROVE  [Alerting!AlertingLifecycleNext]_(Alerting!alertingLifecycleVars)
<1>1. CASE HandlerStep BY <1>1, HandlerKeepsPromise
<1>2. CASE CreateBreach \/ Arm BY <1>2, MonitorKeepsPromise
<1>3. CASE ProcessDies \/ ResumeState BY <1>3, RestartKeepsPromise
<1>4. CASE ~ (HandlerStep \/ CreateBreach \/ Arm \/ ProcessDies \/ ResumeState)
  <2>1. UNCHANGED <<status, active, breach, app>>
    BY <1>4 DEF TickNext, MonitorStep, ReceiveTick, ListTrades, FinishTick, LookAt, Create, BreachRefused,
       Announced, TickFails, PriceMoves, LoopSends, LoopWritesBack, tickVars, storeVars
  <2>2. \A b \in Breaches : Armed(b)' <=> Armed(b) BY <1>4, ArmedChanges DEF TickInvariant, HandlerStep
  <2>3. Owed' = Owed
    <3>1. CASE monitor.pc = "arming" BY <1>4, <3>1, OwedStays DEF Owed
    <3>2. CASE monitor.pc # "arming"
      <4>1. ASSUME NEW t \in Trades, LookAt(t) PROVE monitor'.pc # "arming"
        BY <4>1 DEF LookAt, At, TickInvariant, TickTypeOK, MonitorStates
      <4>2. ASSUME MonitorMovesOn PROVE monitor'.pc # "arming"
        BY <4>2 DEF MonitorMovesOn, TickInvariant, TickTypeOK, MonitorStates
      <4>3. ASSUME ReceiveTick \/ ListTrades \/ FinishTick \/ TickFails PROVE monitor'.pc # "arming"
        <5>1. CASE ReceiveTick BY <5>1 DEF ReceiveTick, IdleMonitor
        <5>2. CASE ListTrades BY <5>2 DEF ListTrades, TickInvariant, TickTypeOK, MonitorStates
        <5>3. CASE FinishTick \/ TickFails BY <5>3 DEF FinishTick, TickFails, IdleMonitor
        <5> QED BY <4>3, <5>1, <5>2, <5>3
      <4>4. \/ monitor' = monitor \/ MonitorMovesOn \/ \E t \in Trades : LookAt(t)
            \/ ReceiveTick \/ ListTrades \/ FinishTick \/ TickFails
        BY <1>4 DEF TickNext, MonitorStep, Create, BreachRefused, Announced, PriceMoves, LoopSends,
           LoopWritesBack, tickVars, memoryVars
      <4>5. monitor'.pc # "arming" BY <3>2, <4>1, <4>2, <4>3, <4>4
      <4> QED BY <3>2, <4>5 DEF Owed
    <3> QED BY <3>1, <3>2
  <2> QED BY <2>1, <2>2, <2>3, PromiseStutters
<1> QED BY <1>1, <1>2, <1>3, <1>4

(* Whatever the prices do, and whatever is edited, sent, written back or     *)
(* lost, trades, breaches and alert sequences keep the promise of            *)
(* AlertingLifecycle.                                                        *)
THEOREM TickImplementsAlerting == TickSpec => ImplementsAlerting
<1>1. TickInit => Alerting!AlertingLifecycleInit
  BY DEF TickInit, Alerting!AlertingLifecycleInit, Alerting!LifecycleInit, PhaseOf, AnswerOf, NoBreach,
     Armed, Owed, IdleMonitor
<1> QED BY <1>1, StepKeepsPromise, TickInvariantHolds, PTL
        DEF TickSpec, ImplementsAlerting, Alerting!AlertingLifecycleSpec

(* So they keep that of TradeLifecycle: an edit of the terms, or of what     *)
(* /edit_closed restates, opens, closes or breaches no trade.                *)
THEOREM TickImplementsLifecycle == TickSpec => Alerting!LifecycleSpec
<1>1. Alerting!AlertingLifecycleInit => Alerting!LifecycleInit BY DEF Alerting!AlertingLifecycleInit
<1>2. [Alerting!AlertingLifecycleNext]_(Alerting!alertingLifecycleVars)
        => [Alerting!LifecycleNext]_(Alerting!lifecycleVars)
  BY DEF Alerting!AlertingLifecycleNext, Alerting!alertingLifecycleVars, Alerting!LifecycleNext,
     Alerting!UserActs, Alerting!DetectAndOwe, Alerting!BeginSequence, Alerting!StopSequence,
     Alerting!Die, Alerting!Resume
<1> QED BY <1>1, <1>2, TickImplementsAlerting, PTL
        DEF ImplementsAlerting, Alerting!AlertingLifecycleSpec, Alerting!LifecycleSpec
=============================================================================
