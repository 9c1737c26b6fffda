---------------------------- MODULE TickEvaluation ----------------------------
(***************************************************************************)
(* Prices against invalidation levels: the monitor judges each tick by     *)
(* the trades it has listed (src/monitor/monitor.py, breach.py), while the *)
(* handler edits, justifies and closes them (src/db/repo.py), the alert    *)
(* loop sends from snapshots that hold a trade and a price                 *)
(* (src/monitor/alerts.py), and a restart resumes from what is stored      *)
(* (src/app.py).                                                           *)
(*                                                                         *)
(* The operations of the store are the single steps TradeStore shows them  *)
(* to be.  All trades are of one symbol: a tick of another one only lists  *)
(* them.  Sizes are left out, so that a loss is counted in price.          *)
(*                                                                         *)
(* MaxBreaches and MaxDeaths bound two counters and nothing else.          *)
(***************************************************************************)
EXTENDS Integers

CONSTANTS
    Trades,
    Prices,      \* the mid prices of the symbol
    Entries,     \* entry prices users give
    Levels,      \* invalidation prices users give
    MaxBreaches,
    MaxDeaths

ASSUME TickAssumption ==
    /\ Prices \subseteq Nat \ {0}
    /\ Entries \subseteq Nat \ {0}
    /\ Levels \subseteq Nat \ {0}
    /\ MaxBreaches \in Nat
    /\ MaxDeaths \in Nat

None == 0
Breaches == 1 .. MaxBreaches

(* What a user has committed to.                                             *)
AnyTerms == [direction : {"long", "short"}, entry : Entries, level : Levels]
NoTerms == [direction |-> "none", entry |-> 0, level |-> 0]

(* validate_invalidation_side.                                               *)
OnItsSide(x) == IF x.direction = "long" THEN x.level < x.entry ELSE x.level > x.entry

Terms == {x \in AnyTerms : OnItsSide(x)}

(* Faulty: reaching the level is not enough.                                 *)
IsBreachStrictly(x, price) ==
    IF x.direction = "long" THEN price < x.level ELSE price > x.level

(* is_breach.                                                                *)
IsBreach(x, price) ==
    IF x.direction = "long" THEN price <= x.level ELSE price >= x.level

(* _current_loss_usdt, per unit of the asset.                                *)
CurrentLoss(x, price) ==
    LET pnl == IF x.direction = "long" THEN price - x.entry ELSE x.entry - price
    IN IF pnl < 0 THEN - pnl ELSE 0

(* Faulty: the direction is forgotten.                                       *)
ClosedAboveInvalidation(x, price) == price >= x.level

(* _closed_at_or_better_than_invalidation.                                   *)
ClosedAtOrBetter(x, price) ==
    IF x.direction = "long" THEN price >= x.level ELSE price <= x.level

VARIABLES
    status,     \* trade:{id}, status; "MISSING" before the hash exists
    terms,      \* trade:{id}, direction, entry_price and invalidation_price
    closePrice, \* trade:{id}, close_price; None while open
    active,     \* breach:active:{trade}
    breach,     \* breach:{id}; and history: the terms the tick was judged by
    lastBreach, \* seq:breach, without the ids that are dropped
    market,     \* the exchange's mid price
    app,        \* "booting": started again, resume_state has not finished
    monitor,    \* process_tick, and what it has read
    armed,      \* AlertDispatcher._sequences
    sending,    \* the alert loop's snapshot of the sequence it sends from
    toStop,     \* the breach the handler has answered and is about to stop
    deaths,     \* how often the process has died
    answered,   \* history: the trades with a breach answered since the listing
    restated    \* history: the breaches whose trade has been edited since

storeVars == <<status, terms, closePrice, active, breach, lastBreach>>
memoryVars == <<monitor, armed, sending, toStop>>
historyVars == <<answered, restated>>
tickVars == <<storeVars, market, app, memoryVars, deaths, historyVars>>

OpenStatuses == {"OPEN", "OPEN_OVERRIDE"}
IsOpen(t) == status[t] \in OpenStatuses

BreachRecords ==
    [trade : Trades, price : Prices, response : {"none", "justified", "closed"}, judgedBy : Terms]
NoBreach == [response |-> "missing"]
Stored(b) == breach[b] # NoBreach

Sequences == [terms : Terms, price : Prices, from : {"tick", "resume"}]
NoSequence == [from |-> "nowhere"]
Armed(b) == armed[b] # NoSequence

IdleMonitor == [pc |-> "idle", price |-> 0, listed |-> [t \in Trades |-> NoTerms],
                left |-> {}, trade |-> None, breach |-> None]
MonitorStates ==
    [pc : {"idle", "listing", "looking", "creating", "arming", "announcing"},
     price : Prices \cup {0}, listed : [Trades -> Terms \cup {NoTerms}],
     left : SUBSET Trades, trade : Trades \cup {None}, breach : Breaches \cup {None}]
NotSending == [breach |-> None, was |-> NoSequence]

TickTypeOK ==
    /\ status \in [Trades -> OpenStatuses \cup {"MISSING", "CLOSED"}]
    /\ terms \in [Trades -> Terms \cup {NoTerms}]
    /\ closePrice \in [Trades -> Prices \cup {None}]
    /\ active \in [Trades -> Breaches \cup {None}]
    /\ breach \in [Breaches -> BreachRecords \cup {NoBreach}]
    /\ lastBreach \in 0 .. MaxBreaches
    /\ market \in Prices
    /\ app \in {"running", "booting"}
    /\ monitor \in MonitorStates
    /\ monitor.pc # "idle" => monitor.price \in Prices
    /\ armed \in [Breaches -> Sequences \cup {NoSequence}]
    /\ sending = NotSending \/ sending \in [breach : Breaches, was : Sequences]
    /\ toStop \in Breaches \cup {None}
    /\ deaths \in 0 .. MaxDeaths
    /\ answered \subseteq Trades /\ restated \subseteq Breaches

TickInit ==
    /\ status = [t \in Trades |-> "MISSING"]
    /\ terms = [t \in Trades |-> NoTerms]
    /\ closePrice = [t \in Trades |-> None]
    /\ active = [t \in Trades |-> None]
    /\ breach = [b \in Breaches |-> NoBreach]
    /\ lastBreach = 0
    /\ market \in Prices
    /\ app = "running"
    /\ monitor = IdleMonitor
    /\ armed = [b \in Breaches |-> NoSequence]
    /\ sending = NotSending
    /\ toStop = None
    /\ deaths = 0
    /\ answered = {} /\ restated = {}

-----------------------------------------------------------------------------
(* The handler.                                                              *)

HandlerFree == app = "running" /\ toStop = None

(* The breaches of a trade, answered or not.                                 *)
BreachesOf(t) == {b \in Breaches : Stored(b) /\ breach[b].trade = t}

(* create_trade, at the end of the form.                                     *)
NewTrade(t, x) ==
    /\ HandlerFree
    /\ status[t] = "MISSING"
    /\ OnItsSide(x)
    /\ status' = [status EXCEPT ![t] = "OPEN"]
    /\ terms' = [terms EXCEPT ![t] = x]
    /\ UNCHANGED <<closePrice, active, breach, lastBreach, market, app, memoryVars, deaths, historyVars>>

(* Faulty: the side is checked only when the level is given.                 *)
EditTradeByField(t, x) ==
    /\ HandlerFree
    /\ IsOpen(t)
    /\ x.level # terms[t].level => OnItsSide(x)
    /\ terms' = [terms EXCEPT ![t] = x]
    /\ restated' = restated \cup BreachesOf(t)
    /\ UNCHANGED <<status, closePrice, active, breach, lastBreach, market, app, memoryVars, deaths, answered>>

(* /edit: some of direction, entry and invalidation are replaced, and what   *)
(* results is checked.                                                       *)
EditTrade(t, x) ==
    /\ HandlerFree
    /\ IsOpen(t)
    /\ OnItsSide(x)
    /\ terms' = [terms EXCEPT ![t] = x]
    /\ restated' = restated \cup BreachesOf(t)
    /\ UNCHANGED <<status, closePrice, active, breach, lastBreach, market, app, memoryVars, deaths, answered>>

(* /justify.                                                                 *)
Justify(t) ==
    /\ HandlerFree
    /\ IsOpen(t)
    /\ active[t] # None
    /\ status' = [status EXCEPT ![t] = "OPEN_OVERRIDE"]
    /\ breach' = [breach EXCEPT ![active[t]].response = "justified"]
    /\ active' = [active EXCEPT ![t] = None]
    /\ toStop' = active[t]
    /\ answered' = answered \cup {t}
    /\ UNCHANGED <<terms, closePrice, lastBreach, market, app, monitor, armed, sending, deaths, restated>>

(* /closed.  A breach that only the retry of close_trade has found is        *)
(* answered but not stopped.                                                 *)
Close(t, price) ==
    /\ HandlerFree
    /\ IsOpen(t)
    /\ status' = [status EXCEPT ![t] = "CLOSED"]
    /\ closePrice' = [closePrice EXCEPT ![t] = price]
    /\ breach' = IF active[t] = None THEN breach
                 ELSE [breach EXCEPT ![active[t]].response = "closed"]
    /\ active' = [active EXCEPT ![t] = None]
    /\ toStop' \in {active[t], None}
    /\ answered' = answered \cup {t}
    /\ UNCHANGED <<terms, lastBreach, market, app, monitor, armed, sending, deaths, restated>>

(* A confirmed /edit_closed.                                                 *)
EditClosed(t, x, price) ==
    /\ HandlerFree
    /\ status[t] = "CLOSED"
    /\ OnItsSide(x)
    /\ terms' = [terms EXCEPT ![t] = x]
    /\ closePrice' = [closePrice EXCEPT ![t] = price]
    /\ restated' = restated \cup BreachesOf(t)
    /\ UNCHANGED <<status, active, breach, lastBreach, market, app, memoryVars, deaths, answered>>

(* resolve_breach.                                                           *)
StopAlerts ==
    /\ app = "running"
    /\ toStop # None
    /\ armed' = [armed EXCEPT ![toStop] = NoSequence]
    /\ toStop' = None
    /\ UNCHANGED <<storeVars, market, app, monitor, sending, deaths, historyVars>>

HandlerStep ==
    \/ \E t \in Trades :
       \/ Justify(t)
       \/ \E price \in Prices : Close(t, price)
       \/ \E x \in AnyTerms :
          NewTrade(t, x) \/ EditTrade(t, x) \/ \E price \in Prices : EditClosed(t, x, price)
    \/ StopAlerts

-----------------------------------------------------------------------------
(* The monitor.                                                              *)

PriceMoves(price) ==
    /\ market' = price
    /\ UNCHANGED <<storeVars, app, memoryVars, deaths, historyVars>>

At(pc) == app = "running" /\ monitor.pc = pc

(* A frame with the price of the symbol arrives.                             *)
ReceiveTick ==
    /\ At("idle")
    /\ monitor' = [IdleMonitor EXCEPT !.pc = "listing", !.price = market]
    /\ UNCHANGED <<storeVars, market, app, armed, sending, toStop, deaths, historyVars>>

(* list_open_trades.                                                         *)
ListTrades ==
    /\ At("listing")
    /\ monitor' = [monitor EXCEPT !.pc = "looking",
                       !.listed = [t \in Trades |-> IF IsOpen(t) THEN terms[t] ELSE NoTerms],
                       !.left = {t \in Trades : IsOpen(t)}]
    /\ answered' = {}
    /\ UNCHANGED <<storeVars, market, app, armed, sending, toStop, deaths, restated>>

(* Faulty: the price is noted only where it is a breach.                     *)
PriceNotedOfBreach(t) ==
    [b \in Breaches |->
        IF Armed(b) /\ b \in BreachesOf(t) /\ IsBreach(monitor.listed[t], monitor.price)
        THEN [armed[b] EXCEPT !.price = monitor.price] ELSE armed[b]]

(* update_trade_price.                                                       *)
PriceNoted(t) ==
    [b \in Breaches |->
        IF Armed(b) /\ b \in BreachesOf(t)
        THEN [armed[b] EXCEPT !.price = monitor.price] ELSE armed[b]]

(* The loop body of process_tick up to its first await.                      *)
LookAt(t) ==
    /\ At("looking")
    /\ t \in monitor.left
    /\ armed' = PriceNoted(t)
    /\ monitor' = IF IsBreach(monitor.listed[t], monitor.price)
                  THEN [monitor EXCEPT !.pc = "creating", !.trade = t]
                  ELSE [monitor EXCEPT !.left = @ \ {t}]
    /\ UNCHANGED <<storeVars, market, app, sending, toStop, deaths, historyVars>>

MonitorMovesOn ==
    monitor' = [monitor EXCEPT !.pc = "looking", !.left = @ \ {monitor.trade}, !.trade = None, !.breach = None]

(* Faulty: a trade held on a justification is not breached again.            *)
MayBeBreachedOnce(t) == status[t] = "OPEN" /\ active[t] = None

(* Faulty: a breach replaces the unanswered one.                             *)
MayBeBreachedAnyTime(t) == IsOpen(t)

(* create_breach: iff the trade is still open and unarmed.                   *)
MayBeBreached(t) == IsOpen(t) /\ active[t] = None

CreateBreach ==
    LET t == monitor.trade
        b == lastBreach + 1
    IN  /\ At("creating")
        /\ MayBeBreached(t)
        /\ lastBreach < MaxBreaches
        /\ lastBreach' = b
        /\ active' = [active EXCEPT ![t] = b]
        /\ breach' = [breach EXCEPT ![b] = [trade |-> t, price |-> monitor.price,
                         response |-> "none", judgedBy |-> monitor.listed[t]]]
        /\ monitor' = [monitor EXCEPT !.pc = "arming", !.breach = b]
        /\ restated' = IF terms[t] = monitor.listed[t] THEN restated ELSE restated \cup {b}
        /\ UNCHANGED <<status, terms, closePrice, market, app, armed, sending, toStop, deaths, answered>>

BreachRefused ==
    /\ At("creating")
    /\ ~ MayBeBreached(monitor.trade)
    /\ MonitorMovesOn
    /\ UNCHANGED <<storeVars, market, app, armed, sending, toStop, deaths, historyVars>>

(* Faulty: the alerts quote the trade as it is stored now.                   *)
ArmRereading ==
    /\ At("arming")
    /\ armed' = [armed EXCEPT ![monitor.breach] =
                    [terms |-> terms[monitor.trade], price |-> monitor.price, from |-> "tick"]]
    /\ monitor' = [monitor EXCEPT !.pc = "announcing"]
    /\ UNCHANGED <<storeVars, market, app, sending, toStop, deaths, historyVars>>

(* trigger_breach_alert registers the sequence, with the trade as listed.    *)
Arm ==
    /\ At("arming")
    /\ armed' = [armed EXCEPT ![monitor.breach] =
                    [terms |-> monitor.listed[monitor.trade], price |-> monitor.price, from |-> "tick"]]
    /\ monitor' = [monitor EXCEPT !.pc = "announcing"]
    /\ UNCHANGED <<storeVars, market, app, sending, toStop, deaths, historyVars>>

(* The alerts due are sent, and the snapshots written back: where the loop   *)
(* has put an older price back in between, this one comes in again.          *)
Announced ==
    /\ At("announcing")
    /\ \E due \in SUBSET {b \in Breaches : Armed(b) /\ breach[b].trade \in (Trades \ monitor.left) \cup {monitor.trade}} :
         armed' = [b \in Breaches |-> IF b \in due THEN [armed[b] EXCEPT !.price = monitor.price] ELSE armed[b]]
    /\ MonitorMovesOn
    /\ UNCHANGED <<storeVars, market, app, sending, toStop, deaths, historyVars>>

FinishTick ==
    /\ At("looking")
    /\ monitor.left = {}
    /\ monitor' = IdleMonitor
    /\ UNCHANGED <<storeVars, market, app, armed, sending, toStop, deaths, historyVars>>

(* A call of Redis raises: Monitor.run gives the rest of the tick up.        *)
TickFails ==
    /\ At("listing") \/ At("creating") \/ At("announcing")
    /\ monitor' = IdleMonitor
    /\ UNCHANGED <<storeVars, market, app, armed, sending, toStop, deaths, historyVars>>

Create == CreateBreach \/ BreachRefused

MonitorStep ==
    \/ ReceiveTick \/ ListTrades \/ FinishTick
    \/ \E t \in Trades : LookAt(t)
    \/ Create \/ Arm \/ Announced

-----------------------------------------------------------------------------
(* The alert loop, and restarts.                                             *)

(* A sequence is due; what is sent, and written back, is its snapshot.       *)
LoopSends(b) ==
    /\ app = "running"
    /\ sending = NotSending
    /\ Armed(b)
    /\ sending' = [breach |-> b, was |-> armed[b]]
    /\ UNCHANGED <<storeVars, market, app, monitor, armed, toStop, deaths, historyVars>>

LoopWritesBack ==
    /\ app = "running"
    /\ sending # NotSending
    /\ armed' = IF Armed(sending.breach)
                THEN [armed EXCEPT ![sending.breach] = sending.was] ELSE armed
    /\ sending' = NotSending
    /\ UNCHANGED <<storeVars, market, app, monitor, toStop, deaths, historyVars>>

ProcessDies ==
    /\ deaths < MaxDeaths
    /\ deaths' = deaths + 1
    /\ app' = "booting"
    /\ monitor' = IdleMonitor
    /\ armed' = [b \in Breaches |-> NoSequence]
    /\ sending' = NotSending
    /\ toStop' = None
    /\ UNCHANGED <<storeVars, market, historyVars>>

(* resume_state: the trade as it is stored now, the price of the breach.     *)
ResumeState ==
    /\ app = "booting"
    /\ app' = "running"
    /\ armed' = [b \in Breaches |->
                    IF Stored(b) /\ breach[b].response = "none" /\ IsOpen(breach[b].trade)
                    THEN [terms |-> terms[breach[b].trade], price |-> breach[b].price, from |-> "resume"]
                    ELSE NoSequence]
    /\ UNCHANGED <<storeVars, market, monitor, sending, toStop, deaths, historyVars>>

TickNext ==
    \/ HandlerStep
    \/ MonitorStep \/ TickFails
    \/ \E price \in Prices : PriceMoves(price)
    \/ \E b \in Breaches : LoopSends(b)
    \/ LoopWritesBack
    \/ ProcessDies \/ ResumeState

TickSpec == TickInit /\ [][TickNext]_tickVars

(* Fairness: frames go on arriving, the event loop runs what can go on,      *)
(* Telegram calls time out, the container is started again; and Redis does   *)
(* not fail for ever.                                                        *)
TickFairness ==
    /\ WF_tickVars(MonitorStep)
    /\ SF_tickVars(ListTrades)
    /\ SF_tickVars(Create)
    /\ WF_tickVars(LoopWritesBack)
    /\ WF_tickVars(ResumeState)

FairTickSpec == TickSpec /\ TickFairness

-----------------------------------------------------------------------------
(* Correctness.                                                              *)

(* "Long breach iff tick <= invalidation; short breach iff tick >=           *)
(* invalidation" (requirements.md:127).                                      *)
Beyond(x, price) ==
    IF x.direction = "long" THEN ~ (price > x.level) ELSE ~ (price < x.level)

(* When the monitor has done with a trade and the tick is beyond the level   *)
(* the trade had when it was listed, the trade has an unanswered breach,     *)
(* whether the monitor has made it or found it, and that breach is being     *)
(* alerted about, unless the user has answered since: no refusal of          *)
(* create_breach is a breach missed, and none it leans on has lost its       *)
(* alerts to a restart, a failed tick or the answer to another breach.       *)
NoBreachIsMissed ==
    \A t \in Trades :
        /\ monitor.pc \notin {"idle", "listing"}
        /\ monitor.listed[t] # NoTerms
        /\ t \notin monitor.left
        /\ Beyond(monitor.listed[t], monitor.price)
        => (active[t] # None /\ Armed(active[t])) \/ t \in answered

(* "You said you would exit at {invalidation}" (requirements.md:146): the    *)
(* level an alert quotes is one its breach has broken, and a breach is a     *)
(* loss, whatever /edit has done to the trade since it was listed.  Only     *)
(* after a restart is the level one edited in the meantime.                  *)
AlertQuotesBrokenLevel ==
    \A b \in Breaches :
        Armed(b) /\ (armed[b].from = "tick" \/ b \notin restated) =>
            /\ Stored(b)
            /\ Beyond(armed[b].terms, breach[b].price)
            /\ CurrentLoss(armed[b].terms, breach[b].price) > 0

(* compute_stats: the breaches counted for the adherence rate.               *)
AdherenceHits ==
    {b \in Breaches :
        /\ Stored(b)
        /\ breach[b].response = "closed"
        /\ closePrice[breach[b].trade] # None
        /\ ClosedAtOrBetter(terms[breach[b].trade], closePrice[breach[b].trade])}

(* A breach counts for adherence only if the user has come out at the level  *)
(* that was broken or better, or has restated the trade since.               *)
AdherenceIsEarned ==
    \A b \in AdherenceHits \ restated :
        LET x == breach[b].judgedBy
        IN  /\ status[breach[b].trade] = "CLOSED"
            /\ x.direction = "long" => ~ (closePrice[breach[b].trade] < x.level)
            /\ x.direction = "short" => ~ (closePrice[breach[b].trade] > x.level)

(* The bound is in the way: create_breach has no id for a breach of a trade  *)
(* that may have one.                                                        *)
OutOfIds == lastBreach = MaxBreaches /\ \E t \in Trades : IsOpen(t) /\ active[t] = None

(* A price that stays beyond the level of an open trade is found, again and  *)
(* again if the user justifies, and whatever the levels were edited to       *)
(* before.                                                                   *)
LastingBreachIsFound ==
    \A t \in Trades :
        <>[](IsOpen(t) /\ Beyond(terms[t], market))
            => []<>(active[t] # None \/ OutOfIds)

(* When the market stands still, the alerts of an open trade come back to    *)
(* its price, again and again: a price lost to a write-back, or resumed from *)
(* the breach, does not stay.                                                *)
ShownPriceCatchesUp ==
    \A price \in Prices, t \in Trades :
        <>[](market = price) =>
            []<>(IsOpen(t) => (\A b \in BreachesOf(t) : Armed(b) => armed[b].price = price)
                                \/ OutOfIds)

(* The inductive invariant.                                                  *)
TermsAreGiven == \A t \in Trades : terms[t] = NoTerms <=> status[t] = "MISSING"

(* What is stored and what is in memory about a breach are of one tick.      *)
BreachesAreJudged ==
    \A b \in Breaches : Stored(b) =>
        /\ b <= lastBreach
        /\ terms[breach[b].trade] # NoTerms
        /\ IsBreach(breach[b].judgedBy, breach[b].price)
        /\ b \notin restated => terms[breach[b].trade] = breach[b].judgedBy
        /\ breach[b].response = "none" <=> active[breach[b].trade] = b
        /\ breach[b].response = "closed" => status[breach[b].trade] = "CLOSED"

ActiveIsStored ==
    \A t \in Trades : active[t] # None =>
        IsOpen(t) /\ Stored(active[t]) /\ breach[active[t]].trade = t

Quotes(sequence, b) ==
    Stored(b) /\ (sequence.from = "tick" \/ b \notin restated => sequence.terms = breach[b].judgedBy)

SequencesQuote ==
    /\ \A b \in Breaches : Armed(b) => Quotes(armed[b], b)
    /\ sending # NotSending => Quotes(sending.was, sending.breach)

MonitorHolds ==
    /\ app = "booting" => monitor = IdleMonitor /\ sending = NotSending
    /\ monitor.pc \notin {"idle", "listing"} =>
          \A t \in Trades : monitor.listed[t] # NoTerms => IsOpen(t) \/ t \in answered
    /\ \A t \in monitor.left : monitor.listed[t] # NoTerms
    /\ monitor.pc \in {"creating", "arming", "announcing"} =>
          monitor.trade \in monitor.left /\ IsBreach(monitor.listed[monitor.trade], monitor.price)
    /\ monitor.pc \in {"arming", "announcing"} =>
          /\ monitor.breach \in Breaches
          /\ Stored(monitor.breach)
          /\ breach[monitor.breach].trade = monitor.trade
          /\ breach[monitor.breach].judgedBy = monitor.listed[monitor.trade]
          /\ active[monitor.trade] # None \/ monitor.trade \in answered

(* A trade the monitor has done with has its breach, or its answer.          *)
BreachIsFound ==
    \A t \in Trades :
        /\ monitor.pc \notin {"idle", "listing"}
        /\ monitor.listed[t] # NoTerms
        /\ t \notin monitor.left
        /\ Beyond(monitor.listed[t], monitor.price)
        => active[t] # None \/ t \in answered

(* The breach process_tick has stored and is about to arm.                   *)
Owed == IF monitor.pc = "arming" THEN monitor.breach ELSE None

(* Every unanswered breach is armed or about to be, and only the alerts of   *)
(* an answered one are stopped.                                              *)
ActiveIsArmed ==
    /\ app = "running" => \A t \in Trades : active[t] # None => Armed(active[t]) \/ active[t] = Owed
    /\ toStop # None => breach[toStop].response \in {"justified", "closed"}

TickInvariant ==
    /\ TickTypeOK
    /\ TermsAreGiven
    /\ BreachesAreJudged
    /\ ActiveIsStored
    /\ SequencesQuote
    /\ MonitorHolds
    /\ BreachIsFound
    /\ ActiveIsArmed

-----------------------------------------------------------------------------
(* Refinement.                                                               *)

PhaseOf(s) == CASE s = "MISSING" -> "unopened"
                [] s = "OPEN" -> "open"
                [] s = "OPEN_OVERRIDE" -> "override"
                [] s = "CLOSED" -> "closed"

AnswerOf(r) == IF r \in {"closed", "justified"} THEN r ELSE "unanswered"

Alerting == INSTANCE AlertingLifecycle WITH
    phase <- [t \in Trades |-> PhaseOf(status[t])],
    pending <- active,
    answer <- [b \in Breaches |-> AnswerOf(breach[b].response)],
    sequences <- {b \in Breaches : Armed(b)},
    owed <- Owed

(* Whatever the prices do, and whatever is edited, sent, written back or     *)
(* lost, trades, breaches and alert sequences keep the promise of            *)
(* AlertingLifecycle.                                                        *)
ImplementsAlerting == Alerting!AlertingLifecycleSpec
=============================================================================
