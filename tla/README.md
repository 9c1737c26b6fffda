# A TLA+ model of trading-discipline

trading-discipline is a Telegram bot that records a trader's plans, watches the
price of every planned trade and does not stop alerting when an invalidation
level is broken until the trader closes the trade or justifies holding it. It
also imposes rules: a cap on size after a row of losses, a written reason for
high leverage. It is one asyncio process over one Redis server.

The specifications here are written from the source (`src/src/...`); documents
(`src/dev-docs/...`) are quoted only where the code disagrees with them.
`PROJECT.json` maps every definition to the lines it models.

## 1. The system

### Components

| Component | State | Operations | What makes it correct | Model |
|---|---|---|---|---|
| Trade and breach store (`db/repo.py`, Lua scripts, `db/keyspace.py`) | Redis: trade and breach hashes, status sets, `trades:closed`, `breach:active:*`, `breaches:unresolved`, id sequences | create, close, override, create breach, list, edit | several keys tell one story at every command boundary; no open breach on a closed trade; every breach answered once | `TradeStore`, `TradeLifecycle` |
| Price monitor (`monitor/monitor.py`, `breach.py`) | what one tick has read | on a price: list open trades, compare, create a breach, arm its alerts | every open trade is looked at; every breach it stores is alerted about | `TradeStore`, `BreachAlerting`; with prices and levels `TickEvaluation`, `Rebreach` |
| Alert dispatcher (`monitor/alerts.py`) | `_sequences` in memory: due time, alerts sent, last price | trigger, loop, resolve, resume | escalation goes on until answered, never after; levels in order; what is quoted was broken | `AlertSequences`, `Escalation`, `BreachAlerting`, `AlertingLifecycle`, `TickEvaluation` |
| Telegram handlers (`bot/handlers.py`) | what one update has read | `/new /closed /justify /setpnl /edit /edit_closed /cancel`, queries | truthful replies; alerts stopped when answered | `TradeStore`, `BreachAlerting`, `Conversations`, `TickEvaluation` |
| New-trade form (`bot/forms.py`) | `conversation:{chat}` in Redis, with a time to live | eleven steps, cancel, expiry, commit | a draft is complete and legal when it is stored | `Conversations` |
| Closed-trade edit (`bot/edit_closed.py`) | the same key: pending payload | prepare (preview), yes/no | what was shown is what is written | `Conversations`, `SizingHistory`, `TickEvaluation` |
| Trade edit (`repo.update_trade`, `update_trade_realized_pnl`) | the trade hash | `/edit`, `/setpnl` | the rules of `/new` still hold | `Conversations` (size, leverage, reason, sign of P&L), `TickEvaluation` (direction, entry, invalidation) |
| Sizing and leverage rules (`rules/*.py`) | none | cap from a symbol's closed trades | the cap of REQ-003 | `SizingRule`, `SizingHistory` |
| Application life cycle (`app.py`) | tasks under one `gather` | start, `resume_state`, death | nothing stored is forgotten by a restart | `BreachAlerting`, `TickEvaluation`, `FeedHealth` |
| Connection health (`monitor/health.py`) | down state, flapping mark | disconnect, reconnect, repeated outage alerts, daily heartbeat | an outage is reported, and only while it lasts; the heartbeat is honest | `FeedHealth` |
| Exchange adapter (`exchange/hyperliquid.py`) | websocket, `_down_since`, back-off | connect, stale, reconnect | reports connection state and gap truthfully | `FeedHealth` |
| Market universe cache | one key, two refreshers | refresh, resolve a symbol | either value is whole: last writer wins | not modelled |
| Statistics (`stats/`) | none | sums over a window | a breach counts for adherence only if it was obeyed | adherence in `TickEvaluation`; the sums not modelled |
| Event bus (`events/bus.py`) | subscribers | publish | no subscriber in the application: no effect | not modelled |
| Migrations, configuration, whitelist, formatting, reserved `intelligence` | none or one key | – | – | not modelled |

### How they interact

* The Telegram handler, the price monitor, the alert loop, the health monitor
  and the exchange reader are tasks of one event loop. They share Redis and
  the dispatcher's dictionary, and interleave at every `await`. Telegram
  updates are handled one at a time (`app.py:317` enables no concurrency), so
  there is one handler.
* A price goes `hyperliquid` → `Monitor.process_tick` → `list_open_trades`,
  `create_breach` → `AlertDispatcher.trigger_breach_alert` → Telegram.
* `/closed` and `/justify` go handler → Lua script → `alerts.resolve_breach`.
* The form and `/edit_closed` keep everything between messages in Redis and
  read the closed trades of the symbol to compute the cap.
* If any task raises, `gather` ends the process; the container starts it again
  and `resume_state` rebuilds the alert sequences from `breaches:unresolved`.

### What is hard here

1. Store operations that read, decide and write in separate commands while
   another task writes (optimistic WATCH loops, scripts with a caller's stale
   expectation, a two-command listing).
2. Two stores of one fact: Redis knows the unanswered breaches, memory knows
   the alerted ones; they are updated in separate steps and by two tasks.
3. Snapshots written back after a send (alerts and health).
4. Conversations that are judged at one message and take effect at another.
5. Rules enforced in three places with different constants.
6. Process death between any two steps, failed sends, lost replies.

`PROJECT.json` lists each hazard at its line, with the property that covers it
or the reason none does.

## 2. Plan

Order of writing, all of it done:

1. `TradeLifecycle` (abstract) ← `TradeStore` (detailed), `TradeStoreProofs`.
2. `BreachAlerting` = `TradeStore` + armed sequences + death and restart;
   `BreachAlertingProofs`.
3. `AlertSequences`: one dispatcher in detail; `AlertSequencesProofs`.
4. `SizingRule` (pure), `SizingHistory` (checks it), `Conversations` (form and
   edits on top of the rule), `MCConversations`, `ConversationsProofs`.
5. `FeedHealth`: `health.py` with the adapter's connection events, the gap, the
   heartbeat and restarts; `FeedHealthProofs`.
6. `TickEvaluation`: prices against levels, with every command that changes a
   trade, the alert snapshots and a restart; `TickEvaluationProofs`, `Rebreach`.
7. `SizingProofs`: the sizing rule for histories of any length.
8. `AlertingLifecycle` and `Escalation`: what the alerting promises, and the
   proofs that the detailed modules keep it.

Which module implements which (the arrows between a detailed and an abstract
module are properties of runs, and all of them are proved):

    TradeStore ---------> TradeLifecycle <--------- Conversations
        ^                       ^
        | extends               | AlertingLifecycleProofs
    BreachAlerting ---> AlertingLifecycle <--- TickEvaluation

    AlertSequences ---> Escalation

Three models of different parts of the program thus agree on one life of a
trade, and two of them on when a breach is loud: `TradeStore` sees the Redis
commands, `TickEvaluation` the prices and terms, `Conversations` the forms.

Worth doing next: an abstract specification of the notices of an outage for
`FeedHealth`, which has to allow for the phantom alerts of its write-back; the
times of trades (`opened_at` and `closed_at` of the two edits against the score of
`trades:closed`, which `SizingHistory` covers only as a reordering); the status
shown by `/health` and the tiers of delays.

## 3. The modules

### TradeLifecycle
What the store promises, with no Redis in it: a trade is unopened, open,
override or closed; a breach belongs to a live trade and is unanswered until it
is answered by a justification or by closing; a trade closes only together with
the answer to its unanswered breach. One step per promise.

### AlertingLifecycle
`TradeLifecycle` with the alerts about its breaches: the step that detects a
breach owes it a sequence, which begins next; only an answered breach's sequence
may be stopped; the process may die at any step, and when it is up again exactly
the unanswered breaches sound. `NoBreachIsSilent` is what that adds up to.

### Escalation
What the user sees of one dispatcher's alerts: no alert before the breach is
found, a level only after all lower ones, at most `MaxLate` after the stop, no
second life.

### TradeStore
Variables are the Redis keys (`status`, `statusSet`, `allTrades`,
`closedTrades`, `breachTrade`, `response`, `breachesOf`, `unresolved`,
`active`, the two sequences) and one record per task with its program counter
and everything it has read. One step is one Redis command, one MULTI/EXEC or one
script.

* `NewTradeId`, `CommitTrade`: `create_trade`.
* `CloseLookup`, `CloseCheck`, `CloseScript`, `CloseScriptRefuses`,
  `CloseRetry`: `/closed`, `close_trade` with its single retry and
  `close_trade.lua` with its return codes.
* `JustifyLookup`, `JustifyScript`: `/justify`, `mark_override.lua`. The script's
  refusals have no action: after a look-up that found a breach they cannot
  happen, which `JustifyIsAccepted` states and the proofs show.
* `EditTrade`: what `/edit`, `/setpnl` and `/edit_closed` mean to a WATCH.
* `HandlerReplies`, `HandlerFails`: the end of an update, or an exception.
* `ReadOpenSet`, `ReadOverrideSet`: `list_open_trades`; `SkipTrade`,
  `PeekBreachId`, `NewBreachId`, `WatchTrade`, `CommitBreach`, `RetryBreach`,
  `FinishTick`, `MonitorTickFails`: `process_tick` and `create_breach`.
* `Crash`: both tasks lose what they had read.

A change made by one task marks the WATCH of the other (`TouchWatched`).

### BreachAlerting
Extends `TradeStore`; every step of the store becomes a step here, and the
handler and the monitor get the dispatcher calls that follow: `DetectBreach`
then `Arm` then `Announced` (`trigger_breach_alert` registers, then sends),
`CloseAnswers`/`JustifyAnswers` then `StopAlerts`. `ProcessDies` empties memory,
`ResumeState` arms what Redis holds. `CalmAlertingSpec` is the same without
failures and deaths, and without a command between the storing of a breach and its
arming.

### AlertSequences
`process_due_alerts` in detail. `Trigger` and `LoopPolls` take a snapshot and
begin to send; `FinishAlert` is the write-back of lines 159-172 after a send
that succeeded or failed, and the next alert of the snapshot; `RecordAlertFails`
is the exception that ends the process (in the loop) or the tick (in the
monitor); `Stop` is `resolve_breach`; `TimePasses` makes a sequence due. Counts
of alerts sent beyond MaxLevel are not told apart.

### FeedHealth
Two tasks and one down state. The feed (`hyperliquid.py`) loses its connection
or fails to make one (`ConnectionLost`, `ConnectFails`: STALE and DISCONNECTED
events, handled by `DownEvent` with its await in `Counted` or `CountFails`) and
connects (`ConnectQuietly`, or `ConnectAfterAlert` then `RecoverySent`). The
health loop sends (`PollDue`) and writes the state it had read back
(`AlertSent`), whether Telegram has accepted the alert or not: the code does not
ask (`health.py:147`), so `alert_sent` says that an alert was tried. The daily
heartbeat asks the down state, then awaits Redis and
Telegram (`BeatBegins`, `BeatEnds`). `ProcessDies` empties all of it and begins
an outage, the time before the first connection. `downSince` is the adapter's
`_down_since`; a gap is the number of the outage it is counted from.

### TickEvaluation and Rebreach
The trades of one symbol with direction, entry and level (`terms`), their
breaches, and the market's price. `ReceiveTick`, `ListTrades`, `LookAt`,
`CreateBreach` or `BreachRefused`, `Arm`, `Announced`, `FinishTick` and
`TickFails` are `process_tick`; the listed terms stay in the monitor's record
while the handler takes its steps: `NewTrade`, `EditTrade`, `EditClosed` (each
with the check of the side), `Justify`, `Close`, `StopAlerts`. The store's
operations are single steps here, as the proofs about `TradeStore` justify; that
`/closed` may stop no breach although it answers one is kept as a choice in
`Close`. `armed` is `_sequences` with the terms and price each will be shown
with; `LoopSends` and `LoopWritesBack` are the loop's snapshot and write-back;
`ProcessDies` and `ResumeState` rebuild it from the store. History: the terms a
breach was judged by, the trades answered since the listing, the breaches whose
trade was edited since. `IsBreach`, `OnItsSide` and `ClosedAtOrBetter` are the
three comparisons of the code; `Beyond` is the requirement's.
`Rebreach` adds which trades have recovered since their last breach.

### SizingRule and SizingHistory
`LossStreak`, `SizeCap`, `WithinCap` are `rules/sizing.py` over a sequence of
sizes and signs of P&L, newest first, in exact integer units. `SizingHistory`
builds every history a symbol can have, by closing, `/setpnl` and
`/edit_closed` (which may also reorder), and compares the rule with the wording of
REQ-003. The streak is written a second time there, as a cardinality.

### Conversations
The record of trades (`open`, `closed` per symbol, `lastId`) and the one
conversation (`conv`: step, age, draft, pending edit). Steps: `Start`, `Cancel`,
`SymbolStep`, `SizeStep`, `LeverageStep`, `OverrideStep`, `PlainStep` (the
answers that are only given), `ThesisStep` with its two partial failures,
`CloseTrade`, `SetPnl`, `EditOpenTrade`, `PrepareEdit`, `ConfirmEdit` with its
partial failure, `TimePasses`, `Expire`. Two history variables: `moved` (another
command has changed what the conversation was judged by) and `shown` (what the
preview has told the user). There are two leverage thresholds, as in the code:
`BlockThreshold` is the setting the form asks, `EditThreshold` the 20 written
into the edits. `MCConversations` gives the outcomes and edit requests.

Actions are written below a comment that names the function. Operators whose
comment begins with "Faulty" are used by no specification: they are variants of
a definition with a plausible bug, kept to show that each property can fail.

## 4. The runs

| Run | Question | Result |
|---|---|---|
| `trade_store` | Handler and monitor over Redis, every command a step, with exceptions and restarts: do the indexes agree (`TradeIndexesAgree`, `BreachIndexesAgree`), is no closed trade left with an open breach (`NoPendingBreachOnClosedTrade`), does `/closed` only refuse what it may (`RefusalIsTruthful`), can `/justify` be refused after its look-up (`JustifyIsAccepted`), does the listing miss an open trade (`ListingMissesNoOpenTrade`), are answers final, is `TradeLifecycle` implemented? | holds |
| `breach_alerting` | Is a stored, unanswered breach ever silent while the application runs (`UnansweredIsArmed`), is every breach alerted about unless answered first (`EveryBreachIsAlerted`), through failures and a death, and is `AlertingLifecycle` implemented? | holds |
| `answered_breaches` | Without any failure, is an answered breach silent? | violated |
| `alert_sequences` | Do the two senders' overlapping snapshots and the stops make the story of `Escalation` (`ImplementsEscalation`: levels in order, at most one late alert per sender, no stopped sequence back), and does escalation never stall (`EscalationGoesOn`)? | holds |
| `feed_health` | Is a down state that nobody has been alerted about always that of the outage that is on (in `FeedInvariant`), and so the first alert of an outage about that outage (`FirstAlertIsOfThisOutage`), does the heartbeat never say "healthy" of a feed known to be down (`HeartbeatIsHonest`), is every outage reported as long as it lasts (`EveryOutageIsReported`)? | holds |
| `phantom_outage` | Are outage alerts begun only while the feed is down (`phase-1/requirements.md:237`)? | violated |
| `first_gap` | Is the gap in a recovery message that of the outage it ends (`phase-1/requirements.md:262`)? | violated |
| `sizing_rule` | Is the cap that of REQ-003, does it forbid something, is the past before the newest win forgotten, and does a cap in force stay as it is until the next win (`StandingCapIsSteady`)? | holds |
| `conversations` | Are drafts complete at every step (in `ConversationInvariant`), is leverage that both rules call high justified, does the cap hold unless another command moves it, does the preview tell the truth about streak, cap and overwritten P&L, do accepted answers stay, does each trade live one life of `TradeLifecycle` (`RecordKeepsLifecycle`), does every conversation end? | holds |
| `size_at_creation` | Is the cap in force at creation obeyed (`requirements.md:115`)? | violated |
| `tick_evaluation` | Does a tick beyond a level ever end without a breach (`NoBreachIsMissed`), does an alert quote a level nobody broke (`AlertQuotesBrokenLevel`), is adherence earned (`AdherenceIsEarned`), is a price that stays beyond the level found again and again (`LastingBreachIsFound`), does a shown price catch up with the market (`ShownPriceCatchesUp`), and is `AlertingLifecycle` implemented whatever prices and edits do? | holds |
| `rebreach` | Is a justified breach followed by another one only after a recovery (`phase-1/requirements.md:129`)? | violated |

### What the violations say

* `answered_breaches`: the monitor stores a breach after `/closed` has looked
  for one. The script refuses with -2, `close_trade` looks again and answers the
  new breach, but the handler (`handlers.py:211`) stops only the one it saw. The
  trade is closed and its alerts escalate until the process is restarted.
* `rebreach`: `create_breach` refuses only while a breach is unanswered, and
  `process_tick` compares each tick by itself (`monitor.py:96`): after `/justify`
  the next tick that is still beyond the invalidation makes a new breach and a
  new alert, usually a second later.
* `phantom_outage`: the feed comes back while the first alert is being sent. The
  recovery is handled at once and silently, since `alert_sent` is not set yet;
  then the loop writes the outage back (`health.py:160`) and repeats its alert
  over a healthy feed until the next disconnect and reconnect. The same
  write-back can be lost to a down event that was waiting for Redis
  (`health.py:275`), and then the user is never told of the recovery; that is
  listed as a hazard.
* `size_at_creation`: the cap is compared at the size step only
  (`forms.py:208`); a loss closed during the form is not seen by the thesis step.
* `first_gap`: a failed first attempt sets `_down_since` (`hyperliquid.py:235`), and
  the connection that follows is published as CONNECTED, whose branch does not
  clear it (`hyperliquid.py:199`). When that connection is lost, the gap in the
  recovery message counts from the start of the process, all the time the feed has
  streamed included. The theorem `WrongGapsAreFromStart` says that this is the
  whole of it: only the first outage after that connection, and only from the
  start. TLC's shortest trace also passes through the write-back of
  `phantom_outage`, because that is one way to a recovery message; the gap is as
  wrong after an ordinary alert.

Smaller things the models contain and no run asks about:

* The loop may send the first alert of a breach a second time while the monitor
  waits for Telegram (`alerts.py:171` writes the next due time after the send).
* `/edit` asks for a reason from 20 on (`repo.py:961`) where the form asks from
  `leverage_block_threshold` (10 by default) on.
* Whether `/edit_closed` overwrites a P&L set by hand is decided when the preview is
  built (`edit_closed.py:106`), not when it is written: a `/setpnl` in between is
  overwritten without the statement of `phase-1.2/requirements.md:81`.
  `PreviewIsTruthful` excepts it (`moved`).
* `alert_sent` is set also after an alert that was given up, so a recovery message
  may reach a user who has heard of no outage; that Telegram itself may be down is
  an accepted limitation (`phase-1/requirements.md:260`). The other way round,
  `health.py:275` can lose the recovery message a user is owed.

### Bounds, and why they are enough

* `TradeStore`: two trades, three breaches. Two trades let the monitor hold one
  in its listing while the handler works on the other; the third breach lets a
  trade be breached again after a justification while the other is closed. One
  retry of `close_trade` is the code's own limit. Deadlock is checked.
* `BreachAlerting`: two trades, two breaches, one death. A second death finds
  the same states: memory is empty after each.
* `AlertSequences`: two breaches, so that one waits in both snapshots while the
  other is sent; MaxLevel 2, so that an older count can overwrite a newer one.
  Deadlock is off: the process may end.
* `FeedHealth`: five outages or starts of the process, so that an alert of one can
  be written over the next, a third follows, and a restart comes before and
  after (two for `first_gap`: the start and one outage); two disconnects instead of
  five make a flapping connection, the history being a count that any event may
  shorten. Deadlock is off: the last connection
  may hold.
* `SizingHistory`: six trades, one more than the five of the average; two sizes;
  the default settings (two losses, one half). Deadlock is checked; corrections
  are always possible.
* `Conversations`: one symbol, two sizes, a streak of one loss, two trades, one
  tick of time. A streak of one brings a cap about with one closed trade, so two
  trades and a form make every race between a form or an edit and the record.
  Another symbol only adds commands that do not concern the conversation (the
  model with two symbols was run once: no error, 4.5 minutes). Leverage 5 is
  below both thresholds and 20 above both; with 15 in between as well
  1,178,058 states pass, in 5.5 minutes. Seven edit requests cover each field and
  the combination of a size with an outcome. Deadlock is off: all ids may be used.
* `TickEvaluation`: one trade, the prices 1 and 4, the entry 2, the levels 1 and 3:
  a long is broken exactly at its level and a short beyond its own, and an edit
  can turn one into the other. Two breaches, so that a justified one is followed
  by another while the first is still in a snapshot; one death. Trades meet only
  in the order of the monitor's loop, which the model leaves open, and the proofs
  are for any number of them. A breach is owed to a price beyond the level as long
  as there are ids left (`OutOfIds`). 383,138 states. Deadlock is off: market and user
  may stand still.
* `Rebreach`: one level, so one long trade; two breaches, the second after a
  justification; no death. Deadlock is checked.

`MaxTrades`, `MaxBreaches`, `MaxCrashes`, `MaxDeaths` and `MaxOutages` bound
counters in guards and mean nothing else.

### Fairness

* `BreachAlerting`: weak fairness of `ResumeState` (the container is restarted
  and start-up completes), `Arm` (the event loop resumes a task that can go on,
  and nothing between the two awaits it) and `SendAlert` (the loop polls every
  second and Telegram, retried at every interval, accepts a message in the end).
  Deaths are bounded, so a start-up completes.
* `AlertSequences`: the loop polls, a send returns (the client has time-outs;
  it may return a failure), time passes. Success of a delivery is not assumed:
  `EscalationGoesOn` speaks of attempts, and of one life of the process: after a
  death the restart is the business of `EveryBreachIsAlerted`.
* `FeedHealth`: the adapter tries again after every back-off, awaits end, the loop
  polls, time passes; strong fairness of `Counted`, because an outage whose open
  trades can never be counted is never reported: Redis may fail again and again,
  but not for ever.
* `TickEvaluation`: weak fairness of the monitor (frames go on arriving, the event
  loop resumes what can go on), of `LoopWritesBack` (a send returns) and of
  `ResumeState`; strong fairness of `ListTrades` and of `create_breach`: Redis may
  fail tick after tick, but not for ever. The handler, the market and the loop's
  sends are under no fairness.
* `Conversations`: time passes and Redis honours the time to live. Nothing is
  assumed of the user.

## 5. What is proved

All proofs hold for every value of the constants under the named assumptions.
Modules without a theorem are checked by TLC alone.

| Module | Assumptions | Theorems |
|---|---|---|
| `TradeStoreProofs` | `BoundsAssumption`: the bounds are naturals | `StoreInvariant` is an invariant, and with it every safety property of `trade_store`; `Spec` implements `TradeLifecycle` |
| `BreachAlertingProofs` | the same, `CrashesAssumption` | the composition keeps `StoreInvariant` and implements `TradeLifecycle`; `AlertingInvariant` and `UnansweredIsArmed`; it implements `AlertingLifecycle`; where no call fails and no command comes between the storing of a breach and its arming, a justified breach is silent (`JustifiedIsSilent`) |
| `AlertingLifecycleProofs` | for the second theorem, that the value meaning "no breach" is none | `AlertingLifecycle` implements `TradeLifecycle`; `NoBreachIsSilent` |
| `AlertSequencesProofs` | `LevelAssumption`: MaxLevel is a natural | `SequencesInvariant`, `LateAlertsAreBounded`, `NoLevelIsSkipped`; `AlertSequences` implements `Escalation` with at most two late alerts |
| `FeedHealthProofs` | `FeedAssumption`: at least one outage, a positive flapping count | `FeedInvariant`, `FirstAlertIsOfThisOutage`, `HeartbeatIsHonest`; how far `first_gap` goes (`WrongGapIsFromStart`) |
| `TickEvaluationProofs` | `TickAssumption`: prices, entries and levels are positive; the bounds are naturals | `TickInvariant`, `NoBreachIsMissed`, `AlertQuotesBrokenLevel`, `AdherenceIsEarned`; `TickEvaluation` implements `AlertingLifecycle`, and with it `TradeLifecycle` |
| `SizingProofs` | `SizingAssumption`, `HistoryAssumption` | `HistoryTypeOK`, `CapIsAsRequired`, `CapBites`, `OldTradesAreForgotten`, `ClosingMovesTheStreak`, `StandingCapIsSteady` |
| `ConversationsProofs` | `ConversationAssumption`: sizes are positive, leverage is 1 to 125, the edits are well formed; `SizingAssumption` | `ConversationInvariant`, and every safety property of `conversations`, the three action properties included; the record implements `TradeLifecycle` |

The arguments:

* **Store.** The index properties are not inductive alone. `StoreInvariant`
  adds: the active breach of a trade is its one pending breach
  (`ActiveIsPending`); ids not yet handed out, or handed out and not yet used,
  are unused everywhere (`IdsAreFresh`), or a new breach could come with an
  answer; a WATCH that is still clean means the reads are current
  (`WatchIsCurrent`), which is what makes EXEC sound; what the handler
  relies on after its look-up still holds when the script accepts
  (`HandlerReadsHold`); between the two reads of the listing an open trade is
  in the first result or in the set to be read (`ListingCovers`). The refinement
  maps statuses to phases and responses to answers; each Redis step is one
  lifecycle step or a stutter, by cases on Next.
* **Alerting.** Each step of the composition is a step of the store or leaves the
  store alone (`AlertingKeepsStore`), so the store's invariant is taken over.
  `AlertingInvariant` adds that the breach whose alerts the handler is about to
  stop has been answered, so that stopping never silences a live breach. The
  refinement of `AlertingLifecycle` maps `armed` to its sequences and `toArm` to the
  breach that is owed one; most Redis steps stutter, and a restart resumes
  exactly the unanswered breaches because the index `unresolved` is exact (a part of
  `StoreInvariant`). `JustifiedIsSilent` needs, in calm steps
  (no call fails, and no command comes between the storing of a breach and its
  arming), that a justified breach which is still armed is the one about to be
  stopped (`CalmInvariant`). `AlertingLifecycle` implements `TradeLifecycle` by its steps, and
  keeps `NoBreachIsSilent` because no two trades wait for one breach.
* **Sequences.** That a stopped breach stays stopped follows from the write-back's
  check of the registry: what is registered is exactly what is triggered and not
  stopped (`RegistryIsCurrent`). That late alerts are at most two needs to count
  those begun with those that still wait in a snapshot (`SnapshotsAreBounded`);
  that no level is skipped needs the same of every level that waits or is being
  sent (`LowerLevelsAttempted`). The refinement of `Escalation` rests on these three,
  a step of a sender being one alert of it or none.
* **Feed.** `FeedInvariant` says that a down state nobody has been alerted about
  is that of the outage that is on; it survives the write-back because that
  always marks the state as alerted. For the gap it adds
  that `_down_since` is that of the outage that is on, unset, or that of the
  process's start; for the heartbeat, that a feed which does not stream has a down
  state unless its loss has not got there yet.
* **Ticks.** `TickInvariant` adds to `NoBreachIsMissed` that a breach is kept
  together with the terms it was judged by (`BreachesAreJudged`), that every
  sequence and every snapshot of one quotes those terms unless the trade was
  edited and the process restarted (`SequencesQuote`), and that a listed trade is
  open unless answered since (`MonitorHolds`), so that a refusal of
  `create_breach` always has a reason the user knows. That a tick ends with a breach
  for every listed trade beyond its level needs the same of every trade the
  monitor has done with while the tick goes on (`BreachIsFound`); the refinement
  needs that every active breach is armed or about to be while the process runs
  (`ActiveIsArmed`).
* **Sizing.** The streak is a recursive function over the history, and induction
  is not at hand. It is shown to be the number of losses with no newer win
  (`StreakIsCardinality`): that count solves the recursion, and nothing else
  does, since two solutions would differ at a least position; such a position
  exists because strict inclusion is well founded on finite sets of numbers
  (`LeastNatural`). The rest is a comparison of cases, the average of the last
  five being at most the largest size. How a new trade moves the streak is the same
  count again: putting a trade on top shifts the losses by one position, a
  bijection that leaves their number (`LossesShift`), and a loss adds one.
* **Conversations.** That a draft obeys its cap (`SizedWithinCap`) needs drafts that
  match their step (`DraftMatchesStep`), both parts of `ConversationInvariant`, and a
  truthful preview needs that the pending edit names one existing trade
  (`IdsAreUnique`) whose preview was computed from the present record unless
  `moved` (`PreviewStands`), its warning of an overwritten P&L included
  (`PreviewFits`). For the refinement the functions that write the record are
  shown to open, to close, or to keep ids (`StoringOpens`, `ClosingCloses`,
  `RewritingStutters`), which again needs `IdsAreUnique`. The cap itself is used only through congruence: the
  proofs hold for any cap that is a function of the record.

**Only model-checked.** Liveness (`EveryBreachIsAlerted`, `EscalationGoesOn`,
`EveryOutageIsReported`, `LastingBreachIsFound`, `ShownPriceCatchesUp`,
`ConversationsEnd`), which is out of the prover's reach, and the violations.

Proved and asked by no run of their own, because a run asks for something
stronger: the types and the parts of the inductive invariants
(`StoreTypeCorrect`, `ConversationTypeCorrect`, `DraftsMatchSteps`,
`DraftsObeyCap`, `LevelsInOrder`), and what follows from them or from a refinement
(`FewLateAlerts`, `ClosingAnswers`). Two theorems say how far a violation goes:
`JustifiedAlwaysSilent` that of `answered_breaches`, `WrongGapsAreFromStart` that of
`first_gap`. `StreakFollowsOutcomes` is a lemma in all but
name: `CapIsAsRequired` shows its effect.

## 6. What the models leave out

* In `TradeStore` whether a tick breaches is left open (`SkipTrade` or
  `NewBreachId`), so every sequence of ticks is covered; levels and prices are in
  `TickEvaluation`. Alert texts and the lengths of intervals.
* P&L amounts: only the sign counts for the rules. An override that keeps the
  sign is therefore not told from the computed value; what the preview says of an
  overwritten P&L is checked for those that change it. Arithmetic is exact where the code uses floating point,
  and NaN is not a value (`validation.py:222` is a listed hazard).
* Times of trades in `Conversations`: closed trades stay in order of closing;
  `SizingHistory` lets `closed_at` edits reorder them.
* Refused inputs: they change nothing and are no steps.
* The market universe behind the symbol step: two refreshers write one key without
  reading it, either value is a whole universe, and the model takes any symbol.
* The statistics but for adherence: sums over a window of stored trades. A report
  that reads the trades and then their breaches may see a trade still open with a
  breach answered by closing; nothing is stored from it.
* A confirmation of `/edit_closed` that is repeated after its conversation could
  not be cleared writes the same values again; one that comes after a correction
  writes over it, which the model shows and no document forbids.
* Of the health subsystem: the status shown by `/health` and the tiers of delays.
  That a restart forgets the recovery message it owes is in `FeedHealth`; no
  document promises one.
* Lost replies of Redis: a call that does not raise has been carried out and has
  been answered. `create_breach` (`repo.py:447`) would not survive a reply to EXEC
  that is lost and reported as WatchError; see the hazards.
* Redis itself is assumed to execute a command, a transaction and a script
  atomically and to lose nothing. More than one process at a time is not modelled:
  the bot polls Telegram alone.
