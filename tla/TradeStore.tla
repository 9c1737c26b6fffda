----------------------------- MODULE TradeStore -----------------------------
(***************************************************************************)
(* The Redis records of trades and breaches (src/db/repo.py and its three *)
(* Lua scripts) and the two asyncio tasks that change them: the Telegram   *)
(* handler (updates are handled one at a time) and the price monitor.      *)
(*                                                                         *)
(* One step is one Redis command, one MULTI/EXEC transaction or one Lua    *)
(* script: what Redis executes atomically.  Everything a task has read     *)
(* lives in its own record until it is used, so every stale read of the    *)
(* code is a behaviour of the model.                                       *)
(*                                                                         *)
(* MaxTrades and MaxBreaches bound the two id sequences and nothing else.  *)
(***************************************************************************)
EXTENDS Naturals

CONSTANTS MaxTrades, MaxBreaches

ASSUME BoundsAssumption == MaxTrades \in Nat /\ MaxBreaches \in Nat

None == 0
Trades == 1 .. MaxTrades
Breaches == 1 .. MaxBreaches
MaybeTrade == Trades \cup {None}
MaybeBreach == Breaches \cup {None}

VARIABLES
    tradeSeq,     \* seq:trade, the last trade id handed out by INCR
    breachSeq,    \* seq:breach
    status,       \* trade:{id}, field status; "missing" before the hash exists
    statusSet,    \* trades:status:{status}
    allTrades,    \* trades:all, its members
    closedTrades, \* trades:closed, its members
    breachTrade,  \* breach:{id}, field trade_id
    response,     \* breach:{id}, field user_response; "none" while absent
    breachesOf,   \* breaches:trade:{id}, its members
    unresolved,   \* breaches:unresolved
    active,       \* breach:active:{trade id}, None while the key is absent
    handler,      \* the Telegram handler that is running, and what it has read
    monitor,      \* Monitor.process_tick, and what it has read
    openAtPoll    \* history: the trades open when the monitor began listing

tradeVars == <<status, statusSet, allTrades, closedTrades>>
breachVars == <<breachTrade, response, breachesOf, unresolved, active>>
seqVars == <<tradeSeq, breachSeq>>
vars == <<tradeVars, breachVars, seqVars, handler, monitor, openAtPoll>>

Statuses == {"OPEN", "OPEN_OVERRIDE", "CLOSED"}
OpenStatuses == {"OPEN", "OPEN_OVERRIDE"}
Responses == {"missing", "none", "closed", "justified"}

IdleHandler == [pc |-> "idle", trade |-> None, breach |-> None, attempt |-> 1]
IdleMonitor == [pc |-> "idle", pending |-> {}, trade |-> None,
                breach |-> None, watch |-> "clean"]

TypeOK ==
    /\ tradeSeq \in 0 .. MaxTrades
    /\ breachSeq \in 0 .. MaxBreaches
    /\ status \in [Trades -> Statuses \cup {"missing"}]
    /\ statusSet \in [Statuses -> SUBSET Trades]
    /\ allTrades \in SUBSET Trades
    /\ closedTrades \in SUBSET Trades
    /\ breachTrade \in [Breaches -> MaybeTrade]
    /\ response \in [Breaches -> Responses]
    /\ breachesOf \in [Trades -> SUBSET Breaches]
    /\ unresolved \in SUBSET Breaches
    /\ active \in [Trades -> MaybeBreach]
    /\ handler \in [pc : {"idle", "creating", "closing", "checked", "conflict",
                          "justifying", "refused"},
                    trade : MaybeTrade, breach : MaybeBreach, attempt : {1, 2}]
    /\ monitor \in [pc : {"idle", "overrides", "trades", "allocated", "watching"},
                    pending : SUBSET Trades, trade : MaybeTrade,
                    breach : MaybeBreach, watch : {"clean", "touched"}]
    /\ openAtPoll \in SUBSET Trades

Init ==
    /\ tradeSeq = 0
    /\ breachSeq = 0
    /\ status = [t \in Trades |-> "missing"]
    /\ statusSet = [s \in Statuses |-> {}]
    /\ allTrades = {}
    /\ closedTrades = {}
    /\ breachTrade = [b \in Breaches |-> None]
    /\ response = [b \in Breaches |-> "missing"]
    /\ breachesOf = [t \in Trades |-> {}]
    /\ unresolved = {}
    /\ active = [t \in Trades |-> None]
    /\ handler = IdleHandler
    /\ monitor = IdleMonitor
    /\ openAtPoll = {}

IsOpen(t) == status[t] \in OpenStatuses

-----------------------------------------------------------------------------
(* A definition marked "Faulty" is a plausible slip in the code of the        *)
(* definition that follows it; PROJECT.json names the property that catches  *)
(* it.  Faulty definitions are no part of the specification.                 *)

(* WATCH: a write to trade:{t} or breach:active:{t} by another connection    *)
(* makes the monitor's EXEC fail.                                           *)

(* Faulty: breach:active and trade:{id} are not watched. *)
TouchNothing(t) == UNCHANGED monitor

TouchWatched(t) ==
    monitor' = IF monitor.pc = "watching" /\ monitor.trade = t
               THEN [monitor EXCEPT !.watch = "touched"] ELSE monitor

(* Faulty: no SREM from breaches:unresolved. *)
AnswerKeepsUnresolved(t, b, reply) ==
    /\ response' = [response EXCEPT ![b] = reply]
    /\ active' = [active EXCEPT ![t] = None]
    /\ UNCHANGED <<unresolved, breachTrade, breachesOf>>

(* The answer both scripts write on breach b of trade t: the response is     *)
(* recorded, the breach leaves the unresolved set, the active key goes.      *)
Answer(t, b, reply) ==
    /\ response' = [response EXCEPT ![b] = reply]
    /\ unresolved' = unresolved \ {b}
    /\ active' = [active EXCEPT ![t] = None]
    /\ UNCHANGED <<breachTrade, breachesOf>>

-----------------------------------------------------------------------------
(* create_trade: INCR, then one transaction writes the hash and the indexes. *)

NewTradeId ==
    /\ handler.pc = "idle"
    /\ tradeSeq < MaxTrades
    /\ tradeSeq' = tradeSeq + 1
    /\ handler' = [IdleHandler EXCEPT !.pc = "creating", !.trade = tradeSeq + 1]
    /\ UNCHANGED <<tradeVars, breachVars, breachSeq, monitor, openAtPoll>>

CommitTrade ==
    /\ handler.pc = "creating"
    /\ LET t == handler.trade IN
        /\ status' = [status EXCEPT ![t] = "OPEN"]
        /\ statusSet' = [statusSet EXCEPT !["OPEN"] = @ \cup {t}]
        /\ allTrades' = allTrades \cup {t}
        /\ TouchWatched(t)
    /\ handler' = IdleHandler
    /\ UNCHANGED <<closedTrades, breachVars, seqVars, openAtPoll>>

-----------------------------------------------------------------------------
(* /closed: read the active breach, then close_trade.                        *)

CloseLookup(t) ==
    /\ handler.pc = "idle"
    /\ handler' = [IdleHandler EXCEPT !.pc = "closing", !.trade = t, !.breach = active[t]]
    /\ UNCHANGED <<tradeVars, breachVars, seqVars, monitor, openAtPoll>>

CloseCheck ==
    /\ handler.pc = "closing"
    /\ handler' = [handler EXCEPT !.pc = IF IsOpen(handler.trade) THEN "checked" ELSE "refused"]
    /\ UNCHANGED <<tradeVars, breachVars, seqVars, monitor, openAtPoll>>

(* Faulty: the script trusts a caller that has seen no breach (no -2). *)
CloseTrustsCaller(t, b) == b # None => active[t] = b /\ response[b] = "none"

(* The script closes the trade only if what the caller believes about the    *)
(* active breach is what is stored, and that breach is still unanswered.     *)
CloseAgrees(t, b) ==
    /\ active[t] = b
    /\ b # None => response[b] = "none"

CloseScript ==
    /\ handler.pc = "checked"
    /\ LET t == handler.trade
           b == handler.breach
       IN  /\ IsOpen(t)
           /\ CloseAgrees(t, b)
           /\ status' = [status EXCEPT ![t] = "CLOSED"]
           /\ statusSet' = [s \in Statuses |-> IF s = "CLOSED" THEN statusSet[s] \cup {t}
                                               ELSE statusSet[s] \ {t}]
           /\ closedTrades' = closedTrades \cup {t}
           /\ TouchWatched(t)
           /\ IF b = None THEN UNCHANGED breachVars ELSE Answer(t, b, "closed")
    /\ handler' = IdleHandler
    /\ UNCHANGED <<allTrades, seqVars, openAtPoll>>

(* Faulty: -2 is reported to the user like the other refusals. *)
CloseNeverRetries ==
    /\ handler.pc = "checked"
    /\ ~ (IsOpen(handler.trade) /\ CloseAgrees(handler.trade, handler.breach))
    /\ handler' = [handler EXCEPT !.pc = "refused"]
    /\ UNCHANGED <<tradeVars, breachVars, seqVars, monitor, openAtPoll>>

(* Result -2: called without a breach while one is active.  Only the first   *)
(* attempt may look again; any other refusal ends the command.               *)
CloseScriptRefuses ==
    /\ handler.pc = "checked"
    /\ ~ (IsOpen(handler.trade) /\ CloseAgrees(handler.trade, handler.breach))
    /\ LET conflict == /\ IsOpen(handler.trade)
                       /\ handler.breach = None
                       /\ handler.attempt = 1
       IN  handler' = [handler EXCEPT !.pc = IF conflict THEN "conflict" ELSE "refused"]
    /\ UNCHANGED <<tradeVars, breachVars, seqVars, monitor, openAtPoll>>

CloseRetry ==
    /\ handler.pc = "conflict"
    /\ handler' = [handler EXCEPT !.pc = "closing", !.breach = active[handler.trade],
                                  !.attempt = 2]
    /\ UNCHANGED <<tradeVars, breachVars, seqVars, monitor, openAtPoll>>

-----------------------------------------------------------------------------
(* /justify: read the active breach, then mark_override.                     *)

JustifyLookup(t) ==
    /\ handler.pc = "idle"
    /\ active[t] # None
    /\ handler' = [IdleHandler EXCEPT !.pc = "justifying", !.trade = t, !.breach = active[t]]
    /\ UNCHANGED <<tradeVars, breachVars, seqVars, monitor, openAtPoll>>

(* Faulty: the trade is added to OPEN_OVERRIDE and stays in OPEN. *)
JustifyKeepsOpenIndex ==
    /\ handler.pc = "justifying"
    /\ LET t == handler.trade
           b == handler.breach
       IN  /\ IsOpen(t) /\ active[t] = b /\ response[b] = "none"
           /\ status' = [status EXCEPT ![t] = "OPEN_OVERRIDE"]
           /\ statusSet' = [statusSet EXCEPT !["OPEN_OVERRIDE"] = @ \cup {t}]
           /\ TouchWatched(t) /\ Answer(t, b, "justified")
    /\ handler' = IdleHandler
    /\ UNCHANGED <<allTrades, closedTrades, seqVars, openAtPoll>>

OverrideAgrees(t, b) == IsOpen(t) /\ active[t] = b /\ response[b] = "none"

(* mark_override.lua.  Its refusals (trade closed, another breach active,    *)
(* breach answered) cannot follow a look-up that found a breach: see         *)
(* JustifyIsAccepted.                                                        *)
JustifyScript ==
    /\ handler.pc = "justifying"
    /\ LET t == handler.trade
           b == handler.breach
       IN  /\ OverrideAgrees(t, b)
           /\ status' = [status EXCEPT ![t] = "OPEN_OVERRIDE"]
           /\ statusSet' = [statusSet EXCEPT !["OPEN"] = @ \ {t}, !["OPEN_OVERRIDE"] = @ \cup {t}]
           /\ TouchWatched(t)
           /\ Answer(t, b, "justified")
    /\ handler' = IdleHandler
    /\ UNCHANGED <<allTrades, closedTrades, seqVars, openAtPoll>>

-----------------------------------------------------------------------------
(* /edit, /setpnl and /edit_closed rewrite fields of a trade hash.  The      *)
(* handler is the only writer of trade hashes, so its own WATCH never fails  *)
(* and the edit is one step; it invalidates the monitor's WATCH.             *)
EditTrade(t) ==
    /\ handler.pc = "idle"
    /\ status[t] # "missing"
    /\ TouchWatched(t)
    /\ UNCHANGED <<tradeVars, breachVars, seqVars, handler, openAtPoll>>

(* The refusal is sent to the user; or a Redis call raises and safe_handler  *)
(* answers with the error: what was committed stays committed.               *)
HandlerReplies ==
    /\ handler.pc = "refused"
    /\ handler' = IdleHandler
    /\ UNCHANGED <<tradeVars, breachVars, seqVars, monitor, openAtPoll>>

HandlerFails ==
    /\ handler.pc \notin {"idle", "refused"}
    /\ handler' = IdleHandler
    /\ UNCHANGED <<tradeVars, breachVars, seqVars, monitor, openAtPoll>>

-----------------------------------------------------------------------------
(* Monitor.process_tick: list_open_trades, then create_breach for each trade *)
(* whose invalidation the tick breaches.                                     *)

ReadOpenSet ==
    /\ monitor.pc = "idle"
    /\ monitor' = [IdleMonitor EXCEPT !.pc = "overrides", !.pending = statusSet["OPEN"]]
    /\ openAtPoll' = {t \in Trades : IsOpen(t)}
    /\ UNCHANGED <<tradeVars, breachVars, seqVars, handler>>

(* Faulty: the second SMEMBERS replaces the first instead of joining it. *)
ReadOverrideSetOnly ==
    /\ monitor.pc = "overrides"
    /\ monitor' = [monitor EXCEPT !.pc = "trades", !.pending = statusSet["OPEN_OVERRIDE"]]
    /\ UNCHANGED <<tradeVars, breachVars, seqVars, handler, openAtPoll>>

ReadOverrideSet ==
    /\ monitor.pc = "overrides"
    /\ monitor' = [monitor EXCEPT !.pc = "trades",
                                  !.pending = @ \cup statusSet["OPEN_OVERRIDE"]]
    /\ UNCHANGED <<tradeVars, breachVars, seqVars, handler, openAtPoll>>

(* Another symbol, or the price is on the right side of the invalidation.    *)
SkipTrade(t) ==
    /\ monitor.pc = "trades"
    /\ t \in monitor.pending
    /\ monitor' = [monitor EXCEPT !.pending = @ \ {t}]
    /\ UNCHANGED <<tradeVars, breachVars, seqVars, handler, openAtPoll>>

(* Faulty: the id is computed from the sequence, which is not advanced. *)
PeekBreachId(t) ==
    /\ monitor.pc = "trades"
    /\ t \in monitor.pending
    /\ breachSeq < MaxBreaches
    /\ monitor' = [monitor EXCEPT !.pc = "allocated", !.pending = @ \ {t},
                                  !.trade = t, !.breach = breachSeq + 1]
    /\ UNCHANGED <<tradeVars, breachVars, seqVars, handler, openAtPoll>>

NewBreachId(t) ==
    /\ monitor.pc = "trades"
    /\ t \in monitor.pending
    /\ breachSeq < MaxBreaches
    /\ breachSeq' = breachSeq + 1
    /\ monitor' = [monitor EXCEPT !.pc = "allocated", !.pending = @ \ {t},
                                  !.trade = t, !.breach = breachSeq + 1]
    /\ UNCHANGED <<tradeVars, breachVars, tradeSeq, handler, openAtPoll>>

MonitorMovesOn == [monitor EXCEPT !.pc = "trades", !.trade = None,
                                  !.breach = None, !.watch = "clean"]

(* WATCH, HGETALL and GET: any write between them makes EXEC fail, so they   *)
(* are one step.                                                             *)
(* Faulty: only the status of the trade is looked at. *)
WatchIgnoresActive ==
    /\ monitor.pc = "allocated"
    /\ monitor' = IF IsOpen(monitor.trade)
                  THEN [monitor EXCEPT !.pc = "watching", !.watch = "clean"]
                  ELSE MonitorMovesOn
    /\ UNCHANGED <<tradeVars, breachVars, seqVars, handler, openAtPoll>>

WatchTrade ==
    /\ monitor.pc = "allocated"
    /\ monitor' = IF IsOpen(monitor.trade) /\ active[monitor.trade] = None
                  THEN [monitor EXCEPT !.pc = "watching", !.watch = "clean"]
                  ELSE MonitorMovesOn
    /\ UNCHANGED <<tradeVars, breachVars, seqVars, handler, openAtPoll>>

(* The transaction: HSET leaves a user_response that is already there.       *)
StoreBreach(t, b) ==
    /\ breachTrade' = [breachTrade EXCEPT ![b] = t]
    /\ response' = [response EXCEPT ![b] = IF @ = "missing" THEN "none" ELSE @]
    /\ breachesOf' = [breachesOf EXCEPT ![t] = @ \cup {b}]
    /\ unresolved' = unresolved \cup {b}
    /\ active' = [active EXCEPT ![t] = b]

CommitBreach ==
    /\ monitor.pc = "watching"
    /\ monitor.watch = "clean"
    /\ StoreBreach(monitor.trade, monitor.breach)
    /\ monitor' = MonitorMovesOn
    /\ UNCHANGED <<tradeVars, seqVars, handler, openAtPoll>>

(* WatchError: the transaction is dropped and the loop reads again.          *)
RetryBreach ==
    /\ monitor.pc = "watching"
    /\ monitor.watch = "touched"
    /\ monitor' = [monitor EXCEPT !.pc = "allocated"]
    /\ UNCHANGED <<tradeVars, breachVars, seqVars, handler, openAtPoll>>

FinishTick ==
    /\ monitor.pc = "trades"
    /\ monitor.pending = {}
    /\ monitor' = IdleMonitor
    /\ openAtPoll' = {}
    /\ UNCHANGED <<tradeVars, breachVars, seqVars, handler>>

(* A Redis call raises: Monitor.run logs it and waits for the next tick; the *)
(* trades still pending are not evaluated against this one.                  *)
MonitorTickFails ==
    /\ monitor.pc # "idle"
    /\ monitor' = IdleMonitor
    /\ openAtPoll' = {}
    /\ UNCHANGED <<tradeVars, breachVars, seqVars, handler>>

-----------------------------------------------------------------------------
(* The process dies and is started again: Redis keeps what was committed.    *)
Crash ==
    /\ handler' = IdleHandler
    /\ monitor' = IdleMonitor
    /\ openAtPoll' = {}
    /\ UNCHANGED <<tradeVars, breachVars, seqVars>>

HandlerNext ==
    \/ NewTradeId \/ CommitTrade
    \/ \E t \in Trades : CloseLookup(t) \/ JustifyLookup(t) \/ EditTrade(t)
    \/ CloseCheck \/ CloseScript \/ CloseScriptRefuses \/ CloseRetry
    \/ JustifyScript \/ HandlerReplies \/ HandlerFails

MonitorNext ==
    \/ ReadOpenSet \/ ReadOverrideSet
    \/ \E t \in Trades : SkipTrade(t) \/ NewBreachId(t)
    \/ WatchTrade \/ CommitBreach \/ RetryBreach
    \/ FinishTick \/ MonitorTickFails

Next == HandlerNext \/ MonitorNext \/ Crash

Spec == Init /\ [][Next]_vars

-----------------------------------------------------------------------------
(* Correctness.                                                              *)

(* Every trade is in the status index its hash says, in no other, in         *)
(* trades:all from the moment it exists and in trades:closed exactly when it *)
(* is closed: create_trade and the two scripts keep the five keys in step,   *)
(* although each of them is told only part of the keys.                      *)
TradeIndexesAgree ==
    /\ \A s \in Statuses : statusSet[s] = {t \in Trades : status[t] = s}
    /\ allTrades = {t \in Trades : status[t] # "missing"}
    /\ closedTrades = {t \in Trades : status[t] = "CLOSED"}

(* The breach hash, breaches:trade, breaches:unresolved and breach:active    *)
(* tell the same story: a breach is unresolved exactly when it is the active *)
(* breach of the trade it belongs to, so a trade never has two of them       *)
(* although the monitor and the handler write them from different reads.     *)
BreachIndexesAgree ==
    /\ unresolved = {b \in Breaches : response[b] = "none"}
    /\ \A t \in Trades :
          breachesOf[t] = {b \in Breaches : response[b] # "missing" /\ breachTrade[b] = t}
    /\ \A b \in Breaches :
          response[b] = "none" <=> \E t \in Trades : active[t] = b /\ breachTrade[b] = t

(* A closed trade has no breach that still waits for an answer, whichever    *)
(* way /closed and the monitor's create_breach overlap.                      *)
NoPendingBreachOnClosedTrade ==
    \A b \in unresolved : IsOpen(breachTrade[b])

(* When /closed tells the user that there is nothing to close, the trade is  *)
(* indeed no longer open: one retry after a concurrent breach is enough, and *)
(* a breach the handler has read cannot be answered behind its back.         *)
RefusalIsTruthful ==
    handler.pc = "refused" => ~ IsOpen(handler.trade)

(* /justify that has found a breach is not refused: whatever the monitor     *)
(* commits before the script runs, the trade is open and that breach is its  *)
(* active one, still unanswered.                                             *)
JustifyIsAccepted ==
    handler.pc = "justifying" => OverrideAgrees(handler.trade, handler.breach)

(* The monitor reads the two status sets with two commands.  No trade that   *)
(* was open at the first and still is at the second is missing from the list *)
(* it evaluates, even if /justify moves the trade between the sets meanwhile.*)
ListingMissesNoOpenTrade ==
    [][monitor.pc = "overrides" /\ monitor'.pc = "trades"
         => {t \in openAtPoll : IsOpen(t)} \subseteq monitor'.pending]_vars

(* An answer is written once: no later close, justification or breach        *)
(* rewrites the history the statistics are computed from.                    *)
AnswersAreFinal ==
    [][\A b \in Breaches : response[b] \in {"closed", "justified"}
         => response'[b] = response[b] /\ breachTrade'[b] = breachTrade[b]]_vars

(* A trade moves only from open to override to closed, and leaves the open   *)
(* statuses together with the answer to its breach.                          *)
ClosingAnswersTheBreach ==
    [][\A t \in Trades : IsOpen(t) /\ ~ IsOpen(t)' /\ active[t] # None
         => response'[active[t]] = "closed"]_vars

(* The repository implements the one-step life cycle.                        *)
PhaseOf(s) == CASE s = "missing" -> "unopened"
                [] s = "OPEN" -> "open"
                [] s = "OPEN_OVERRIDE" -> "override"
                [] s = "CLOSED" -> "closed"

AnswerOf(r) == IF r \in {"closed", "justified"} THEN r ELSE "unanswered"

Lifecycle == INSTANCE TradeLifecycle WITH
    phase <- [t \in Trades |-> PhaseOf(status[t])],
    pending <- active,
    answer <- [b \in Breaches |-> AnswerOf(response[b])]

(* Every behaviour of the two tasks over Redis is, step by step, a behaviour *)
(* of TradeLifecycle: no interleaving, crash or failed call is visible in    *)
(* the stored story of a trade.                                              *)
ImplementsLifecycle == Lifecycle!LifecycleSpec

-----------------------------------------------------------------------------
(* The inductive strengthening of the invariants above: what each task may   *)
(* still rely on of the things it has read.                                  *)

(* The active key names an unanswered breach of that very, open, trade.      *)
ActiveIsPending ==
    \A t \in Trades : active[t] # None =>
        /\ IsOpen(t)
        /\ response[active[t]] = "none"
        /\ breachTrade[active[t]] = t

(* Ids beyond the sequences are unused, and so are the ids handed out to a   *)
(* transaction that has not committed.                                       *)
IdsAreFresh ==
    /\ \A t \in Trades : status[t] # "missing" => t <= tradeSeq
    /\ \A b \in Breaches : response[b] # "missing" => b <= breachSeq
    /\ handler.pc = "creating" =>
          handler.trade \in Trades /\ handler.trade <= tradeSeq /\ status[handler.trade] = "missing"
    /\ monitor.pc \in {"allocated", "watching"} =>
          /\ monitor.trade \in Trades
          /\ monitor.breach \in Breaches
          /\ monitor.breach <= breachSeq
          /\ response[monitor.breach] = "missing"

(* Until its WATCH is touched the monitor's reads are current.               *)
WatchIsCurrent ==
    monitor.pc = "watching" /\ monitor.watch = "clean" =>
        IsOpen(monitor.trade) /\ active[monitor.trade] = None

(* A breach the handler has read stays the active one: the monitor only adds *)
(* breaches to trades that have none.                                        *)
HandlerReadsHold ==
    /\ handler.pc \in {"closing", "checked", "conflict", "justifying", "refused"}
          => handler.trade \in Trades
    /\ handler.pc \in {"closing", "checked"} /\ handler.breach # None
          => active[handler.trade] = handler.breach
    /\ handler.pc \in {"closing", "checked"} /\ handler.attempt = 2 => handler.breach # None
    /\ handler.pc \in {"checked", "conflict"} => IsOpen(handler.trade)
    /\ handler.pc = "conflict" => active[handler.trade] # None
    /\ handler.pc = "justifying"
          => handler.breach # None /\ active[handler.trade] = handler.breach

(* Between the two reads of list_open_trades, an open trade of the first has *)
(* been read already or is in the set about to be read.                      *)
ListingCovers ==
    /\ \A t \in openAtPoll : status[t] # "missing"
    /\ monitor.pc = "overrides" =>
          \A t \in openAtPoll : IsOpen(t) => t \in monitor.pending \/ status[t] = "OPEN_OVERRIDE"

(* The conjunction TradeStoreProofs shows to be inductive.                   *)
StoreInvariant ==
    /\ TypeOK
    /\ TradeIndexesAgree
    /\ BreachIndexesAgree
    /\ ActiveIsPending
    /\ IdsAreFresh
    /\ WatchIsCurrent
    /\ HandlerReadsHold
    /\ ListingCovers
    /\ RefusalIsTruthful
=============================================================================
