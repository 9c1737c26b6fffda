--------------------------- MODULE BreachAlerting ---------------------------
(***************************************************************************)
(* Which breaches are being alerted about: the store of TradeStore         *)
(* composed with the alert sequences that AlertDispatcher keeps in memory  *)
(* (src/monitor/alerts.py).  The monitor arms a sequence after the         *)
(* transaction that stores the breach, the handler stops it after the      *)
(* script that answers it, and after a restart resume_state                *)
(* (src/app.py) arms what Redis still holds.  What one sequence sends, and *)
(* when, is the subject of AlertSequences; which price breaches which      *)
(* level, that of TickEvaluation.                                          *)
(*                                                                         *)
(* MaxCrashes bounds how often the process dies and nothing else.          *)
(***************************************************************************)
EXTENDS TradeStore

CONSTANT MaxCrashes

ASSUME CrashesAssumption == MaxCrashes \in Nat

VARIABLES
    app,        \* "booting": started again, resume_state has not finished
    armed,      \* AlertDispatcher._sequences, its keys
    toArm,      \* the breach process_tick has stored and is about to arm
    announcing, \* process_tick is inside trigger_breach_alert, sending
    toStop,     \* the breach the handler has answered and is about to stop
    alerted,    \* history: the breaches an alert has been sent about
    crashes     \* how often the process has died

memoryVars == <<armed, toArm, announcing, toStop>>
alertingVars == <<vars, app, memoryVars, alerted, crashes>>

AlertingTypeOK ==
    /\ app \in {"running", "booting"}
    /\ armed \in SUBSET Breaches
    /\ toArm \in MaybeBreach
    /\ announcing \in {"yes", "no"}
    /\ toStop \in MaybeBreach
    /\ alerted \in SUBSET Breaches
    /\ crashes \in 0 .. MaxCrashes

(* The application starts on an empty store: resume_state finds nothing.     *)
AlertingInit ==
    /\ Init
    /\ app = "running"
    /\ armed = {}
    /\ toArm = None
    /\ announcing = "no"
    /\ toStop = None
    /\ alerted = {}
    /\ crashes = 0

HandlerFree == app = "running" /\ toStop = None
MonitorFree == app = "running" /\ toArm = None /\ announcing = "no"

-----------------------------------------------------------------------------
(* The Telegram handler.                                                     *)

CommandStep ==
    /\ HandlerFree
    /\ \/ NewTradeId \/ CommitTrade
       \/ \E t \in Trades : CloseLookup(t) \/ JustifyLookup(t) \/ EditTrade(t)
       \/ CloseCheck \/ CloseScriptRefuses \/ CloseRetry
       \/ HandlerReplies
    /\ UNCHANGED <<app, memoryVars, alerted, crashes>>

CommandGivesUp ==
    /\ HandlerFree
    /\ HandlerFails
    /\ UNCHANGED <<app, memoryVars, alerted, crashes>>

(* The handler stops the alerts of the breach it has looked up itself; that  *)
(* close_trade found another one on its retry, it is not told.               *)
CloseAnswers ==
    /\ HandlerFree
    /\ CloseScript
    /\ toStop' = IF handler.attempt = 1 THEN handler.breach ELSE None
    /\ UNCHANGED <<app, armed, toArm, announcing, alerted, crashes>>

JustifyAnswers ==
    /\ HandlerFree
    /\ JustifyScript
    /\ toStop' = handler.breach
    /\ UNCHANGED <<app, armed, toArm, announcing, alerted, crashes>>

(* Faulty: every sequence is dropped, as if one breach were live at a time.  *)
StopEverything ==
    /\ app = "running"
    /\ toStop # None
    /\ armed' = {}
    /\ toStop' = None
    /\ UNCHANGED <<vars, app, toArm, announcing, alerted, crashes>>

StopAlerts ==
    /\ app = "running"
    /\ toStop # None
    /\ armed' = armed \ {toStop}
    /\ toStop' = None
    /\ UNCHANGED <<vars, app, toArm, announcing, alerted, crashes>>

(* close_trade and mark_override read the trade once more after their        *)
(* script; if that raises, the handler never gets to resolve_breach.         *)
StopNeverReached ==
    /\ app = "running"
    /\ toStop # None
    /\ toStop' = None
    /\ UNCHANGED <<vars, app, armed, toArm, announcing, alerted, crashes>>

-----------------------------------------------------------------------------
(* The monitor.                                                              *)

TickStep ==
    /\ MonitorFree
    /\ \/ ReadOpenSet \/ ReadOverrideSet
       \/ \E t \in Trades : SkipTrade(t) \/ NewBreachId(t)
       \/ WatchTrade \/ RetryBreach \/ FinishTick
    /\ UNCHANGED <<app, memoryVars, alerted, crashes>>

TickGivesUp ==
    /\ MonitorFree
    /\ MonitorTickFails
    /\ UNCHANGED <<app, memoryVars, alerted, crashes>>

DetectBreach ==
    /\ MonitorFree
    /\ CommitBreach
    /\ toArm' = monitor.breach
    /\ UNCHANGED <<app, armed, announcing, toStop, alerted, crashes>>

(* trigger_breach_alert registers the sequence before its first await.       *)
Arm ==
    /\ app = "running"
    /\ toArm # None
    /\ armed' = armed \cup {toArm}
    /\ toArm' = None
    /\ announcing' = "yes"
    /\ UNCHANGED <<vars, app, toStop, alerted, crashes>>

(* process_due_alerts returns to process_tick.                               *)
Announced ==
    /\ app = "running"
    /\ announcing = "yes"
    /\ announcing' = "no"
    /\ UNCHANGED <<vars, app, armed, toArm, toStop, alerted, crashes>>

(* record_alert raises inside it: Monitor.run gives up the rest of the tick. *)
AnnouncingFails ==
    /\ app = "running"
    /\ announcing = "yes"
    /\ announcing' = "no"
    /\ MonitorTickFails
    /\ UNCHANGED <<app, armed, toArm, toStop, alerted, crashes>>

(* The alert loop, or the monitor from Arm to Announced, sends what is due.  *)
(* An attempt that Telegram refuses leaves everything as it is.              *)
SendAlert(b) ==
    /\ app = "running"
    /\ b \in armed
    /\ alerted' = alerted \cup {b}
    /\ UNCHANGED <<vars, app, memoryVars, crashes>>

-----------------------------------------------------------------------------
(* Restart.                                                                  *)

ProcessDies ==
    /\ crashes < MaxCrashes
    /\ crashes' = crashes + 1
    /\ app' = "booting"
    /\ armed' = {}
    /\ toArm' = None
    /\ announcing' = "no"
    /\ toStop' = None
    /\ Crash
    /\ UNCHANGED alerted

(* Faulty: trades the user has justified once are left out.                  *)
ResumeOpenOnly ==
    /\ app = "booting"
    /\ app' = "running"
    /\ armed' = {b \in unresolved : status[breachTrade[b]] = "OPEN"}
    /\ UNCHANGED <<vars, toArm, announcing, toStop, alerted, crashes>>

(* Faulty: the sequences are not rebuilt.                                    *)
ForgetfulResume ==
    /\ app = "booting"
    /\ app' = "running"
    /\ UNCHANGED <<vars, memoryVars, alerted, crashes>>

(* resume_state runs before the first update and the first tick are taken.   *)
(* If Redis refuses a call the process dies again and nothing has changed.   *)
ResumeState ==
    /\ app = "booting"
    /\ app' = "running"
    /\ armed' = {b \in unresolved : IsOpen(breachTrade[b])}
    /\ UNCHANGED <<vars, toArm, announcing, toStop, alerted, crashes>>

RegularStep ==
    \/ CommandStep \/ CloseAnswers \/ JustifyAnswers \/ StopAlerts
    \/ TickStep \/ DetectBreach \/ Arm \/ Announced
    \/ \E b \in Breaches : SendAlert(b)

AlertingNext ==
    \/ RegularStep
    \/ CommandGivesUp \/ StopNeverReached \/ TickGivesUp \/ AnnouncingFails
    \/ ProcessDies \/ ResumeState

AlertingSpec == AlertingInit /\ [][AlertingNext]_alertingVars

(* Fairness: the container is started again, the event loop runs a task that *)
(* can go on, and the alert loop polls every second; Telegram, retried three *)
(* times and again at every interval, accepts a message in the end.          *)
AlertingFairness ==
    /\ WF_alertingVars(ResumeState)
    /\ WF_alertingVars(Arm)
    /\ \A b \in Breaches : WF_alertingVars(SendAlert(b))

FairAlertingSpec == AlertingSpec /\ AlertingFairness

(* Nothing fails, and no command comes between the transaction that stores a *)
(* breach and the monitor's next step.                                       *)
CalmStep == RegularStep /\ (toArm # None => toArm' = None)

CalmAlertingSpec == AlertingInit /\ [][CalmStep]_alertingVars

-----------------------------------------------------------------------------
(* Correctness.                                                              *)

(* While the application runs, every breach the user has not answered is     *)
(* armed, or the monitor is on the way from the transaction to the           *)
(* dispatcher: no interleaving of ticks, commands, failures and restarts     *)
(* lets a live breach fall silent.                                           *)
UnansweredIsArmed ==
    app = "running" => \A b \in unresolved : b \in armed \/ b = toArm

(* The user hears of every breach unless the breach has been answered first, *)
(* even if the process dies between storing and arming it.                   *)
EveryBreachIsAlerted ==
    \A b \in Breaches : b \in unresolved ~> b \in alerted \/ b \notin unresolved

(* requirements.md:148-149: /closed and /justify stop the escalation.  Once  *)
(* the handler is at rest, an answered breach is silent.                     *)
AnsweredIsSilent ==
    handler.pc = "idle" /\ toStop = None => armed \subseteq unresolved

(* How far that fails (it does: close_trade's retry answers a breach the     *)
(* handler has not looked up): in calm steps a justified breach is silent,   *)
(* so that what is still alerted about is a trade closed by a retry.         *)
JustifiedIsSilent ==
    toStop = None => \A b \in armed : response[b] # "justified"

(* Its inductive strengthening.                                              *)
CalmInvariant ==
    /\ toArm # None => response[toArm] = "none"
    /\ \A b \in armed : response[b] # "missing" /\ (response[b] = "justified" => b = toStop)

(* The inductive strengthening: the breach whose alerts the handler is about *)
(* to stop has been answered.                                                *)
AlertingInvariant ==
    /\ AlertingTypeOK
    /\ UnansweredIsArmed
    /\ toStop # None => response[toStop] \in {"closed", "justified"}

(* The composition implements what AlertingLifecycle promises: the two       *)
(* tasks' interleavings, failed calls and restarts are invisible in it, and  *)
(* no step of theirs takes a sequence from a breach that waits.              *)
Alerting == INSTANCE AlertingLifecycle WITH
    phase <- [t \in Trades |-> PhaseOf(status[t])],
    pending <- active,
    answer <- [b \in Breaches |-> AnswerOf(response[b])],
    sequences <- armed,
    owed <- toArm

ImplementsAlerting == Alerting!AlertingLifecycleSpec
=============================================================================
