------------------------ MODULE BreachAlertingProofs ------------------------
(***************************************************************************)
(* TLAPS proofs about BreachAlerting: alerting does not disturb the store, *)
(* so every theorem of TradeStoreProofs carries over, and no unanswered    *)
(* breach falls silent.                                                    *)
(***************************************************************************)
EXTENDS BreachAlerting, TradeStoreProofs

USE CrashesAssumption DEF CrashesAssumption

(* Every step of the composition is a step of the store, or leaves it alone. *)
LEMMA AlertingStepsStore == [AlertingNext]_alertingVars => [Next]_vars
<1> SUFFICES ASSUME [AlertingNext]_alertingVars PROVE Next \/ UNCHANGED vars
  OBVIOUS
<1> USE DEF Next, HandlerNext, MonitorNext
<1>1. CASE CommandStep BY <1>1 DEF CommandStep
<1>2. CASE CloseAnswers BY <1>2 DEF CloseAnswers
<1>3. CASE JustifyAnswers BY <1>3 DEF JustifyAnswers
<1>4. CASE StopAlerts BY <1>4 DEF StopAlerts
<1>5. CASE TickStep BY <1>5 DEF TickStep
<1>6. CASE DetectBreach BY <1>6 DEF DetectBreach
<1>7. CASE Arm BY <1>7 DEF Arm
<1>8. CASE Announced BY <1>8 DEF Announced
<1>9. ASSUME NEW b \in Breaches, SendAlert(b) PROVE UNCHANGED vars BY <1>9 DEF SendAlert
<1>10. CASE CommandGivesUp BY <1>10 DEF CommandGivesUp
<1>11. CASE StopNeverReached BY <1>11 DEF StopNeverReached
<1>12. CASE TickGivesUp BY <1>12 DEF TickGivesUp
<1>13. CASE AnnouncingFails BY <1>13 DEF AnnouncingFails
<1>14. CASE ProcessDies BY <1>14 DEF ProcessDies
<1>15. CASE ResumeState BY <1>15 DEF ResumeState
<1>16. CASE UNCHANGED alertingVars BY <1>16 DEF alertingVars
<1> QED BY <1>1, <1>2, <1>3, <1>4, <1>5, <1>6, <1>7, <1>8, <1>9, <1>10, <1>11, <1>12,
           <1>13, <1>14, <1>15, <1>16 DEF AlertingNext, RegularStep

(* The composition is, seen from Redis, the store of TradeStore: arming,     *)
(* stopping and restarting change nothing that is stored.                    *)
THEOREM AlertingKeepsStore == AlertingSpec => Spec
<1>1. AlertingInit => Init BY DEF AlertingInit
<1> QED BY <1>1, AlertingStepsStore, PTL DEF AlertingSpec, Spec

(* Only three steps change the unanswered breaches.                          *)
LEMMA UnresolvedWriters ==
  [AlertingNext]_alertingVars =>
     CloseAnswers \/ JustifyAnswers \/ DetectBreach \/ (unresolved' = unresolved /\ response' = response)
<1> SUFFICES ASSUME [AlertingNext]_alertingVars, ~ CloseAnswers, ~ JustifyAnswers, ~ DetectBreach
             PROVE unresolved' = unresolved /\ response' = response
  OBVIOUS
<1> USE DEF breachVars
<1>1. CASE CommandStep
  BY <1>1 DEF CommandStep, NewTradeId, CommitTrade, CloseLookup, JustifyLookup, EditTrade,
     CloseCheck, CloseScriptRefuses, CloseRetry, HandlerReplies
<1>2. CASE StopAlerts \/ Arm \/ Announced \/ StopNeverReached \/ ResumeState
  BY <1>2 DEF StopAlerts, Arm, Announced, StopNeverReached, ResumeState, vars
<1>3. CASE TickStep
  BY <1>3 DEF TickStep, ReadOpenSet, ReadOverrideSet, SkipTrade, NewBreachId, WatchTrade,
     RetryBreach, FinishTick
<1>4. ASSUME NEW b \in Breaches, SendAlert(b) PROVE UNCHANGED breachVars
  BY <1>4 DEF SendAlert, vars
<1>5. CASE CommandGivesUp BY <1>5 DEF CommandGivesUp, HandlerFails
<1>6. CASE TickGivesUp \/ AnnouncingFails
  BY <1>6 DEF TickGivesUp, AnnouncingFails, MonitorTickFails
<1>7. CASE ProcessDies BY <1>7 DEF ProcessDies, Crash
<1>8. CASE UNCHANGED alertingVars BY <1>8 DEF alertingVars, vars
<1> QED BY <1>1, <1>2, <1>3, <1>4, <1>5, <1>6, <1>7, <1>8 DEF AlertingNext, RegularStep

(* The strengthened invariant survives every step.                           *)
LEMMA AlertingStep ==
  StoreInvariant /\ AlertingInvariant /\ [AlertingNext]_alertingVars => AlertingInvariant'
<1> SUFFICES ASSUME StoreInvariant, AlertingInvariant, [AlertingNext]_alertingVars
             PROVE AlertingInvariant'
  OBVIOUS
<1> USE DEF AlertingInvariant, AlertingTypeOK
<1>t. TypeOK BY DEF StoreInvariant
<1>a. unresolved = {b \in Breaches : response[b] = "none"}
  BY DEF StoreInvariant, BreachIndexesAgree
<1>b. \A b \in Breaches : response[b] = "none" => IsOpen(breachTrade[b])
  BY DEF StoreInvariant, BreachIndexesAgree, ActiveIsPending, Breaches, None
<1>1. CASE CloseAnswers
  <2>1. handler.trade \in Trades /\ handler.breach \in MaybeBreach
    BY <1>1, <1>t DEF CloseAnswers, CloseScript, StoreInvariant, HandlerReadsHold, TypeOK
  <2>2. unresolved' \subseteq unresolved
    BY <1>1 DEF CloseAnswers, CloseScript, Answer, breachVars
  <2>3. toStop' # None => response'[toStop'] = "closed"
    BY <1>1, <1>t, <2>1 DEF CloseAnswers, CloseScript, Answer, TypeOK, MaybeBreach, None
  <2>4. AlertingTypeOK'
    BY <1>1, <2>1 DEF CloseAnswers, MaybeBreach
  <2> QED BY <1>1, <2>2, <2>3, <2>4 DEF CloseAnswers, UnansweredIsArmed
<1>2. CASE JustifyAnswers
  <2>1. handler.breach \in Breaches
    BY <1>2, <1>t DEF JustifyAnswers, JustifyScript, StoreInvariant, HandlerReadsHold, TypeOK,
       MaybeBreach
  <2>2. unresolved' \subseteq unresolved
    BY <1>2 DEF JustifyAnswers, JustifyScript, Answer
  <2>3. response'[toStop'] = "justified"
    BY <1>2, <1>t, <2>1 DEF JustifyAnswers, JustifyScript, Answer, TypeOK
  <2>4. AlertingTypeOK'
    BY <1>2, <2>1 DEF JustifyAnswers, MaybeBreach
  <2> QED BY <1>2, <2>2, <2>3, <2>4 DEF JustifyAnswers, UnansweredIsArmed
<1>3. CASE DetectBreach
  <2>1. monitor.breach \in Breaches
    BY <1>3 DEF DetectBreach, CommitBreach, StoreInvariant, IdsAreFresh
  <2>2. unresolved' = unresolved \cup {monitor.breach}
    BY <1>3 DEF DetectBreach, CommitBreach, StoreBreach
  <2>3. \A b \in Breaches : response[b] # "missing" => response'[b] = response[b]
    BY <1>3, <1>t DEF DetectBreach, CommitBreach, StoreBreach, TypeOK
  <2>4. AlertingTypeOK' BY <1>3, <2>1 DEF DetectBreach, MaybeBreach
  <2>5. UnansweredIsArmed'
    BY <1>3, <1>t, <2>2 DEF DetectBreach, MonitorFree, UnansweredIsArmed, None, TypeOK, Breaches
  <2>6. toStop' # None => response'[toStop'] \in {"closed", "justified"}
    BY <1>3, <2>3 DEF DetectBreach, MaybeBreach
  <2> QED BY <2>4, <2>5, <2>6
<1>4. CASE unresolved' = unresolved /\ response' = response
  <2> USE <1>4 DEF UnansweredIsArmed
  <2>1. CASE CommandStep BY <2>1 DEF CommandStep, memoryVars
  <2>2. CASE StopAlerts
    <3>1. toStop \notin unresolved BY <2>2, <1>a DEF StopAlerts
    <3> QED BY <2>2, <3>1 DEF StopAlerts, MaybeBreach, None
  <2>3. CASE TickStep BY <2>3 DEF TickStep, memoryVars
  <2>4. CASE Arm BY <2>4 DEF Arm, MaybeBreach, None
  <2>5. CASE Announced BY <2>5 DEF Announced
  <2>6. ASSUME NEW b \in Breaches, SendAlert(b) PROVE AlertingInvariant'
    BY <2>6 DEF SendAlert, memoryVars
  <2>7. CASE CommandGivesUp BY <2>7 DEF CommandGivesUp, memoryVars
  <2>8. CASE StopNeverReached BY <2>8 DEF StopNeverReached, MaybeBreach, None
  <2>9. CASE TickGivesUp BY <2>9 DEF TickGivesUp, memoryVars
  <2>10. CASE AnnouncingFails BY <2>10 DEF AnnouncingFails
  <2>11. CASE ProcessDies BY <2>11 DEF ProcessDies, MaybeBreach, None
  <2>12. CASE ResumeState
    BY <2>12, <1>a, <1>b DEF ResumeState
  <2>13. CASE UNCHANGED alertingVars BY <2>13 DEF alertingVars, memoryVars
  <2>14. CASE CloseAnswers \/ JustifyAnswers \/ DetectBreach BY <1>1, <1>2, <1>3, <2>14
  <2> QED BY <2>1, <2>2, <2>3, <2>4, <2>5, <2>6, <2>7, <2>8, <2>9, <2>10, <2>11, <2>12, <2>13,
             <2>14 DEF AlertingNext, RegularStep
<1> QED BY <1>1, <1>2, <1>3, <1>4, UnresolvedWriters

(* The invariant of the composition, for any number of trades, breaches and  *)
(* crashes.                                                                  *)
THEOREM AlertingInvariantHolds == AlertingSpec => []AlertingInvariant
<1>1. AlertingInit => AlertingInvariant
  BY DEF AlertingInit, Init, AlertingInvariant, AlertingTypeOK, UnansweredIsArmed, MaybeBreach, None
<1> QED BY <1>1, AlertingStep, AlertingKeepsStore, StoreInvariantHolds, PTL DEF AlertingSpec

(* While the application runs, a breach the user has not answered is armed   *)
(* or on the monitor's way to the dispatcher: process_tick, the commands,    *)
(* their failures, the death of the process and resume_state leave no gap.   *)
THEOREM NoSilentBreach == AlertingSpec => []UnansweredIsArmed
<1>1. AlertingInvariant => UnansweredIsArmed BY DEF AlertingInvariant
<1> QED BY <1>1, AlertingInvariantHolds, PTL

(* Whatever the two tasks, the failures and the restarts do, trades and      *)
(* breaches go through the one-step life cycle of TradeLifecycle.            *)
THEOREM AlertingImplementsLifecycle == AlertingSpec => ImplementsLifecycle
<1> QED BY AlertingKeepsStore, StoreImplementsLifecycle, PTL

-----------------------------------------------------------------------------
(* The refinement of AlertingLifecycle.                                      *)

(* The composition writes trades and breaches only while it is up, detects   *)
(* only where nothing is owed, and answers without touching a sequence.      *)
LEMMA AnswersKeepPromise ==
  ASSUME StoreInvariant, app = "running", CommitTrade \/ CloseScript \/ JustifyScript,
         UNCHANGED <<app, armed, toArm>>
  PROVE  Alerting!AlertingLifecycleNext
<1>1. UNCHANGED Alerting!alertVars BY DEF Alerting!alertVars
<1>2. CASE CommitTrade
  <2>1. PICK t \in Trades : Lifecycle!OpenTrade(t) BY <1>2, CommitTradeOpens
  <2>2. Alerting!UserActs(t)
    BY <1>1, <2>1 DEF Alerting!UserActs, Alerting!Running, Alerting!OpenTrade, Lifecycle!OpenTrade
  <2> QED BY <2>2 DEF Alerting!AlertingLifecycleNext
<1>3. CASE CloseScript
  <2>1. PICK t \in Trades : \/ Lifecycle!CloseQuietTrade(t)
                            \/ \E b \in Breaches : Lifecycle!CloseBreachedTrade(t, b)
    BY <1>3, CloseScriptCloses
  <2>2. Alerting!UserActs(t)
    BY <1>1, <2>1 DEF Alerting!UserActs, Alerting!Running, Alerting!Live, Lifecycle!Live,
       Alerting!CloseQuietTrade, Lifecycle!CloseQuietTrade,
       Alerting!CloseBreachedTrade, Lifecycle!CloseBreachedTrade
  <2> QED BY <2>2 DEF Alerting!AlertingLifecycleNext
<1>4. CASE JustifyScript
  <2>1. PICK t \in Trades, b \in Breaches : Lifecycle!JustifyBreach(t, b)
    BY <1>4, JustifyScriptJustifies
  <2>2. Alerting!UserActs(t)
    BY <1>1, <2>1 DEF Alerting!UserActs, Alerting!Running, Alerting!Live, Lifecycle!Live,
       Alerting!JustifyBreach, Lifecycle!JustifyBreach
  <2> QED BY <2>2 DEF Alerting!AlertingLifecycleNext
<1> QED BY <1>2, <1>3, <1>4

LEMMA DetectKeepsPromise ==
  ASSUME StoreInvariant, DetectBreach PROVE Alerting!AlertingLifecycleNext
<1>1. PICK t \in Trades : monitor.breach \in Breaches /\ Lifecycle!DetectBreach(t, monitor.breach)
  BY CommitBreachDetects DEF DetectBreach
<1>2. Alerting!DetectAndOwe(t, monitor.breach)
  BY <1>1 DEF DetectBreach, MonitorFree, Alerting!DetectAndOwe, Alerting!Running, Alerting!Live, Lifecycle!Live,
     Alerting!DetectBreach, Lifecycle!DetectBreach
<1> QED BY <1>1, <1>2 DEF Alerting!AlertingLifecycleNext

(* resume_state arms exactly the breaches that wait.                         *)
LEMMA ResumedAreUnanswered ==
  ASSUME StoreInvariant PROVE {b \in unresolved : IsOpen(breachTrade[b])} = {active[t] : t \in Trades} \ {None}
<1> USE DEF StoreInvariant, TypeOK, BreachIndexesAgree, ActiveIsPending
<1>1. None \notin Breaches BY DEF None, Breaches
<1>2. ASSUME NEW b \in unresolved PROVE breachTrade[b] \in Trades /\ active[breachTrade[b]] = b /\ b # None
  BY <1>1
<1>3. ASSUME NEW t \in Trades, active[t] # None
      PROVE  active[t] \in unresolved /\ IsOpen(breachTrade[active[t]])
  BY <1>3 DEF MaybeBreach
<1> QED BY <1>2, <1>3

LEMMA AlertingStepsPromise ==
  ASSUME StoreInvariant, AlertingInvariant, [AlertingNext]_alertingVars
  PROVE  [Alerting!AlertingLifecycleNext]_(Alerting!alertingLifecycleVars)
<1> USE DEF Alerting!Running, Alerting!lifecycleVars
<1>s. ASSUME UNCHANGED <<tradeVars, breachVars, app, armed, toArm>>
      PROVE  UNCHANGED Alerting!alertingLifecycleVars
  BY <1>s DEF tradeVars, breachVars, Alerting!alertingLifecycleVars, Alerting!alertVars
<1>1. CASE CommandStep
  <2>1. app = "running" /\ UNCHANGED <<app, armed, toArm>> BY <1>1 DEF CommandStep, HandlerFree, memoryVars
  <2>2. CASE CommitTrade BY <2>1, <2>2, AnswersKeepPromise
  <2>3. CASE ~ CommitTrade
    <3>1. UNCHANGED <<tradeVars, breachVars>>
      BY <1>1, <2>3 DEF CommandStep, NewTradeId, CloseLookup, JustifyLookup, EditTrade, CloseCheck,
         CloseScriptRefuses, CloseRetry, HandlerReplies
    <3> QED BY <1>s, <2>1, <3>1
  <2> QED BY <2>2, <2>3
<1>2. CASE CloseAnswers \/ JustifyAnswers
  BY <1>2, AnswersKeepPromise DEF CloseAnswers, JustifyAnswers, HandlerFree
<1>3. CASE StopAlerts
  <2>1. PICK b \in Breaches : b = toStop /\ response[b] \in {"closed", "justified"}
    BY <1>3 DEF StopAlerts, AlertingInvariant, AlertingTypeOK, MaybeBreach
  <2>2. Alerting!StopSequence(b)
    BY <1>3, <2>1 DEF StopAlerts, vars, tradeVars, breachVars, Alerting!StopSequence, AnswerOf
  <2> QED BY <2>2 DEF Alerting!AlertingLifecycleNext
<1>4. CASE TickStep
  <2>1. UNCHANGED <<app, armed, toArm>> BY <1>4 DEF TickStep, memoryVars
  <2>2. UNCHANGED <<tradeVars, breachVars>>
    BY <1>4 DEF TickStep, ReadOpenSet, ReadOverrideSet, SkipTrade, NewBreachId, WatchTrade, RetryBreach, FinishTick
  <2> QED BY <1>s, <2>1, <2>2
<1>5. CASE DetectBreach BY <1>5, DetectKeepsPromise
<1>6. CASE Arm
  <2>1. Alerting!BeginSequence
    BY <1>6 DEF Arm, vars, tradeVars, breachVars, Alerting!BeginSequence
  <2> QED BY <2>1 DEF Alerting!AlertingLifecycleNext
<1>7. CASE Announced \/ StopNeverReached
  BY <1>7, <1>s DEF Announced, StopNeverReached, vars
<1>8. ASSUME NEW b \in Breaches, SendAlert(b) PROVE UNCHANGED Alerting!alertingLifecycleVars
  BY <1>8, <1>s DEF SendAlert, vars, memoryVars
<1>9. CASE CommandGivesUp \/ TickGivesUp \/ AnnouncingFails
  BY <1>9, <1>s DEF CommandGivesUp, HandlerFails, TickGivesUp, AnnouncingFails, MonitorTickFails, memoryVars
<1>10. CASE ProcessDies
  <2>1. Alerting!Die BY <1>10 DEF ProcessDies, Crash, tradeVars, breachVars, Alerting!Die
  <2> QED BY <2>1 DEF Alerting!AlertingLifecycleNext
<1>11. CASE ResumeState
  <2>1. Alerting!Resume
    BY <1>11, ResumedAreUnanswered
    DEF ResumeState, vars, tradeVars, breachVars, Alerting!Resume, Alerting!Unanswered
  <2> QED BY <2>1 DEF Alerting!AlertingLifecycleNext
<1>12. CASE UNCHANGED alertingVars BY <1>12, <1>s DEF alertingVars, vars, memoryVars
<1> QED BY <1>1, <1>2, <1>3, <1>4, <1>5, <1>6, <1>7, <1>8, <1>9, <1>10, <1>11, <1>12
        DEF AlertingNext, RegularStep

(* The store and the dispatcher, with every interleaving, failed call and    *)
(* restart, implement the promise of AlertingLifecycle.                      *)
THEOREM AlertingImplementsPromise == AlertingSpec => ImplementsAlerting
<1>1. AlertingInit => Alerting!AlertingLifecycleInit
  BY DEF AlertingInit, Init, Alerting!AlertingLifecycleInit, Alerting!LifecycleInit, PhaseOf, AnswerOf
<1> QED BY <1>1, AlertingStepsPromise, AlertingInvariantHolds, AlertingKeepsStore, StoreInvariantHolds, PTL
        DEF AlertingSpec, ImplementsAlerting, Alerting!AlertingLifecycleSpec

-----------------------------------------------------------------------------
(* Where no call fails.                                                      *)

LEMMA CalmStepHolds ==
  ASSUME StoreInvariant, AlertingInvariant, CalmInvariant, CalmStep
  PROVE  CalmInvariant'
<1> USE DEF CalmInvariant
<1>t. /\ TypeOK /\ armed \subseteq Breaches /\ toArm \in MaybeBreach /\ toStop \in MaybeBreach
      /\ None \notin Breaches
  BY DEF StoreInvariant, AlertingInvariant, AlertingTypeOK, None, Breaches
<1>a. ASSUME NEW b \in Breaches, NEW r \in {"closed", "justified"}, response' = [response EXCEPT ![b] = r],
             toArm = None, toStop = None, UNCHANGED <<armed, toArm>>,
             r = "justified" => toStop' = b
      PROVE  CalmInvariant'
  <2>1. \A c \in Breaches : response'[c] = IF c = b THEN r ELSE response[c] BY <1>a, <1>t DEF TypeOK
  <2> QED BY <1>a, <1>t, <2>1
<1>1. CASE CloseAnswers
  <2>1. toArm = None /\ toStop = None /\ UNCHANGED <<armed, toArm>>
    BY <1>1 DEF CalmStep, CloseAnswers, HandlerFree
  <2>2. CASE handler.breach = None
    <3>1. response' = response BY <1>1, <2>2 DEF CloseAnswers, CloseScript, breachVars
    <3>2. \A b \in armed : response[b] # "justified" BY <1>t, <2>1
    <3> QED BY <2>1, <3>1, <3>2
  <2>3. CASE handler.breach # None
    <3>1. handler.breach \in Breaches BY <1>t, <2>3 DEF TypeOK, MaybeBreach
    <3>2. response' = [response EXCEPT ![handler.breach] = "closed"]
      BY <1>1, <2>3 DEF CloseAnswers, CloseScript, Answer
    <3> QED BY <1>a, <2>1, <3>1, <3>2
  <2> QED BY <2>2, <2>3
<1>2. CASE JustifyAnswers
  <2>1. toArm = None /\ toStop = None /\ UNCHANGED <<armed, toArm>> /\ toStop' = handler.breach
    BY <1>2 DEF CalmStep, JustifyAnswers, HandlerFree
  <2>2. handler.breach \in Breaches
    BY <1>2, <1>t DEF JustifyAnswers, JustifyScript, StoreInvariant, HandlerReadsHold, TypeOK, MaybeBreach
  <2>3. response' = [response EXCEPT ![handler.breach] = "justified"]
    BY <1>2 DEF JustifyAnswers, JustifyScript, Answer
  <2> QED BY <1>a, <2>1, <2>2, <2>3
<1>3. CASE DetectBreach
  <2>1. /\ monitor.breach \in Breaches /\ response[monitor.breach] = "missing"
        /\ response' = [response EXCEPT ![monitor.breach] = "none"]
        /\ toArm' = monitor.breach /\ UNCHANGED <<armed, toStop>>
    BY <1>3 DEF DetectBreach, CommitBreach, StoreBreach, StoreInvariant, IdsAreFresh
  <2>2. \A b \in Breaches : b # monitor.breach => response'[b] = response[b] BY <1>t, <2>1 DEF TypeOK
  <2>3. response'[monitor.breach] = "none" BY <1>t, <2>1 DEF TypeOK
  <2> QED BY <1>t, <2>1, <2>2, <2>3
<1>4. CASE response' = response
  <2>1. CASE StopAlerts BY <1>4, <2>1 DEF StopAlerts
  <2>2. CASE Arm BY <1>4, <1>t, <2>2 DEF Arm
  <2>3. CASE UNCHANGED <<armed, toArm, toStop>> BY <1>4, <2>3
  <2>4. StopAlerts \/ Arm \/ UNCHANGED <<armed, toArm, toStop>> \/ CloseAnswers \/ JustifyAnswers \/ DetectBreach
    BY DEF CalmStep, RegularStep, CommandStep, TickStep, Announced, SendAlert, memoryVars
  <2> QED BY <1>1, <1>2, <1>3, <2>1, <2>2, <2>3, <2>4
<1>5. [AlertingNext]_alertingVars BY DEF CalmStep, AlertingNext
<1> QED BY <1>1, <1>2, <1>3, <1>4, <1>5, UnresolvedWriters

(* Where no call fails, and no command comes between the storing of a breach *)
(* and its arming, a justification silences: of the two answers, only a      *)
(* trade that close_trade closes on its retry leaves its alerts going.       *)
THEOREM JustifiedAlwaysSilent == CalmAlertingSpec => []JustifiedIsSilent
<1>1. CalmAlertingSpec => AlertingSpec
  <2>1. [CalmStep]_alertingVars => [AlertingNext]_alertingVars BY DEF CalmStep, AlertingNext
  <2> QED BY <2>1, PTL DEF CalmAlertingSpec, AlertingSpec
<1>2. AlertingInit => CalmInvariant BY DEF AlertingInit, CalmInvariant
<1>3. CalmInvariant /\ AlertingTypeOK => JustifiedIsSilent
  BY DEF CalmInvariant, JustifiedIsSilent, AlertingTypeOK, None, Breaches
<1>4. AlertingInvariant => AlertingTypeOK BY DEF AlertingInvariant
<1>5. CalmInvariant /\ UNCHANGED alertingVars => CalmInvariant'
  BY DEF CalmInvariant, alertingVars, vars, breachVars, memoryVars
<1> QED BY <1>1, <1>2, <1>3, <1>4, <1>5, CalmStepHolds, AlertingInvariantHolds, AlertingKeepsStore,
           StoreInvariantHolds, PTL DEF CalmAlertingSpec
=============================================================================
