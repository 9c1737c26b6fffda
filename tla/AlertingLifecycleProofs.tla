----------------------- MODULE AlertingLifecycleProofs -----------------------
(***************************************************************************)
(* What the promise of AlertingLifecycle adds up to, for any trades and    *)
(* breaches: no breach that waits for the user is silent, and alerting     *)
(* disturbs no trade.                                                      *)
(***************************************************************************)
EXTENDS AlertingLifecycle, TLAPS

(* Alerting leaves the life cycle of trades and breaches as it is.           *)
THEOREM AlertingKeepsLifecycle == AlertingLifecycleSpec => LifecycleSpec
<1>1. AlertingLifecycleInit => LifecycleInit BY DEF AlertingLifecycleInit
<1>2. [AlertingLifecycleNext]_alertingLifecycleVars => [LifecycleNext]_lifecycleVars
  BY DEF AlertingLifecycleNext, alertingLifecycleVars, LifecycleNext, UserActs, DetectAndOwe,
     BeginSequence, StopSequence, Die, Resume
<1> QED BY <1>1, <1>2, PTL DEF AlertingLifecycleSpec, LifecycleSpec

(* Opening and closing a quiet trade changes no breach.                      *)
LEMMA UserActsHolds ==
  ASSUME None \notin Breaches, AlertingLifecycleInvariant, NEW t \in Trades, UserActs(t)
  PROVE  AlertingLifecycleInvariant'
<1> USE DEF AlertingLifecycleInvariant, AlertingLifecycleTypeOK, LifecycleTypeOK, NoBreachIsSilent,
        Running, Unanswered, Phases, Answers
<1>1. UNCHANGED <<app, sequences, owed>> BY DEF UserActs, alertVars
<1>2. CASE OpenTrade(t) \/ CloseQuietTrade(t)
  BY <1>1, <1>2 DEF OpenTrade, CloseQuietTrade
<1>3. ASSUME NEW b \in Breaches, JustifyBreach(t, b) \/ CloseBreachedTrade(t, b)
      PROVE  AlertingLifecycleInvariant'
  <2>1. /\ pending[t] = b
        /\ pending' = [pending EXCEPT ![t] = None]
        /\ \A c \in Breaches : c # b => answer'[c] = answer[c]
    BY <1>3 DEF JustifyBreach, CloseBreachedTrade
  <2>2. \A u \in Trades : u # t => pending'[u] = pending[u] /\ (pending[u] # None => pending[u] # b)
    BY <1>3, <2>1
  <2>3. LifecycleTypeOK' BY <1>3 DEF JustifyBreach, CloseBreachedTrade
  <2>4. pending'[t] = None BY <2>1
  <2>5. \A u \in Trades : pending'[u] # None => u # t /\ pending'[u] = pending[u] /\ pending[u] \in Breaches \ {b}
    BY <2>2, <2>4
  <2> QED BY <1>1, <2>1, <2>3, <2>5
<1> QED BY <1>2, <1>3 DEF UserActs

LEMMA DetectAndOweHolds ==
  ASSUME None \notin Breaches, AlertingLifecycleInvariant,
         NEW t \in Trades, NEW b \in Breaches, DetectAndOwe(t, b)
  PROVE  AlertingLifecycleInvariant'
<1> USE DEF AlertingLifecycleInvariant, AlertingLifecycleTypeOK, LifecycleTypeOK, NoBreachIsSilent,
        Running, Unanswered
<1>1. /\ pending' = [pending EXCEPT ![t] = b]
      /\ answer[b] = "unanswered" /\ \A u \in Trades : pending[u] # b
      /\ owed = None /\ owed' = b
      /\ UNCHANGED <<phase, answer, app, sequences>>
  BY DEF DetectAndOwe, DetectBreach
<1>2. pending'[t] = b /\ \A u \in Trades : u # t => pending'[u] = pending[u] BY <1>1
<1>3. AlertingLifecycleTypeOK' BY <1>1
<1> QED BY <1>1, <1>2, <1>3

(* No interleaving of detections, answers, stops, deaths and restarts leaves *)
(* an unanswered breach without a sequence, other than the one just found.   *)
THEOREM PromiseKeepsBreachesLoud ==
  ASSUME None \notin Breaches
  PROVE  AlertingLifecycleSpec => []NoBreachIsSilent
<1> USE DEF AlertingLifecycleInvariant, AlertingLifecycleTypeOK, NoBreachIsSilent, Running, Unanswered
<1>1. AlertingLifecycleInit => AlertingLifecycleInvariant
  BY DEF AlertingLifecycleInit, LifecycleInit, LifecycleTypeOK, Phases, Answers
<1>2. AlertingLifecycleInvariant /\ [AlertingLifecycleNext]_alertingLifecycleVars
        => AlertingLifecycleInvariant'
  <2> SUFFICES ASSUME AlertingLifecycleInvariant, [AlertingLifecycleNext]_alertingLifecycleVars
               PROVE  AlertingLifecycleInvariant'
    OBVIOUS
  <2> USE DEF LifecycleTypeOK
  <2>1. ASSUME NEW t \in Trades, UserActs(t) PROVE AlertingLifecycleInvariant' BY <2>1, UserActsHolds
  <2>2. ASSUME NEW t \in Trades, NEW b \in Breaches, DetectAndOwe(t, b) PROVE AlertingLifecycleInvariant'
    BY <2>2, DetectAndOweHolds
  <2>3. CASE BeginSequence BY <2>3 DEF BeginSequence, lifecycleVars
  <2>4. ASSUME NEW b \in Breaches, StopSequence(b) PROVE AlertingLifecycleInvariant'
    BY <2>4 DEF StopSequence, lifecycleVars
  <2>5. CASE Die BY <2>5 DEF Die, lifecycleVars
  <2>6. CASE Resume BY <2>6 DEF Resume, lifecycleVars
  <2>7. CASE UNCHANGED alertingLifecycleVars
    BY <2>7 DEF alertingLifecycleVars, lifecycleVars, alertVars
  <2> QED BY <2>1, <2>2, <2>3, <2>4, <2>5, <2>6, <2>7 DEF AlertingLifecycleNext
<1>3. AlertingLifecycleInvariant => NoBreachIsSilent OBVIOUS
<1> QED BY <1>1, <1>2, <1>3, PTL DEF AlertingLifecycleSpec
=============================================================================
