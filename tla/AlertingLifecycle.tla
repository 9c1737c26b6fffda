-------------------------- MODULE AlertingLifecycle --------------------------
(***************************************************************************)
(* What the repository promises about trades, breaches and the alerts      *)
(* about them (requirements.md, REQ-007 and REQ-008), on top of            *)
(* TradeLifecycle: a breach is owed an alert sequence from the step that   *)
(* detects it and gets one next; a sequence is only ever stopped once the  *)
(* user has answered; the process may die at any moment, taking every      *)
(* sequence along, and when it is up again exactly the unanswered breaches *)
(* have one.  BreachAlerting and TickEvaluation refine it.                 *)
(***************************************************************************)
EXTENDS TradeLifecycle

VARIABLES
    app,        \* "running", or "booting" before what was lost is rebuilt
    sequences,  \* the breaches with an alert sequence
    owed        \* the breach that is detected and has no sequence yet

alertVars == <<app, sequences, owed>>
alertingLifecycleVars == <<lifecycleVars, alertVars>>

AlertingLifecycleTypeOK ==
    /\ LifecycleTypeOK
    /\ app \in {"running", "booting"}
    /\ sequences \subseteq Breaches
    /\ owed \in Breaches \cup {None}

AlertingLifecycleInit ==
    /\ LifecycleInit
    /\ app = "running"
    /\ sequences = {}
    /\ owed = None

Running == app = "running"

Unanswered == {pending[t] : t \in Trades} \ {None}

(* The user opens, justifies and closes trades; no sequence is touched.      *)
UserActs(t) ==
    /\ Running
    /\ \/ OpenTrade(t) \/ CloseQuietTrade(t)
       \/ \E b \in Breaches : JustifyBreach(t, b) \/ CloseBreachedTrade(t, b)
    /\ UNCHANGED alertVars

DetectAndOwe(t, b) ==
    /\ Running
    /\ owed = None
    /\ DetectBreach(t, b)
    /\ owed' = b
    /\ UNCHANGED <<app, sequences>>

BeginSequence ==
    /\ Running
    /\ owed # None
    /\ sequences' = sequences \cup {owed}
    /\ owed' = None
    /\ UNCHANGED <<lifecycleVars, app>>

StopSequence(b) ==
    /\ Running
    /\ answer[b] # "unanswered"
    /\ sequences' = sequences \ {b}
    /\ UNCHANGED <<lifecycleVars, app, owed>>

Die ==
    /\ app' = "booting"
    /\ sequences' = {}
    /\ owed' = None
    /\ UNCHANGED lifecycleVars

Resume ==
    /\ app = "booting"
    /\ app' = "running"
    /\ sequences' = Unanswered
    /\ UNCHANGED <<lifecycleVars, owed>>

AlertingLifecycleNext ==
    \/ \E t \in Trades : UserActs(t) \/ \E b \in Breaches : DetectAndOwe(t, b)
    \/ BeginSequence
    \/ \E b \in Breaches : StopSequence(b)
    \/ Die \/ Resume

AlertingLifecycleSpec ==
    AlertingLifecycleInit /\ [][AlertingLifecycleNext]_alertingLifecycleVars

-----------------------------------------------------------------------------
(* The promise these steps add up to: whenever the application is up, each   *)
(* breach that waits for the user has a sequence or is owed one.             *)
NoBreachIsSilent == Running => Unanswered \subseteq sequences \cup {owed}

(* The inductive invariant: a breach waits of at most one trade, and waits   *)
(* only while it is unanswered, so that no answer to one trade stops the     *)
(* alerts of another.                                                        *)
AlertingLifecycleInvariant ==
    /\ AlertingLifecycleTypeOK
    /\ \A t \in Trades : pending[t] # None => answer[pending[t]] = "unanswered"
    /\ \A t, u \in Trades : pending[t] # None /\ pending[t] = pending[u] => t = u
    /\ NoBreachIsSilent
=============================================================================
