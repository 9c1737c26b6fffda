--------------------------- MODULE TradeLifecycle ---------------------------
(***************************************************************************)
(* What the repository promises about trades and invalidation breaches,   *)
(* with every operation taken in one step: a trade is opened, may be       *)
(* breached while it is open, each breach is answered exactly once (by a   *)
(* justification, which keeps the trade open as an override, or by closing *)
(* the trade), and a closed trade is final.  TradeStore, Conversations and *)
(* (by way of AlertingLifecycle) BreachAlerting and TickEvaluation refine  *)
(* it.                                                                     *)
(***************************************************************************)
EXTENDS Naturals

CONSTANTS
    Trades,     \* identifiers of trades
    Breaches,   \* identifiers of breaches
    None        \* "no breach": TradeStore's 0

VARIABLES
    phase,      \* phase[t]: where the trade is in its life
    pending,    \* pending[t]: the breach of t the user has not answered
    answer      \* answer[b]: how breach b was answered

lifecycleVars == <<phase, pending, answer>>

Phases == {"unopened", "open", "override", "closed"}
Answers == {"unanswered", "justified", "closed"}

LifecycleTypeOK ==
    /\ phase \in [Trades -> Phases]
    /\ pending \in [Trades -> Breaches \cup {None}]
    /\ answer \in [Breaches -> Answers]

LifecycleInit ==
    /\ phase = [t \in Trades |-> "unopened"]
    /\ pending = [t \in Trades |-> None]
    /\ answer = [b \in Breaches |-> "unanswered"]

Live(t) == phase[t] \in {"open", "override"}

OpenTrade(t) ==
    /\ phase[t] = "unopened"
    /\ phase' = [phase EXCEPT ![t] = "open"]
    /\ UNCHANGED <<pending, answer>>

DetectBreach(t, b) ==
    /\ Live(t)
    /\ pending[t] = None
    /\ answer[b] = "unanswered"
    /\ \A u \in Trades : pending[u] # b
    /\ pending' = [pending EXCEPT ![t] = b]
    /\ UNCHANGED <<phase, answer>>

JustifyBreach(t, b) ==
    /\ Live(t)
    /\ pending[t] = b
    /\ phase' = [phase EXCEPT ![t] = "override"]
    /\ pending' = [pending EXCEPT ![t] = None]
    /\ answer' = [answer EXCEPT ![b] = "justified"]

CloseQuietTrade(t) ==
    /\ Live(t)
    /\ pending[t] = None
    /\ phase' = [phase EXCEPT ![t] = "closed"]
    /\ UNCHANGED <<pending, answer>>

CloseBreachedTrade(t, b) ==
    /\ Live(t)
    /\ pending[t] = b
    /\ phase' = [phase EXCEPT ![t] = "closed"]
    /\ pending' = [pending EXCEPT ![t] = None]
    /\ answer' = [answer EXCEPT ![b] = "closed"]

LifecycleNext ==
    \E t \in Trades :
        \/ OpenTrade(t)
        \/ CloseQuietTrade(t)
        \/ \E b \in Breaches :
              DetectBreach(t, b) \/ JustifyBreach(t, b) \/ CloseBreachedTrade(t, b)

LifecycleSpec == LifecycleInit /\ [][LifecycleNext]_lifecycleVars
=============================================================================
