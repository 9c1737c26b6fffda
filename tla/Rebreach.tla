------------------------------- MODULE Rebreach -------------------------------
(***************************************************************************)
(* When a breach follows a justified one: TickEvaluation with a history of *)
(* the trades whose price has come back since their last breach.           *)
(***************************************************************************)
EXTENDS TickEvaluation

VARIABLE recovered  \* history: trades with no breach since they were opened,
                    \* edited, or last looked at with a price that was none

(* The monitor has looked at the trade and gone on, or the trade was edited. *)
StartsAfresh(t) ==
    \/ monitor.pc = "looking" /\ t \in monitor.left /\ monitor'.pc = "looking" /\ t \notin monitor'.left
    \/ terms'[t] # terms[t]

IsBreached(t) == active[t] = None /\ active'[t] # None

RebreachInit == TickInit /\ recovered = Trades

RebreachNext ==
    /\ TickNext
    /\ recovered' = {t \in Trades : ~ IsBreached(t) /\ (t \in recovered \/ StartsAfresh(t))}

RebreachSpec == RebreachInit /\ [][RebreachNext]_<<tickVars, recovered>>

(* requirements.md:129: "A subsequent breach (price recovers then breaches   *)
(* again) re-fires": after a justification the same commitment is breached   *)
(* again only after a price that was no breach.                              *)
RebreachNeedsRecovery == [][\A t \in Trades : IsBreached(t) => t \in recovered]_<<tickVars, recovered>>
=============================================================================
