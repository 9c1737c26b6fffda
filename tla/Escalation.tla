----------------------------- MODULE Escalation -----------------------------
(***************************************************************************)
(* What the user gets to see of the alerts about a breach                  *)
(* (requirements.md, REQ-008): nothing before it is found; then alerts     *)
(* whose levels rise without a gap, though one may come again; after an    *)
(* answer at most MaxLate more, the ones already on their way; and never   *)
(* a second life.  AlertSequences, with its two senders and their          *)
(* snapshots, refines it.                                                  *)
(***************************************************************************)
EXTENDS Naturals

CONSTANTS Breaches, MaxLevel, MaxLate

VARIABLES
    stage,  \* stage[b]: "unseen", "live" or "silenced"
    sent,   \* sent[b]: the levels an alert has been begun of
    late    \* late[b]: how many were begun after the answer

escalationVars == <<stage, sent, late>>

EscalationInit ==
    /\ stage = [b \in Breaches |-> "unseen"]
    /\ sent = [b \in Breaches |-> {}]
    /\ late = [b \in Breaches |-> 0]

Begin(b) ==
    /\ stage[b] = "unseen"
    /\ stage' = [stage EXCEPT ![b] = "live"]

Silence(b) ==
    /\ stage[b] = "live"
    /\ stage' = [stage EXCEPT ![b] = "silenced"]

(* An alert of level n; one may go out in the step that finds its breach.    *)
Alert(b, n) ==
    /\ stage'[b] # "unseen"
    /\ (0 .. n) \ {n} \subseteq sent[b]
    /\ sent' = [sent EXCEPT ![b] = @ \cup {n}]
    /\ \/ stage[b] # "silenced" /\ late' = late
       \/ stage[b] = "silenced" /\ late[b] < MaxLate /\ late' = [late EXCEPT ![b] = @ + 1]

AnAlert == \E b \in Breaches, n \in 0 .. MaxLevel : Alert(b, n)
NoAlert == UNCHANGED <<sent, late>>

EscalationNext ==
    \/ \E b \in Breaches : Begin(b) /\ (AnAlert \/ NoAlert)
    \/ \E b \in Breaches : Silence(b) /\ NoAlert
    \/ stage' = stage /\ AnAlert

EscalationSpec == EscalationInit /\ [][EscalationNext]_escalationVars
=============================================================================
