--------------------------- MODULE AlertSequences ---------------------------
(***************************************************************************)
(* The escalation of breach alerts (AlertDispatcher, src/monitor/alerts.py) *)
(* within one run of the process.  process_due_alerts has two callers that *)
(* take turns at every await: the alert loop, and the monitor inside       *)
(* trigger_breach_alert.  Each works through its own snapshot of the       *)
(* sequences that were due when it began, while the other sends, the       *)
(* handler stops sequences and time passes.                                *)
(*                                                                         *)
(* Time is "due or not yet"; the order of a snapshot (by due time) is left *)
(* open; prices are left out.  MaxLevel is where the count of alerts sent  *)
(* stops being told apart: every level from it on is MaxLevel.             *)
(***************************************************************************)
EXTENDS Naturals

CONSTANTS Breaches, MaxLevel

ASSUME LevelAssumption == MaxLevel \in Nat

Senders == {"loop", "monitor"}
Levels == 0 .. MaxLevel

VARIABLES
    process,    \* "up" until a task of app.py's gather raises
    life,       \* history: has the breach been triggered, has it been stopped
    registered, \* AlertDispatcher._sequences, its keys
    level,      \* AlertSequence.sent_count
    due,        \* AlertSequence.next_due_at has come
    todo,       \* per sender: what is left of its snapshot, as (breach, level)
    sending,    \* per sender: the snapshot it has handed to Telegram, or {}
    attempted,  \* history: the levels Telegram has been asked to deliver
    late        \* history: alerts begun after the breach was stopped

dispatcherVars == <<registered, level, due>>
historyVars == <<life, attempted, late>>
sequenceVars == <<process, dispatcherVars, todo, sending, historyVars>>

SequencesTypeOK ==
    /\ process \in {"up", "down"}
    /\ life \in [Breaches -> {"unseen", "triggered", "stopped"}]
    /\ registered \in SUBSET Breaches
    /\ level \in [Breaches -> Levels]
    /\ due \in [Breaches -> BOOLEAN]
    /\ todo \in [Senders -> SUBSET (Breaches \X Levels)]
    /\ sending \in [Senders -> SUBSET (Breaches \X Levels)]
    /\ attempted \in [Breaches -> SUBSET Levels]
    /\ late \in [Breaches -> Nat]

SequencesInit ==
    /\ process = "up"
    /\ life = [b \in Breaches |-> "unseen"]
    /\ registered = {}
    /\ level = [b \in Breaches |-> 0]
    /\ due = [b \in Breaches |-> FALSE]
    /\ todo = [s \in Senders |-> {}]
    /\ sending = [s \in Senders |-> {}]
    /\ attempted = [b \in Breaches |-> {}]
    /\ late = [b \in Breaches |-> 0]

AtRest(s) == process = "up" /\ sending[s] = {}

NextLevel(n) == IF n < MaxLevel THEN n + 1 ELSE n

(* The sequences process_due_alerts collects before its first await.         *)
DueNow == {<<b, level[b]>> : b \in {c \in registered : due[c]}}

(* Sender s goes on with what is left of its snapshot: it renders the next   *)
(* alert from it and hands that to Telegram, or is done.                     *)
GoOn(s, snapshot) ==
    \/ /\ snapshot = {}
       /\ sending' = [sending EXCEPT ![s] = {}]
       /\ todo' = [todo EXCEPT ![s] = {}]
       /\ UNCHANGED <<attempted, late>>
    \/ \E b \in Breaches, n \in Levels :
       /\ <<b, n>> \in snapshot
       /\ sending' = [sending EXCEPT ![s] = {<<b, n>>}]
       /\ todo' = [todo EXCEPT ![s] = snapshot \ {<<b, n>>}]
       /\ attempted' = [attempted EXCEPT ![b] = @ \cup {n}]
       /\ late' = [late EXCEPT ![b] = IF life[b] = "stopped" THEN @ + 1 ELSE @]

-----------------------------------------------------------------------------
(* trigger_breach_alert, called by process_tick with a breach that           *)
(* create_breach has just made: register, then begin a pass.                 *)
Trigger(b) ==
    /\ AtRest("monitor")
    /\ life[b] = "unseen"
    /\ life' = [life EXCEPT ![b] = "triggered"]
    /\ registered' = registered \cup {b}
    /\ level' = [level EXCEPT ![b] = 0]
    /\ due' = [due EXCEPT ![b] = TRUE]
    /\ GoOn("monitor", DueNow \cup {<<b, 0>>})
    /\ UNCHANGED process

(* AlertDispatcher.run, once a second.                                       *)
LoopPolls ==
    /\ AtRest("loop")
    /\ DueNow # {}
    /\ GoOn("loop", DueNow)
    /\ UNCHANGED <<process, dispatcherVars, life>>

(* Faulty: the sequence is put back without looking whether it is still      *)
(* there.                                                                    *)
FinishAlways(s, b, n) ==
    /\ process = "up"
    /\ sending[s] = {<<b, n>>}
    /\ registered' = registered \cup {b}
    /\ level' = [level EXCEPT ![b] = NextLevel(n)]
    /\ due' = [due EXCEPT ![b] = FALSE]
    /\ GoOn(s, todo[s])
    /\ UNCHANGED <<process, life>>

(* Faulty: after a delivery that failed the sequence is given up.            *)
FinishGivesUp(s, b, n) ==
    /\ process = "up"
    /\ sending[s] = {<<b, n>>}
    /\ registered' \in {registered, registered \ {b}}
    /\ level' = [level EXCEPT ![b] = NextLevel(n)]
    /\ due' = [due EXCEPT ![b] = FALSE]
    /\ GoOn(s, todo[s])
    /\ UNCHANGED <<process, life>>

(* Faulty: the count is advanced from the sequence that is registered, not   *)
(* from the snapshot the alert was rendered from.                            *)
FinishCountsBoth(s, b, n) ==
    /\ process = "up"
    /\ sending[s] = {<<b, n>>}
    /\ IF b \in registered
       THEN /\ level' = [level EXCEPT ![b] = NextLevel(@)]
            /\ due' = [due EXCEPT ![b] = FALSE]
       ELSE UNCHANGED <<level, due>>
    /\ GoOn(s, todo[s])
    /\ UNCHANGED <<process, registered, life>>

(* Telegram has taken the message and record_alert has stored it, or three   *)
(* attempts have failed: either way the level counts as sent.  The sequence  *)
(* is written back from the snapshot, unless the handler has removed it.     *)
FinishAlert(s, b, n) ==
    /\ process = "up"
    /\ sending[s] = {<<b, n>>}
    /\ IF b \in registered
       THEN /\ level' = [level EXCEPT ![b] = NextLevel(n)]
            /\ due' = [due EXCEPT ![b] = FALSE]
       ELSE UNCHANGED <<level, due>>
    /\ GoOn(s, todo[s])
    /\ UNCHANGED <<process, registered, life>>

(* record_alert raises.  In the monitor's pass Monitor.run logs it and the   *)
(* rest of the snapshot is dropped; the loop's own task ends with it, and    *)
(* with the task the process (app.py waits for all of them together).        *)
RecordAlertFails(s) ==
    /\ process = "up"
    /\ sending[s] # {}
    /\ sending' = [sending EXCEPT ![s] = {}]
    /\ todo' = [todo EXCEPT ![s] = {}]
    /\ process' = IF s = "loop" THEN "down" ELSE "up"
    /\ UNCHANGED <<dispatcherVars, historyVars>>

(* Faulty: a sequence that is being sent is left for the sender to remove.   *)
StopWhenQuiet(b) ==
    /\ process = "up"
    /\ life[b] = "triggered"
    /\ life' = [life EXCEPT ![b] = "stopped"]
    /\ registered' = IF \E s \in Senders, n \in Levels : sending[s] = {<<b, n>>}
                     THEN registered ELSE registered \ {b}
    /\ UNCHANGED <<process, level, due, todo, sending, attempted, late>>

(* resolve_breach, called by the handler between any two of these steps.     *)
Stop(b) ==
    /\ process = "up"
    /\ life[b] = "triggered"
    /\ life' = [life EXCEPT ![b] = "stopped"]
    /\ registered' = registered \ {b}
    /\ UNCHANGED <<process, level, due, todo, sending, attempted, late>>

(* next_due_at comes.                                                        *)
TimePasses(b) ==
    /\ process = "up"
    /\ b \in registered
    /\ ~ due[b]
    /\ due' = [due EXCEPT ![b] = TRUE]
    /\ UNCHANGED <<process, registered, level, todo, sending, historyVars>>

SenderAnswered(s) == \E b \in Breaches, n \in Levels : FinishAlert(s, b, n)

SequencesNext ==
    \/ LoopPolls
    \/ \E s \in Senders : SenderAnswered(s) \/ RecordAlertFails(s)
    \/ \E b \in Breaches : Trigger(b) \/ Stop(b) \/ TimePasses(b)

(* Fairness: asyncio resumes a task whose await is over (the Telegram client *)
(* times out), the loop polls every second, and time passes.                 *)
SequencesFairness ==
    /\ WF_sequenceVars(LoopPolls)
    /\ \A s \in Senders : WF_sequenceVars(SenderAnswered(s))
    /\ \A b \in Breaches : WF_sequenceVars(TimePasses(b))

SequencesSpec == SequencesInit /\ [][SequencesNext]_sequenceVars

FairSequencesSpec == SequencesSpec /\ SequencesFairness

-----------------------------------------------------------------------------
(* Correctness.                                                              *)

Underway(b) == \E s \in Senders, n \in Levels : sending[s] = {<<b, n>>}

(* What the user may still see after /closed or /justify is what was already *)
(* in a snapshot: each of the two senders begins at most one late alert.     *)
LateAlertsAreBounded ==
    \A b \in Breaches : late[b] <= 2

(* Levels are attempted in order: whatever the two senders overwrite of each *)
(* other's work, a higher level is only attempted when all lower ones have   *)
(* been.                                                                     *)
NoLevelIsSkipped ==
    \A b \in Breaches : \A n \in attempted[b] : 0 .. n \subseteq attempted[b]

(* Escalation goes on: a breach is alerted about again and again until the   *)
(* user answers it or the process ends; no failed delivery, and no writing   *)
(* back of an old snapshot, takes it off the schedule.                       *)
EscalationGoesOn ==
    \A b \in Breaches :
        life[b] = "triggered" ~> Underway(b) \/ life[b] = "stopped" \/ process = "down"

-----------------------------------------------------------------------------
(* The inductive strengthening.                                              *)

(* The dispatcher's keys are the breaches that are triggered and not         *)
(* stopped: no write-back of a snapshot registers a stopped one again, and   *)
(* neither that nor a delivery that fails takes a live one off.              *)
RegistryIsCurrent == registered = {b \in Breaches : life[b] = "triggered"}

Waits(s, b) == IF \E n \in Levels : <<b, n>> \in todo[s] THEN 1 ELSE 0

(* A snapshot holds a breach at most once, and only one that was triggered;  *)
(* begun alerts of a stopped breach come out of the two snapshots.           *)
SnapshotsAreBounded ==
    /\ \A s \in Senders, b \in Breaches, m, n \in Levels :
          <<b, m>> \in todo[s] /\ <<b, n>> \in todo[s] => m = n /\ life[b] # "unseen"
    /\ \A b \in Breaches :
          /\ life[b] # "stopped" => late[b] = 0
          /\ late[b] + Waits("loop", b) + Waits("monitor", b) <= 2

(* Whatever level is registered, waits in a snapshot or is being sent, the   *)
(* levels below it have been attempted.                                      *)
LowerLevelsAttempted ==
    /\ \A b \in registered : \A k \in Levels : k < level[b] => k \in attempted[b]
    /\ \A s \in Senders, b \in Breaches, n \in Levels :
          /\ <<b, n>> \in todo[s] => \A k \in Levels : k < n => k \in attempted[b]
          /\ <<b, n>> \in sending[s] => \A k \in Levels : k <= n => k \in attempted[b]

SequencesInvariant ==
    /\ SequencesTypeOK
    /\ RegistryIsCurrent
    /\ SnapshotsAreBounded
    /\ LowerLevelsAttempted
    /\ NoLevelIsSkipped

-----------------------------------------------------------------------------
(* Refinement.                                                               *)

StageOf(b) == IF b \in registered THEN "live"
              ELSE IF life[b] = "unseen" THEN "unseen" ELSE "silenced"

Shown == INSTANCE Escalation WITH
    stage <- [b \in Breaches |-> StageOf(b)],
    sent <- attempted,
    MaxLate <- 2

(* The two senders, their overlapping snapshots and what the handler does    *)
(* under them come out as Escalation: what is registered decides who is      *)
(* alerted about, levels rise without a gap, and at most one late alert per  *)
(* sender follows an answer.                                                 *)
ImplementsEscalation == Shown!EscalationSpec
=============================================================================
