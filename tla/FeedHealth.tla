------------------------------ MODULE FeedHealth ------------------------------
(***************************************************************************)
(* The exchange adapter's connection (src/exchange/hyperliquid.py) and what *)
(* MonitorHealth (src/monitor/health.py) tells the user about it; what both *)
(* know, they know within one run of the process.  Two tasks take turns:   *)
(* the feed, which connects, streams, and awaits the handlers of its own   *)
(* connection events; and the health loop, which awaits the delivery of an *)
(* outage alert and then writes back the down state it had read.  The      *)
(* scheduler's daily heartbeat looks at the down state too, and then       *)
(* awaits Redis and Telegram.                                              *)
(*                                                                         *)
(* STALE and DISCONNECTED are handled alike but for the status shown by    *)
(* /health, which is left out, as are the tiers of delays by open trades   *)
(* and the clock: an alert is due or not yet, and a gap is the number of   *)
(* the outage it is counted from.                                          *)
(*                                                                         *)
(* MaxOutages bounds how often the connection is lost, or the process, and *)
(* nothing else.                                                           *)
(***************************************************************************)
EXTENDS Naturals

CONSTANTS
    MaxOutages,
    FlappingCount    \* disconnects within ten minutes: five

ASSUME FeedAssumption == MaxOutages \in Nat \ {0} /\ FlappingCount \in Nat \ {0}

(* Outages are numbered; the time before a process's first connection is one *)
(* of them.                                                                  *)
Outages == 1 .. MaxOutages

VARIABLES
    link,       \* where the feed is; see Links
    outage,     \* the number of the outage that is on, or was the last one
    boot,       \* the outage with which this process started
    recent,     \* _disconnect_history, its length up to FlappingCount
    flapping,   \* _flapping_alert_next_disconnect
    atOnce,     \* immediate_alert of the down event being handled
    down,       \* _down_state
    sending,    \* the down state process_due_alerts is sending an alert of
    downSince,  \* the adapter's _down_since, as the number of an outage; 0: None
    beat,       \* maybe_send_daily_heartbeat is at rest, or sending
    unseen      \* history: no down event of this outage has got to the down state

gapVars == <<downSince, unseen>>
feedVars == <<link, outage, boot, recent, flapping, atOnce, down, sending, gapVars, beat>>

(* connecting: connecting, or backing off before that.  counting: in         *)
(* _handle_down_event, asking Redis for the open trades.  recovering: in     *)
(* _handle_recovery_event, sending.                                          *)
Links == {"connecting", "counting", "recovering", "streaming"}

DownStates == [since : Outages, alerted : {"no", "yes"}, due : {"no", "yes"}]
NoOutage == [since |-> 0, alerted |-> "no", due |-> "no"]

FeedTypeOK ==
    /\ link \in Links
    /\ outage \in Outages /\ boot \in Outages
    /\ recent \in 0 .. FlappingCount
    /\ flapping \in {"no", "yes"}
    /\ atOnce \in {"no", "yes"}
    /\ down \in DownStates \cup {NoOutage}
    /\ sending \in DownStates \cup {NoOutage}
    /\ downSince \in Outages \cup {0}
    /\ beat \in {"rest", "sending"}
    /\ unseen \in {"no", "yes"}

FeedInit ==
    /\ link = "connecting"
    /\ outage = 1 /\ boot = 1
    /\ recent = 0
    /\ flapping = "no"
    /\ atOnce = "no"
    /\ down = NoOutage
    /\ sending = NoOutage
    /\ downSince = 0
    /\ beat = "rest"
    /\ unseen = "yes"

-----------------------------------------------------------------------------
(* The feed.                                                                 *)

(* _record_disconnect drops what is older than ten minutes; whether enough   *)
(* is left decides about the next down event.                                *)
RecordDisconnect ==
    \E kept \in 0 .. recent :
        /\ recent' = IF kept < FlappingCount THEN kept + 1 ELSE FlappingCount
        /\ flapping' = IF kept + 1 >= FlappingCount THEN "yes" ELSE "no"

(* _mark_stale or _mark_disconnected, and _handle_down_event up to its first *)
(* await: with a down state there is nothing more to it.                     *)
DownEvent ==
    /\ RecordDisconnect
    /\ downSince' = IF downSince = 0 THEN outage' ELSE downSince
    /\ IF down = NoOutage
       THEN link' = "counting" /\ atOnce' = flapping
       ELSE link' = "connecting" /\ UNCHANGED atOnce
    /\ UNCHANGED <<boot, down, sending, beat>>

(* A stale stream or an exception in it.                                     *)
ConnectionLost ==
    /\ link = "streaming"
    /\ outage < MaxOutages
    /\ outage' = outage + 1
    /\ unseen' = IF down = NoOutage THEN "yes" ELSE "no"
    /\ DownEvent

(* Every failed attempt is a down event of its own.                          *)
ConnectFails ==
    /\ link = "connecting"
    /\ UNCHANGED <<outage, unseen>>
    /\ DownEvent

(* The open trades are counted; whatever has become of _down_state           *)
(* meanwhile is replaced.                                                    *)
Counted ==
    /\ link = "counting"
    /\ down' = [since |-> outage, alerted |-> "no", due |-> atOnce]
    /\ link' = "connecting"
    /\ unseen' = "no"
    /\ UNCHANGED <<outage, boot, recent, flapping, atOnce, sending, downSince, beat>>

(* Redis fails: the exception ends the stream or the report, and the feed    *)
(* starts again (Monitor.run).                                               *)
CountFails ==
    /\ link = "counting"
    /\ link' = "connecting"
    /\ UNCHANGED <<outage, boot, recent, flapping, atOnce, down, sending, gapVars, beat>>

(* _publish_connected: RECONNECTED tells the gap, and forgets it when the    *)
(* handler is back; CONNECTED, the first time, does neither.  (Asked only    *)
(* where the feed does not stream.)                                          *)
HasConnectedOnce == outage # boot
ReportedGap == IF HasConnectedOnce THEN downSince ELSE down.since
ForgetGap == downSince' = IF HasConnectedOnce THEN 0 ELSE downSince

(* Faulty: without an alert to take back, the handler returns early.         *)
ConnectForgetfully ==
    /\ link = "connecting"
    /\ down.alerted = "no"
    /\ link' = "streaming"
    /\ ForgetGap
    /\ UNCHANGED <<outage, boot, recent, flapping, atOnce, down, sending, beat, unseen>>

(* CONNECTED or RECONNECTED, and no alert has been sent.                     *)
ConnectQuietly ==
    /\ link = "connecting"
    /\ down.alerted = "no"
    /\ down' = NoOutage
    /\ link' = "streaming"
    /\ ForgetGap
    /\ UNCHANGED <<outage, boot, recent, flapping, atOnce, sending, beat, unseen>>

(* An alert has been sent: the recovery message goes out first.              *)
ConnectAfterAlert ==
    /\ link = "connecting"
    /\ down.alerted = "yes"
    /\ link' = "recovering"
    /\ UNCHANGED <<outage, boot, recent, flapping, atOnce, down, sending, gapVars, beat>>

(* _send_with_retry comes back, the message delivered or given up; the       *)
(* handler does not ask which.                                               *)
RecoverySent ==
    /\ link = "recovering"
    /\ down' = NoOutage
    /\ link' = "streaming"
    /\ ForgetGap
    /\ UNCHANGED <<outage, boot, recent, flapping, atOnce, sending, beat, unseen>>

FeedTask ==
    \/ ConnectionLost \/ ConnectFails
    \/ Counted \/ CountFails
    \/ ConnectQuietly \/ ConnectAfterAlert \/ RecoverySent

-----------------------------------------------------------------------------
(* The health loop: process_due_alerts once a second.                        *)

(* Faulty: only the first alert is ever sent.                                *)
PollFirstOnly ==
    /\ sending = NoOutage
    /\ down.due = "yes"
    /\ down.alerted = "no"
    /\ sending' = down
    /\ UNCHANGED <<link, outage, boot, recent, flapping, atOnce, down, gapVars, beat>>

PollDue ==
    /\ sending = NoOutage
    /\ down.due = "yes"
    /\ sending' = down
    /\ UNCHANGED <<link, outage, boot, recent, flapping, atOnce, down, gapVars, beat>>

(* The alert is delivered or given up, which process_due_alerts does not     *)
(* ask, and the down state read before it is written back: "alerted" is      *)
(* alert_sent, which says that an alert was tried, not that the user has it. *)
AlertSent ==
    /\ sending # NoOutage
    /\ down' = [sending EXCEPT !.alerted = "yes", !.due = "no"]
    /\ sending' = NoOutage
    /\ UNCHANGED <<link, outage, boot, recent, flapping, atOnce, gapVars, beat>>

TimePasses ==
    /\ down # NoOutage
    /\ down' = [down EXCEPT !.due = "yes"]
    /\ UNCHANGED <<link, outage, boot, recent, flapping, atOnce, sending, gapVars, beat>>

-----------------------------------------------------------------------------
(* The daily heartbeat: the monitor is running.                              *)

(* Faulty: whether the feed is up does not matter.                           *)
BeatBeginsAnyway ==
    /\ beat = "rest"
    /\ beat' = "sending"
    /\ UNCHANGED <<link, outage, boot, recent, flapping, atOnce, down, sending, gapVars>>

(* Its hour has come; the open trades are counted and it is sent.            *)
BeatBegins ==
    /\ beat = "rest"
    /\ down = NoOutage
    /\ beat' = "sending"
    /\ UNCHANGED <<link, outage, boot, recent, flapping, atOnce, down, sending, gapVars>>

(* Sent, given up, or Redis has failed.                                      *)
BeatEnds ==
    /\ beat = "sending"
    /\ beat' = "rest"
    /\ UNCHANGED <<link, outage, boot, recent, flapping, atOnce, down, sending, gapVars>>

-----------------------------------------------------------------------------
(* The process dies, and is started again with nothing in memory.            *)
ProcessDies ==
    /\ outage < MaxOutages
    /\ outage' = outage + 1 /\ boot' = outage + 1
    /\ link' = "connecting"
    /\ recent' = 0 /\ flapping' = "no" /\ atOnce' = "no"
    /\ down' = NoOutage /\ sending' = NoOutage
    /\ downSince' = 0
    /\ beat' = "rest"
    /\ unseen' = "yes"

FeedNext == FeedTask \/ PollDue \/ AlertSent \/ TimePasses \/ BeatBegins \/ BeatEnds \/ ProcessDies

FeedSpec == FeedInit /\ [][FeedNext]_feedVars

(* Fairness: the adapter tries again after every back-off, the event loop    *)
(* resumes a task whose await is over (the Telegram client times out), the   *)
(* loop polls, time passes; and Redis does not fail for ever.                *)
FeedFairness ==
    /\ WF_feedVars(ConnectFails \/ ConnectQuietly \/ ConnectAfterAlert)
    /\ WF_feedVars(RecoverySent)
    /\ SF_feedVars(Counted)
    /\ WF_feedVars(Counted \/ CountFails)
    /\ WF_feedVars(PollDue)
    /\ WF_feedVars(AlertSent)
    /\ WF_feedVars(TimePasses)

FairFeedSpec == FeedSpec /\ FeedFairness

-----------------------------------------------------------------------------
(* Correctness.                                                              *)

(* The debounce window starts afresh with every outage (REQ-009): the first  *)
(* alert of a down state is begun while the feed is down, and about the      *)
(* outage that is on, however short the connections before it were.          *)
FirstAlertIsOfThisOutage ==
    [][sending = NoOutage /\ sending' # NoOutage /\ sending'.alerted = "no"
         => link # "streaming" /\ sending'.since = outage]_feedVars

(* "A silent monitor is the worst failure mode": whenever the feed is down,  *)
(* an alert goes out, and another one after it, until the feed is back; no   *)
(* failed count, and no writing back of an older outage, ends the alerts.    *)
EveryOutageIsReported ==
    link # "streaming" ~> sending # NoOutage \/ link = "streaming"

(* requirements.md:247: a heartbeat says that the monitor is healthy.  It is *)
(* begun only on a feed that streams, or one whose loss Redis has not yet    *)
(* let the handler write down; no write-back of the health loop, and no      *)
(* connection but a successful one, makes a feed that is down look healthy.  *)
HeartbeatIsHonest ==
    [][beat = "rest" /\ beat' = "sending"
         => link = "streaming" \/ (link # "recovering" /\ unseen = "yes")]_feedVars

(* requirements.md:262: a recovery message includes the gap duration, that   *)
(* of the outage it ends and of no other.                                    *)
GapIsOfThisOutage ==
    link = "recovering" => ReportedGap = outage

(* How far that fails (it does: CONNECTED does not clear _down_since): only  *)
(* the first outage after a process's first connection can be reported too   *)
(* long, and only from the start of the process.                             *)
WrongGapIsFromStart ==
    link = "recovering" /\ ReportedGap # outage => ReportedGap = boot /\ outage = boot + 1

(* requirements.md:237: alerts repeat while down; so none is begun about a   *)
(* feed that is streaming.                                                   *)
AlertsOnlyWhileDown ==
    [][sending = NoOutage /\ sending' # NoOutage => link # "streaming"]_feedVars

(* The inductive invariant.  A down state that nobody has been alerted about *)
(* is that of the outage that is on.                                         *)
DownHolds ==
    /\ down # NoOutage /\ down.alerted = "no" => link # "streaming" /\ down.since = outage
    /\ down = NoOutage => down.due = "no"
    /\ link = "recovering" => down.alerted = "yes"
    /\ link # "streaming" => down # NoOutage \/ unseen = "yes"

(* _down_since is that of the outage that is on, or of the start.            *)
GapsHold ==
    /\ boot <= outage
    /\ link = "streaming" => downSince = 0 \/ (downSince = boot /\ outage = boot)
    /\ link # "streaming" => \/ downSince = outage
                             \/ downSince = 0 /\ outage = boot
                             \/ downSince = boot /\ outage = boot + 1
    /\ ~ HasConnectedOnce => down.since \in {0, boot} /\ sending.since \in {0, boot}

FeedInvariant == FeedTypeOK /\ DownHolds /\ GapsHold
=============================================================================
