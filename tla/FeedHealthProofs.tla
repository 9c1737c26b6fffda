--------------------------- MODULE FeedHealthProofs ---------------------------
(***************************************************************************)
(* What FeedHealth promises for any number of outages and restarts and any *)
(* count of disconnects that makes a connection flapping.                  *)
(***************************************************************************)
EXTENDS FeedHealth, TLAPS

LEMMA FeedStart == FeedInit => FeedInvariant
  BY FeedAssumption
  DEF FeedInit, FeedInvariant, FeedTypeOK, DownHolds, GapsHold, HasConnectedOnce,
      Links, Outages, NoOutage

(* The handler of a down event, whose only await is the count.             *)
LEMMA DownEventStep ==
  ASSUME FeedInvariant, DownEvent, outage' \in Outages,
         \/ outage' = outage /\ link = "connecting" /\ unseen' = unseen
         \/ /\ outage' = outage + 1 /\ link = "streaming"
            /\ unseen' = IF down = NoOutage THEN "yes" ELSE "no"
  PROVE  FeedInvariant'
<1> USE DEF FeedInvariant, DownHolds, GapsHold
<1>1. recent' \in 0 .. FlappingCount /\ flapping' \in {"no", "yes"}
  BY FeedAssumption DEF DownEvent, RecordDisconnect, FeedTypeOK
<1>2. UNCHANGED <<boot, down, sending, beat>> BY DEF DownEvent
<1>3. /\ link' \in {"counting", "connecting"} /\ atOnce' \in {"no", "yes"}
      /\ link' = "connecting" => down # NoOutage
  BY DEF DownEvent, FeedTypeOK
<1>4. downSince' = IF downSince = 0 THEN outage' ELSE downSince BY DEF DownEvent
<1>5. unseen' \in {"no", "yes"} BY DEF FeedTypeOK
<1>6. FeedTypeOK'
  BY <1>1, <1>2, <1>3, <1>4, <1>5 DEF FeedTypeOK, Links
<1>7. down # NoOutage /\ down.alerted = "no" => outage' = outage
  OBVIOUS
<1>8. outage \in Nat /\ boot \in Nat /\ outage # 0 /\ boot # 0 BY DEF FeedTypeOK, Outages
<1>9. \/ downSince' = outage'
      \/ downSince' = boot /\ outage' = boot + 1
  BY <1>2, <1>4, <1>8
<1>10. boot' <= outage' BY <1>2, <1>8
<1>11. ~ HasConnectedOnce' => down'.since \in {0, boot'} /\ sending'.since \in {0, boot'}
  BY <1>2, <1>8 DEF HasConnectedOnce
<1> QED BY <1>2, <1>3, <1>6, <1>7, <1>9, <1>10, <1>11

(* Alerts: the down state that is written, or written back, is one of them.  *)
LEMMA AlertStep ==
  ASSUME FeedInvariant, PollDue \/ AlertSent \/ TimePasses PROVE FeedInvariant'
<1> USE DEF FeedInvariant, FeedTypeOK, DownHolds
<1>0. 0 \notin Outages BY DEF Outages
<1>1. UNCHANGED <<link, outage, boot, recent, flapping, atOnce, downSince, unseen, beat>>
  BY DEF PollDue, AlertSent, TimePasses, gapVars
<1>2. CASE PollDue
  <2>1. down' = down /\ sending' = down BY <1>2 DEF PollDue
  <2>2. GapsHold' BY <1>1, <2>1 DEF GapsHold, HasConnectedOnce
  <2> QED BY <1>1, <2>1, <2>2
<1>3. CASE AlertSent
  <2>1. sending \in DownStates BY <1>3 DEF AlertSent
  <2>2. down' = [since |-> sending.since, alerted |-> "yes", due |-> "no"]
    BY <1>3, <2>1 DEF AlertSent, DownStates
  <2>3. down' \in DownStates /\ down'.since = sending.since /\ down' # NoOutage
    BY <1>0, <2>1, <2>2 DEF DownStates, NoOutage
  <2>4. sending' = NoOutage BY <1>3 DEF AlertSent
  <2>5. GapsHold' BY <1>1, <2>3, <2>4 DEF GapsHold, HasConnectedOnce, NoOutage
  <2> QED BY <1>1, <2>2, <2>3, <2>4, <2>5
<1>4. CASE TimePasses
  <2>1. down \in DownStates BY <1>4 DEF TimePasses
  <2>2. down' = [since |-> down.since, alerted |-> down.alerted, due |-> "yes"]
    BY <1>4, <2>1 DEF TimePasses, DownStates
  <2>3. down' \in DownStates /\ down'.since = down.since /\ down'.alerted = down.alerted /\ down' # NoOutage
    BY <1>0, <2>1, <2>2 DEF DownStates, NoOutage
  <2>4. UNCHANGED sending /\ down # NoOutage BY <1>4 DEF TimePasses
  <2>5. GapsHold' BY <1>1, <2>3, <2>4 DEF GapsHold, HasConnectedOnce
  <2> QED BY <1>1, <2>3, <2>4, <2>5
<1> QED BY <1>2, <1>3, <1>4

(* Connections, and the count that a down event awaits.                      *)
LEMMA LinkStep ==
  ASSUME FeedInvariant, Counted \/ CountFails \/ ConnectQuietly \/ ConnectAfterAlert \/ RecoverySent
  PROVE  FeedInvariant'
<1> USE DEF FeedInvariant, FeedTypeOK, DownHolds
<1>0. 0 \notin Outages /\ outage \in Nat /\ boot \in Nat BY DEF Outages
<1>1. UNCHANGED <<outage, boot, recent, flapping, atOnce, sending, beat>>
  BY DEF Counted, CountFails, ConnectQuietly, ConnectAfterAlert, RecoverySent
<1>2. CASE Counted
  <2>1. down' \in DownStates /\ down'.since = outage /\ down' # NoOutage /\ down'.alerted = "no"
    BY <1>0, <1>2 DEF Counted, DownStates, NoOutage
  <2>2. UNCHANGED downSince /\ link = "counting" /\ link' = "connecting" /\ unseen' = "no"
    BY <1>2 DEF Counted
  <2>3. GapsHold' BY <1>1, <2>1, <2>2 DEF GapsHold, HasConnectedOnce
  <2> QED BY <1>1, <2>1, <2>2, <2>3 DEF Links
<1>3. CASE CountFails
  <2>1. UNCHANGED <<down, downSince, unseen>> /\ link = "counting" /\ link' = "connecting"
    BY <1>3 DEF CountFails, gapVars
  <2>2. GapsHold' BY <1>1, <2>1 DEF GapsHold, HasConnectedOnce
  <2> QED BY <1>1, <2>1, <2>2 DEF Links
<1>4. CASE ConnectQuietly \/ RecoverySent
  <2>1. /\ down' = NoOutage /\ link \in {"connecting", "recovering"} /\ link' = "streaming" /\ unseen' = unseen
        /\ downSince' = IF HasConnectedOnce THEN 0 ELSE downSince
    BY <1>4 DEF ConnectQuietly, RecoverySent, ForgetGap
  <2>2. GapsHold' BY <1>0, <1>1, <2>1 DEF GapsHold, HasConnectedOnce, NoOutage
  <2> QED BY <1>1, <2>1, <2>2 DEF Links, NoOutage
<1>5. CASE ConnectAfterAlert
  <2>1. /\ UNCHANGED <<down, downSince, unseen>> /\ link = "connecting" /\ link' = "recovering"
        /\ down.alerted = "yes"
    BY <1>5 DEF ConnectAfterAlert, gapVars
  <2>2. GapsHold' BY <1>1, <2>1 DEF GapsHold, HasConnectedOnce
  <2> QED BY <1>1, <2>1, <2>2 DEF Links
<1> QED BY <1>2, <1>3, <1>4, <1>5

LEMMA FeedStep == FeedInvariant /\ [FeedNext]_feedVars => FeedInvariant'
<1> SUFFICES ASSUME FeedInvariant, [FeedNext]_feedVars
             PROVE  FeedInvariant'
  OBVIOUS
<1> USE FeedAssumption DEF FeedInvariant
<1>1. CASE ConnectionLost
  <2>1. /\ outage' \in Outages /\ outage' = outage + 1 /\ link = "streaming" /\ DownEvent
        /\ unseen' = IF down = NoOutage THEN "yes" ELSE "no"
    BY <1>1 DEF ConnectionLost, Outages, FeedTypeOK
  <2> QED BY <2>1, DownEventStep
<1>2. CASE ConnectFails
  <2>1. /\ outage' \in Outages /\ outage' = outage /\ link = "connecting" /\ DownEvent
        /\ unseen' = unseen
    BY <1>2 DEF ConnectFails, FeedTypeOK
  <2> QED BY <2>1, DownEventStep
<1>3. CASE BeatBegins \/ BeatEnds
  BY <1>3 DEF BeatBegins, BeatEnds, gapVars, FeedTypeOK, DownHolds, GapsHold, HasConnectedOnce
<1>4. CASE ProcessDies
  <2>1. outage' \in Outages /\ boot' = outage' BY <1>4 DEF ProcessDies, Outages, FeedTypeOK
  <2>2. FeedTypeOK' BY <1>4, <2>1 DEF ProcessDies, FeedTypeOK, Links
  <2>3. DownHolds' BY <1>4 DEF ProcessDies, DownHolds, NoOutage
  <2>4. GapsHold' BY <1>4, <2>1 DEF ProcessDies, GapsHold, HasConnectedOnce, NoOutage, Outages
  <2> QED BY <2>2, <2>3, <2>4
<1>5. CASE UNCHANGED feedVars
  BY <1>5 DEF feedVars, gapVars, FeedTypeOK, DownHolds, GapsHold, HasConnectedOnce
<1> QED
  BY <1>1, <1>2, <1>3, <1>4, <1>5, LinkStep, AlertStep DEF FeedNext, FeedTask

(* The inductive invariant of feed and health loop.                        *)
THEOREM FeedInvariantHolds == FeedSpec => []FeedInvariant
<1> QED BY FeedStart, FeedStep, PTL DEF FeedSpec

(* The first alert of a down state is about the outage that is on.         *)
THEOREM FirstAlertsAreCurrent == FeedSpec => FirstAlertIsOfThisOutage
<1>1. ASSUME FeedInvariant, [FeedNext]_feedVars,
             sending = NoOutage, sending' # NoOutage, sending'.alerted = "no"
      PROVE  link # "streaming" /\ sending'.since = outage
  <2>1. PollDue
    BY <1>1 DEF FeedNext, FeedTask, ConnectionLost, ConnectFails, DownEvent, Counted, CountFails,
       ConnectQuietly, ConnectAfterAlert, RecoverySent, AlertSent, TimePasses, BeatBegins, BeatEnds,
       ProcessDies, feedVars
  <2>2. sending' = down BY <2>1 DEF PollDue
  <2> QED BY <1>1, <2>2 DEF FeedInvariant, DownHolds
<1>2. FeedInvariant /\ [FeedNext]_feedVars =>
        [sending = NoOutage /\ sending' # NoOutage /\ sending'.alerted = "no"
           => link # "streaming" /\ sending'.since = outage]_feedVars
  BY <1>1
<1> QED BY <1>2, FeedInvariantHolds, PTL DEF FeedSpec, FirstAlertIsOfThisOutage

(* A recovery message tells a gap that is not of its outage only at the      *)
(* first outage after a process's first connection, counted from its start.  *)
THEOREM WrongGapsAreFromStart == FeedSpec => []WrongGapIsFromStart
<1>1. FeedInvariant => WrongGapIsFromStart
  <2> SUFFICES ASSUME FeedInvariant, link = "recovering"
               PROVE  ReportedGap = outage \/ (ReportedGap = boot /\ outage = boot + 1)
    BY DEF WrongGapIsFromStart
  <2>1. CASE HasConnectedOnce
    BY <2>1 DEF FeedInvariant, GapsHold, ReportedGap, HasConnectedOnce
  <2>2. CASE ~ HasConnectedOnce
    <3>1. down.since \in {0, boot} /\ outage = boot BY <2>2 DEF FeedInvariant, GapsHold, HasConnectedOnce
    <3>2. down \in DownStates BY DEF FeedInvariant, FeedTypeOK, DownHolds, NoOutage
    <3>3. down.since # 0 BY <3>2 DEF DownStates, Outages
    <3> QED BY <2>2, <3>1, <3>3 DEF ReportedGap
  <2> QED BY <2>1, <2>2
<1> QED BY <1>1, FeedInvariantHolds, PTL

(* No heartbeat is begun on a feed that is known to be down.                 *)
THEOREM HeartbeatsAreHonest == FeedSpec => HeartbeatIsHonest
<1>1. ASSUME FeedInvariant, [FeedNext]_feedVars, beat = "rest", beat' = "sending"
      PROVE  link = "streaming" \/ (link # "recovering" /\ unseen = "yes")
  <2>1. BeatBegins
    BY <1>1 DEF FeedNext, FeedTask, ConnectionLost, ConnectFails, DownEvent, Counted, CountFails,
       ConnectQuietly, ConnectAfterAlert, RecoverySent, PollDue, AlertSent, TimePasses, BeatEnds,
       ProcessDies, feedVars
  <2>2. down = NoOutage BY <2>1 DEF BeatBegins
  <2>3. link # "recovering" BY <1>1, <2>2 DEF FeedInvariant, DownHolds, NoOutage
  <2> QED BY <1>1, <2>2, <2>3 DEF FeedInvariant, DownHolds
<1>2. FeedInvariant /\ [FeedNext]_feedVars =>
        [beat = "rest" /\ beat' = "sending"
           => link = "streaming" \/ (link # "recovering" /\ unseen = "yes")]_feedVars
  BY <1>1
<1> QED BY <1>2, FeedInvariantHolds, PTL DEF FeedSpec, HeartbeatIsHonest
=============================================================================
