------------------------ MODULE AlertSequencesProofs ------------------------
(***************************************************************************)
(* TLAPS proofs about AlertSequences, for any set of breaches.             *)
(***************************************************************************)
EXTENDS AlertSequences, TLAPS

USE LevelAssumption DEF LevelAssumption

(* NextLevel stays in range and leaves no gap.                               *)
LEMMA NextLevelStep ==
  ASSUME NEW n \in Levels
  PROVE  NextLevel(n) \in Levels /\ \A k \in Levels : k < NextLevel(n) => k <= n
BY DEF NextLevel, Levels

(* The sequences that are due are alerts, at most one for each breach, and   *)
(* only of registered breaches.                                              *)
LEMMA DueNowShape ==
  ASSUME SequencesTypeOK
  PROVE  /\ DueNow \subseteq Breaches \X Levels
         /\ \A b \in Breaches, n \in Levels :
               <<b, n>> \in DueNow => b \in registered /\ n = level[b]
BY DEF DueNow, SequencesTypeOK

(* What GoOn leaves in the snapshot and what it begins both come out of it.  *)
LEMMA GoOnShape ==
  ASSUME SequencesTypeOK, NEW s \in Senders, NEW snap \in SUBSET (Breaches \X Levels),
         GoOn(s, snap)
  PROVE  /\ todo' \in [Senders -> SUBSET (Breaches \X Levels)]
         /\ sending' \in [Senders -> SUBSET (Breaches \X Levels)]
         /\ todo'[s] \subseteq snap
         /\ sending'[s] \subseteq snap
         /\ \A r \in Senders \ {s} : todo'[r] = todo[r] /\ sending'[r] = sending[r]
         /\ attempted' \in [Breaches -> SUBSET Levels]
         /\ \A b \in Breaches : attempted[b] \subseteq attempted'[b]
         /\ \A b \in Breaches : \A n \in attempted'[b] : n \in attempted[b] \/ <<b, n>> \in snap
         /\ \A b \in Breaches, n \in Levels : <<b, n>> \in sending'[s] => n \in attempted'[b]
<1> USE DEF SequencesTypeOK, GoOn
<1>1. CASE snap = {} /\ sending' = [sending EXCEPT ![s] = {}]
             /\ todo' = [todo EXCEPT ![s] = {}] /\ attempted' = attempted
  BY <1>1
<1>2. CASE \E b \in Breaches, n \in Levels :
             /\ <<b, n>> \in snap
             /\ sending' = [sending EXCEPT ![s] = {<<b, n>>}]
             /\ todo' = [todo EXCEPT ![s] = snap \ {<<b, n>>}]
             /\ attempted' = [attempted EXCEPT ![b] = @ \cup {n}]
  <2>1. PICK b \in Breaches, n \in Levels :
             /\ <<b, n>> \in snap
             /\ sending' = [sending EXCEPT ![s] = {<<b, n>>}]
             /\ todo' = [todo EXCEPT ![s] = snap \ {<<b, n>>}]
             /\ attempted' = [attempted EXCEPT ![b] = @ \cup {n}]
    BY <1>2
  <2>2. todo'[s] \subseteq snap /\ sending'[s] \subseteq snap
    <3>1. todo'[s] = snap \ {<<b, n>>} /\ sending'[s] = {<<b, n>>} BY <2>1
    <3> HIDE DEF SequencesTypeOK, GoOn
    <3> QED BY <2>1, <3>1
  <2>3. /\ todo' \in [Senders -> SUBSET (Breaches \X Levels)]
        /\ sending' \in [Senders -> SUBSET (Breaches \X Levels)]
    BY <2>1
  <2>4. \A r \in Senders \ {s} : todo'[r] = todo[r] /\ sending'[r] = sending[r] BY <2>1
  <2>5. attempted' \in [Breaches -> SUBSET Levels]
    <3>1. attempted \in [Breaches -> SUBSET Levels] OBVIOUS
    <3>2. attempted[b] \cup {n} \in SUBSET Levels BY <3>1
    <3>3. attempted' = [attempted EXCEPT ![b] = attempted[b] \cup {n}] BY <2>1
    <3> HIDE DEF SequencesTypeOK, GoOn
    <3> QED BY <3>1, <3>2, <3>3
  <2>6. \A c \in Breaches : attempted[c] \subseteq attempted'[c] BY <2>1
  <2>7. \A c \in Breaches : \A m \in attempted'[c] : m \in attempted[c] \/ <<c, m>> \in snap
    BY <2>1
  <2>8. \A c \in Breaches, m \in Levels : <<c, m>> \in sending'[s] => m \in attempted'[c]
    BY <2>1
  <2> QED BY <2>2, <2>3, <2>4, <2>5, <2>6, <2>7, <2>8
<1> QED BY <1>1, <1>2

(* GoOn begins an alert of b only by taking it out of the snapshot: the late *)
(* ones and the waiting ones together do not grow.                           *)
LEMMA GoOnCounts ==
  ASSUME SequencesTypeOK, NEW s \in Senders, NEW snap \in SUBSET (Breaches \X Levels),
         GoOn(s, snap), NEW b \in Breaches,
         \A m, n \in Levels : <<b, m>> \in snap /\ <<b, n>> \in snap => m = n
  PROVE  \/ late'[b] = late[b]
         \/ /\ life[b] = "stopped"
            /\ late'[b] = late[b] + 1
            /\ \E n \in Levels : <<b, n>> \in snap
            /\ \A n \in Levels : <<b, n>> \notin todo'[s]
<1> USE DEF SequencesTypeOK, GoOn
<1>1. CASE UNCHANGED late BY <1>1
<1>2. CASE \E c \in Breaches, n \in Levels :
             /\ <<c, n>> \in snap
             /\ todo' = [todo EXCEPT ![s] = snap \ {<<c, n>>}]
             /\ late' = [late EXCEPT ![c] = IF life[c] = "stopped" THEN @ + 1 ELSE @]
  <2>1. PICK c \in Breaches, n \in Levels :
             /\ <<c, n>> \in snap
             /\ todo' = [todo EXCEPT ![s] = snap \ {<<c, n>>}]
             /\ late' = [late EXCEPT ![c] = IF life[c] = "stopped" THEN @ + 1 ELSE @]
    BY <1>2
  <2>2. CASE c = b /\ life[b] = "stopped"
    <3>1. todo'[s] = snap \ {<<b, n>>} BY <2>1, <2>2
    <3>2. \A k \in Levels : <<b, k>> \notin todo'[s] BY <3>1, <2>1, <2>2
    <3> QED BY <2>1, <2>2, <3>2
  <2>3. CASE ~ (c = b /\ life[b] = "stopped") BY <2>1, <2>3
  <2> QED BY <2>2, <2>3
<1> QED BY <1>1, <1>2
----------------------------------------------------------------
(* A pass begun on a well-formed snapshot keeps the sequences' books, as     *)
(* long as life and registration do not change against them.                 *)
LEMMA GoOnKeepsBooks ==
  ASSUME SequencesInvariant, NEW s \in Senders, NEW snap \in SUBSET (Breaches \X Levels),
         GoOn(s, snap),
         \A b \in Breaches, m, n \in Levels : <<b, m>> \in snap /\ <<b, n>> \in snap => m = n,
         \A b \in Breaches, n \in Levels : <<b, n>> \in snap /\ life[b] = "stopped" => <<b, n>> \in todo[s],
         \A b \in Breaches, n \in Levels :
            <<b, n>> \in snap => \A k \in Levels : k < n => k \in attempted[b]
  PROVE  /\ late' \in [Breaches -> Nat]
         /\ \A r \in Senders, b \in Breaches, m, n \in Levels :
               <<b, m>> \in todo'[r] /\ <<b, n>> \in todo'[r] => m = n
         /\ \A b \in Breaches :
               /\ life[b] # "stopped" => late'[b] = 0
               /\ life[b] = "stopped" => late'[b] + Waits("loop", b)' + Waits("monitor", b)' <= 2
         /\ \A r \in Senders, b \in Breaches, n \in Levels :
               /\ <<b, n>> \in todo'[r] => \A k \in Levels : k < n => k \in attempted'[b]
               /\ <<b, n>> \in sending'[r] => \A k \in Levels : k <= n => k \in attempted'[b]
         /\ NoLevelIsSkipped'
<1> USE DEF SequencesInvariant
<1>0. SequencesTypeOK OBVIOUS
<1>1. \A r \in Senders, b \in Breaches, m, n \in Levels :
         <<b, m>> \in todo'[r] /\ <<b, n>> \in todo'[r] => m = n
  BY GoOnShape DEF SnapshotsAreBounded
<1>2. ASSUME NEW b \in Breaches
      PROVE  /\ late'[b] \in Nat
             /\ life[b] # "stopped" => late'[b] = 0
             /\ life[b] = "stopped" => late'[b] + Waits("loop", b)' + Waits("monitor", b)' <= 2
  <2>1. late[b] \in Nat BY DEF SequencesTypeOK
  <2>2. life[b] # "stopped" => late[b] = 0 BY DEF SnapshotsAreBounded
  <2>3. late[b] + Waits("loop", b) + Waits("monitor", b) <= 2 BY DEF SnapshotsAreBounded
  <2>4. \A r \in Senders : Waits(r, b) \in {0, 1} /\ Waits(r, b)' \in {0, 1} BY DEF Waits
  <2>5. \A r \in Senders \ {s} : Waits(r, b)' = Waits(r, b)
    <3>1. \A r \in Senders \ {s} : todo'[r] = todo[r] BY GoOnShape, <1>0
    <3> QED BY <3>1 DEF Waits
  <2>6. CASE late'[b] = late[b]
    <3>1. life[b] = "stopped" => Waits(s, b)' <= Waits(s, b)
      <4>1. todo'[s] \subseteq snap BY GoOnShape, <1>0
      <4>2. life[b] = "stopped" => \A n \in Levels : <<b, n>> \in todo'[s] => <<b, n>> \in todo[s]
        BY <4>1
      <4> HIDE DEF SequencesInvariant
      <4> QED BY <4>2 DEF Waits
    <3> QED BY <2>1, <2>2, <2>3, <2>4, <2>5, <2>6, <3>1 DEF Senders
  <2>7. CASE /\ life[b] = "stopped"
             /\ late'[b] = late[b] + 1
             /\ \E n \in Levels : <<b, n>> \in snap
             /\ \A n \in Levels : <<b, n>> \notin todo'[s]
    <3>1. Waits(s, b) = 1 BY <2>7 DEF Waits
    <3>2. Waits(s, b)' = 0 BY <2>7 DEF Waits
    <3> QED BY <2>1, <2>3, <2>4, <2>5, <2>7, <3>1, <3>2 DEF Senders
  <2> QED BY <1>0, <2>6, <2>7, GoOnCounts
<1>3. late' \in [Breaches -> Nat]
  <2>1. late \in [Breaches -> Nat] BY <1>0 DEF SequencesTypeOK
  <2>2. CASE UNCHANGED late BY <2>1, <2>2
  <2>3. CASE \E c \in Breaches :
               late' = [late EXCEPT ![c] = IF life[c] = "stopped" THEN @ + 1 ELSE @]
    <3>1. PICK c \in Breaches :
               late' = [late EXCEPT ![c] = IF life[c] = "stopped" THEN late[c] + 1 ELSE late[c]]
      BY <2>3
    <3>2. (IF life[c] = "stopped" THEN late[c] + 1 ELSE late[c]) \in Nat BY <2>1
    <3> HIDE DEF SequencesInvariant
    <3> QED BY <2>1, <3>1, <3>2
  <2> QED BY <2>2, <2>3 DEF GoOn
<1>4. ASSUME NEW r \in Senders, NEW b \in Breaches, NEW n \in Levels
      PROVE  /\ <<b, n>> \in todo'[r] => \A k \in Levels : k < n => k \in attempted'[b]
             /\ <<b, n>> \in sending'[r] => \A k \in Levels : k <= n => k \in attempted'[b]
  <2>1. attempted[b] \subseteq attempted'[b] BY GoOnShape, <1>0
  <2>2. CASE r = s
    <3>1. todo'[s] \subseteq snap /\ sending'[s] \subseteq snap BY GoOnShape, <1>0
    <3>2. <<b, n>> \in sending'[s] => n \in attempted'[b] BY GoOnShape, <1>0
    <3> QED BY <2>1, <2>2, <3>1, <3>2 DEF Levels
  <2>3. CASE r # s
    <3>1. todo'[r] = todo[r] /\ sending'[r] = sending[r] BY GoOnShape, <1>0, <2>3
    <3> QED BY <2>1, <3>1 DEF LowerLevelsAttempted
  <2> QED BY <2>2, <2>3
<1>5. NoLevelIsSkipped'
  <2> SUFFICES ASSUME NEW b \in Breaches, NEW n \in attempted'[b], NEW k \in 0 .. n
               PROVE  k \in attempted'[b]
    BY DEF NoLevelIsSkipped
  <2>1. attempted[b] \subseteq attempted'[b] /\ attempted'[b] \subseteq Levels
    BY GoOnShape, <1>0
  <2>2. n \in Levels /\ k \in Levels BY <2>1 DEF Levels
  <2>3. CASE n \in attempted[b] BY <2>1, <2>3 DEF NoLevelIsSkipped
  <2>4. CASE <<b, n>> \in snap
    <3>1. k < n => k \in attempted[b] BY <2>2, <2>4
    <3> QED BY <2>1, <2>2, <3>1 DEF Levels
  <2> QED BY <2>3, <2>4, <1>0, GoOnShape
<1> QED BY <1>1, <1>2, <1>3, <1>4, <1>5
----------------------------------------------------------------
(* A pass that leaves life and registration alone keeps the invariant, if no *)
(* registered level gets ahead of what has been attempted.                   *)
LEMMA PassKeepsInvariant ==
  ASSUME SequencesInvariant, NEW s \in Senders, NEW snap \in SUBSET (Breaches \X Levels),
         GoOn(s, snap),
         \A b \in Breaches, m, n \in Levels : <<b, m>> \in snap /\ <<b, n>> \in snap => m = n,
         \A b \in Breaches, n \in Levels :
            <<b, n>> \in snap /\ life[b] = "stopped" => <<b, n>> \in todo[s],
         \A b \in Breaches, n \in Levels : <<b, n>> \in snap => life[b] # "unseen",
         \A b \in Breaches, n \in Levels :
            <<b, n>> \in snap => \A k \in Levels : k < n => k \in attempted[b],
         UNCHANGED <<process, life, registered>>,
         level' \in [Breaches -> Levels], due' \in [Breaches -> BOOLEAN],
         \A b \in registered : \A k \in Levels : k < level'[b] => k \in attempted[b]
  PROVE  SequencesInvariant'
<1>0. /\ SequencesTypeOK /\ RegistryIsCurrent /\ SnapshotsAreBounded
  BY DEF SequencesInvariant
<1>1. /\ todo' \in [Senders -> SUBSET (Breaches \X Levels)]
      /\ sending' \in [Senders -> SUBSET (Breaches \X Levels)]
      /\ attempted' \in [Breaches -> SUBSET Levels]
      /\ \A c \in Breaches : attempted[c] \subseteq attempted'[c]
  BY <1>0, GoOnShape
<1>2. /\ late' \in [Breaches -> Nat]
      /\ \A r \in Senders, b \in Breaches, m, n \in Levels :
            <<b, m>> \in todo'[r] /\ <<b, n>> \in todo'[r] => m = n
      /\ \A b \in Breaches :
            /\ life[b] # "stopped" => late'[b] = 0
            /\ life[b] = "stopped" => late'[b] + Waits("loop", b)' + Waits("monitor", b)' <= 2
      /\ \A r \in Senders, b \in Breaches, n \in Levels :
            /\ <<b, n>> \in todo'[r] => \A k \in Levels : k < n => k \in attempted'[b]
            /\ <<b, n>> \in sending'[r] => \A k \in Levels : k <= n => k \in attempted'[b]
      /\ NoLevelIsSkipped'
  BY GoOnKeepsBooks
<1>3. SequencesTypeOK' BY <1>0, <1>1, <1>2 DEF SequencesTypeOK
<1>4. RegistryIsCurrent' BY <1>0 DEF RegistryIsCurrent
<1>5. SnapshotsAreBounded'
  <2>1. \A c \in Breaches, r \in Senders : Waits(r, c)' \in {0, 1} BY DEF Waits
  <2>2. ASSUME NEW c \in Breaches
        PROVE  /\ life'[c] # "stopped" => late'[c] = 0
               /\ late'[c] + Waits("loop", c)' + Waits("monitor", c)' <= 2
    <3>1. life'[c] = life[c] /\ registered' = registered OBVIOUS
    <3>3. /\ life[c] # "stopped" => late'[c] = 0
          /\ life[c] = "stopped" => late'[c] + Waits("loop", c)' + Waits("monitor", c)' <= 2
      BY <1>2
    <3>4. Waits("loop", c)' \in {0, 1} /\ Waits("monitor", c)' \in {0, 1}
      BY <2>1 DEF Senders
    <3> HIDE DEF SequencesInvariant
    <3> QED BY <3>1, <3>3, <3>4
  <2>3. \A r \in Senders, b \in Breaches, m, n \in Levels :
            <<b, m>> \in todo'[r] /\ <<b, n>> \in todo'[r] => m = n /\ life'[b] # "unseen"
    <3>1. \A r \in Senders, b \in Breaches, n \in Levels :
             <<b, n>> \in todo'[r] => <<b, n>> \in snap \/ <<b, n>> \in todo[r]
      BY <1>0, GoOnShape
    <3> QED BY <1>0, <1>2, <3>1 DEF SnapshotsAreBounded
  <2> QED BY <2>2, <2>3 DEF SnapshotsAreBounded
<1>6. LowerLevelsAttempted' BY <1>0, <1>1, <1>2 DEF LowerLevelsAttempted, SequencesTypeOK
<1> QED BY <1>2, <1>3, <1>4, <1>5, <1>6 DEF SequencesInvariant

(* The invariant survives every step.                                        *)
LEMMA SequencesStep ==
  SequencesInvariant /\ [SequencesNext]_sequenceVars => SequencesInvariant'
<1> SUFFICES ASSUME SequencesInvariant, [SequencesNext]_sequenceVars
             PROVE  SequencesInvariant'
  OBVIOUS
<1>0. /\ SequencesTypeOK /\ RegistryIsCurrent /\ SnapshotsAreBounded
      /\ LowerLevelsAttempted /\ NoLevelIsSkipped
  BY DEF SequencesInvariant
<1>1. ASSUME NEW b \in Breaches, Trigger(b) PROVE SequencesInvariant'
  <2> DEFINE snap == DueNow \cup {<<b, 0>>}
  <2>1. 0 \in Levels BY DEF Levels
  <2>2. snap \in SUBSET (Breaches \X Levels) BY <1>0, <2>1, DueNowShape
  <2>3. b \notin registered /\ life[b] = "unseen"
    BY <1>0, <1>1 DEF Trigger, RegistryIsCurrent
  <2>4. \A c \in Breaches, n \in Levels :
           <<c, n>> \in snap => (c = b /\ n = 0) \/ (c \in registered /\ n = level[c])
    BY <1>0, DueNowShape
  <2>5. \A c \in Breaches, m, n \in Levels : <<c, m>> \in snap /\ <<c, n>> \in snap => m = n
    BY <2>3, <2>4
  <2>6. \A c \in Breaches, n \in Levels :
           <<c, n>> \in snap /\ life[c] = "stopped" => <<c, n>> \in todo["monitor"]
    BY <1>0, <2>3, <2>4 DEF RegistryIsCurrent
  <2>7. \A c \in Breaches, n \in Levels :
           <<c, n>> \in snap => \A k \in Levels : k < n => k \in attempted[c]
    BY <1>0, <2>4 DEF LowerLevelsAttempted, Levels
  <2>8. GoOn("monitor", snap) /\ "monitor" \in Senders BY <1>1 DEF Trigger, Senders
  <2> HIDE DEF snap
  <2>9. /\ todo' \in [Senders -> SUBSET (Breaches \X Levels)]
        /\ sending' \in [Senders -> SUBSET (Breaches \X Levels)]
        /\ attempted' \in [Breaches -> SUBSET Levels]
        /\ \A c \in Breaches : attempted[c] \subseteq attempted'[c]
    BY <1>0, <2>2, <2>8, GoOnShape
  <2>10. SequencesTypeOK'
    <3>1. late' \in [Breaches -> Nat]
      BY <2>2, <2>5, <2>6, <2>7, <2>8, GoOnKeepsBooks
    <3> QED BY <1>0, <1>1, <2>1, <2>9, <3>1 DEF Trigger, SequencesTypeOK
  <2>11. RegistryIsCurrent' BY <1>0, <1>1 DEF Trigger, RegistryIsCurrent, SequencesTypeOK
  <2>12. LowerLevelsAttempted'
    <3>1. \A c \in registered' : \A k \in Levels : k < level'[c] => k \in attempted'[c]
      BY <1>0, <1>1, <2>9 DEF Trigger, LowerLevelsAttempted, SequencesTypeOK, Levels
    <3> QED BY <3>1, <2>2, <2>5, <2>6, <2>7, <2>8, GoOnKeepsBooks DEF LowerLevelsAttempted
  <2>13. \A c \in Breaches :
            /\ life'[c] # "stopped" => late'[c] = 0
            /\ life'[c] = "stopped" => late'[c] + Waits("loop", c)' + Waits("monitor", c)' <= 2
    <3>1. \A c \in Breaches :
            /\ life[c] # "stopped" => late'[c] = 0
            /\ life[c] = "stopped" => late'[c] + Waits("loop", c)' + Waits("monitor", c)' <= 2
      BY <2>2, <2>5, <2>6, <2>7, <2>8, GoOnKeepsBooks
    <3> QED BY <1>0, <1>1, <2>3, <3>1 DEF Trigger, SequencesTypeOK
  <2>14. /\ NoLevelIsSkipped'
         /\ \A r \in Senders, c \in Breaches, m, n \in Levels :
               <<c, m>> \in todo'[r] /\ <<c, n>> \in todo'[r] => m = n /\ life'[c] # "unseen"
    <3>1. \A r \in Senders, c \in Breaches, n \in Levels :
             <<c, n>> \in todo'[r] => <<c, n>> \in snap \/ <<c, n>> \in todo[r]
      BY <1>0, <2>2, <2>8, GoOnShape
    <3>2. \A c \in Breaches : life'[c] # "unseen" <=> (c = b \/ life[c] # "unseen")
      BY <1>0, <1>1 DEF Trigger, SequencesTypeOK
    <3>3. \A c \in Breaches, n \in Levels : <<c, n>> \in snap => c = b \/ life[c] # "unseen"
      BY <1>0, <2>4 DEF RegistryIsCurrent
    <3>4. \A r \in Senders, c \in Breaches, n \in Levels : <<c, n>> \in todo[r] => life[c] # "unseen"
      BY <1>0 DEF SnapshotsAreBounded
    <3>5. /\ NoLevelIsSkipped'
          /\ \A r \in Senders, c \in Breaches, m, n \in Levels :
               <<c, m>> \in todo'[r] /\ <<c, n>> \in todo'[r] => m = n
      BY <2>2, <2>5, <2>6, <2>7, <2>8, GoOnKeepsBooks
    <3> QED BY <3>1, <3>2, <3>3, <3>4, <3>5
  <2>15. SnapshotsAreBounded'
    <3>1. \A c \in Breaches : late'[c] \in Nat BY <2>10 DEF SequencesTypeOK
    <3>2. \A c \in Breaches, r \in Senders : Waits(r, c)' \in {0, 1} BY DEF Waits
    <3> QED BY <2>13, <2>14, <3>1, <3>2 DEF SnapshotsAreBounded, Senders
  <2> QED BY <2>10, <2>11, <2>12, <2>14, <2>15 DEF SequencesInvariant
<1>2. CASE LoopPolls
  <2>1. DueNow \in SUBSET (Breaches \X Levels) BY <1>0, DueNowShape
  <2>2. \A c \in Breaches, n \in Levels : <<c, n>> \in DueNow => c \in registered /\ n = level[c]
    BY <1>0, DueNowShape
  <2>3. \A c \in Breaches, m, n \in Levels : <<c, m>> \in DueNow /\ <<c, n>> \in DueNow => m = n
    BY <2>2
  <2>4. \A c \in Breaches, n \in Levels :
           <<c, n>> \in DueNow /\ life[c] = "stopped" => <<c, n>> \in todo["loop"]
    BY <1>0, <2>2 DEF RegistryIsCurrent
  <2>5. \A c \in Breaches, n \in Levels :
           <<c, n>> \in DueNow => \A k \in Levels : k < n => k \in attempted[c]
    BY <1>0, <2>2 DEF LowerLevelsAttempted
  <2>6. /\ GoOn("loop", DueNow) /\ UNCHANGED <<process, dispatcherVars, life>>
        /\ "loop" \in Senders
    BY <1>2 DEF LoopPolls, Senders
  <2>7. /\ UNCHANGED <<process, life, registered>>
        /\ level' \in [Breaches -> Levels] /\ due' \in [Breaches -> BOOLEAN]
        /\ \A c \in registered : \A k \in Levels : k < level'[c] => k \in attempted[c]
    BY <1>0, <2>6 DEF dispatcherVars, SequencesTypeOK, LowerLevelsAttempted
  <2>8. \A c \in Breaches, n \in Levels : <<c, n>> \in DueNow => life[c] # "unseen"
    BY <1>0, <2>2 DEF RegistryIsCurrent
  <2> QED BY <2>1, <2>3, <2>4, <2>5, <2>6, <2>7, <2>8, PassKeepsInvariant
<1>3. ASSUME NEW s \in Senders, NEW b \in Breaches, NEW n \in Levels, FinishAlert(s, b, n)
      PROVE  SequencesInvariant'
  <2>1. todo[s] \in SUBSET (Breaches \X Levels) BY <1>0 DEF SequencesTypeOK
  <2>2. \A c \in Breaches, i, j \in Levels : <<c, i>> \in todo[s] /\ <<c, j>> \in todo[s] => i = j
    BY <1>0 DEF SnapshotsAreBounded
  <2>3. \A c \in Breaches, j \in Levels :
           <<c, j>> \in todo[s] => \A k \in Levels : k < j => k \in attempted[c]
    BY <1>0 DEF LowerLevelsAttempted
  <2>4. GoOn(s, todo[s]) /\ UNCHANGED <<process, life, registered>>
    BY <1>3 DEF FinishAlert
  <2>5. NextLevel(n) \in Levels /\ \A k \in Levels : k < NextLevel(n) => k \in attempted[b]
    <3>1. <<b, n>> \in sending[s] BY <1>3 DEF FinishAlert
    <3>2. \A k \in Levels : k <= n => k \in attempted[b]
      BY <1>0, <3>1 DEF LowerLevelsAttempted
    <3> QED BY <3>2, NextLevelStep
  <2>6. /\ level' \in [Breaches -> Levels] /\ due' \in [Breaches -> BOOLEAN]
        /\ \A c \in registered : \A k \in Levels : k < level'[c] => k \in attempted[c]
    <3>1. CASE b \in registered
      BY <1>0, <1>3, <2>5, <3>1 DEF FinishAlert, SequencesTypeOK, LowerLevelsAttempted
    <3>2. CASE b \notin registered
      BY <1>0, <1>3, <3>2 DEF FinishAlert, SequencesTypeOK, LowerLevelsAttempted
    <3> QED BY <3>1, <3>2
  <2>7. \A c \in Breaches, j \in Levels : <<c, j>> \in todo[s] => life[c] # "unseen"
    BY <1>0 DEF SnapshotsAreBounded
  <2> QED BY <2>1, <2>2, <2>3, <2>4, <2>6, <2>7, PassKeepsInvariant
<1>4. ASSUME NEW s \in Senders, RecordAlertFails(s) PROVE SequencesInvariant'
  <2> USE <1>0, <1>4 DEF RecordAlertFails, dispatcherVars, historyVars, SequencesTypeOK
  <2>1. SequencesTypeOK' OBVIOUS
  <2>2. \A r \in Senders : todo'[r] \subseteq todo[r] /\ sending'[r] \subseteq sending[r]
    OBVIOUS
  <2>3. SnapshotsAreBounded'
    <3>1. \A r \in Senders, c \in Breaches :
             Waits(r, c)' <= Waits(r, c) /\ Waits(r, c) \in {0, 1} /\ Waits(r, c)' \in {0, 1}
      <4> SUFFICES ASSUME NEW r \in Senders, NEW c \in Breaches
                   PROVE  /\ Waits(r, c)' <= Waits(r, c)
                          /\ Waits(r, c) \in {0, 1} /\ Waits(r, c)' \in {0, 1}
        OBVIOUS
      <4>1. \A n \in Levels : <<c, n>> \in todo'[r] => <<c, n>> \in todo[r] BY <2>2
      <4> HIDE DEF RecordAlertFails, SequencesTypeOK
      <4> QED BY <4>1 DEF Waits
    <3>2. \A c \in Breaches : late'[c] + Waits("loop", c)' + Waits("monitor", c)' <= 2
      BY <3>1 DEF SnapshotsAreBounded, Senders
    <3> QED BY <2>2, <3>2 DEF SnapshotsAreBounded
  <2>4. LowerLevelsAttempted' BY <2>2 DEF LowerLevelsAttempted
  <2>5. RegistryIsCurrent' /\ NoLevelIsSkipped'
    BY DEF RegistryIsCurrent, NoLevelIsSkipped
  <2> QED BY <2>1, <2>3, <2>4, <2>5 DEF SequencesInvariant
<1>5. ASSUME NEW b \in Breaches, Stop(b) PROVE SequencesInvariant'
  <2> USE <1>0, <1>5 DEF Stop, SequencesTypeOK
  <2>1. SequencesTypeOK' OBVIOUS
  <2>2. RegistryIsCurrent' BY DEF RegistryIsCurrent
  <2>3. SnapshotsAreBounded' BY DEF SnapshotsAreBounded, Waits
  <2>4. LowerLevelsAttempted' /\ NoLevelIsSkipped' BY DEF LowerLevelsAttempted, NoLevelIsSkipped
  <2> QED BY <2>1, <2>2, <2>3, <2>4 DEF SequencesInvariant
<1>6. ASSUME NEW b \in Breaches, TimePasses(b) PROVE SequencesInvariant'
  <2>1. /\ UNCHANGED <<process, life, registered, level, todo, sending, attempted, late>>
        /\ due' = [due EXCEPT ![b] = TRUE]
    BY <1>6 DEF TimePasses, historyVars
  <2>2. SequencesTypeOK' BY <1>0, <2>1 DEF SequencesTypeOK
  <2>3. RegistryIsCurrent' /\ NoLevelIsSkipped' BY <1>0, <2>1 DEF RegistryIsCurrent, NoLevelIsSkipped
  <2>4. SnapshotsAreBounded' BY <1>0, <2>1 DEF SnapshotsAreBounded, Waits
  <2>5. LowerLevelsAttempted' BY <1>0, <2>1 DEF LowerLevelsAttempted
  <2> QED BY <2>2, <2>3, <2>4, <2>5 DEF SequencesInvariant
<1>7. CASE UNCHANGED sequenceVars
  BY <1>0, <1>7 DEF sequenceVars, dispatcherVars, historyVars, SequencesInvariant, SequencesTypeOK,
     RegistryIsCurrent, SnapshotsAreBounded, Waits, LowerLevelsAttempted, NoLevelIsSkipped
<1> QED BY <1>1, <1>2, <1>3, <1>4, <1>5, <1>6, <1>7 DEF SequencesNext, SenderAnswered

(* The two senders' books balance in every reachable state.                  *)
THEOREM SequencesInvariantHolds == SequencesSpec => []SequencesInvariant
<1>1. SequencesInit => SequencesInvariant
  BY DEF SequencesInit, SequencesInvariant, SequencesTypeOK, RegistryIsCurrent,
     SnapshotsAreBounded, Waits, LowerLevelsAttempted, NoLevelIsSkipped, Levels
<1> QED BY <1>1, SequencesStep, PTL DEF SequencesSpec

(* After /closed or /justify at most one alert per sender still goes out.    *)
THEOREM FewLateAlerts == SequencesSpec => []LateAlertsAreBounded
<1>1. SequencesInvariant => LateAlertsAreBounded
  <2> SUFFICES ASSUME SequencesInvariant, NEW b \in Breaches PROVE late[b] <= 2
    BY DEF LateAlertsAreBounded
  <2>1. late[b] \in Nat /\ late[b] + Waits("loop", b) + Waits("monitor", b) <= 2
    BY DEF SequencesInvariant, SequencesTypeOK, SnapshotsAreBounded
  <2>2. Waits("loop", b) \in {0, 1} /\ Waits("monitor", b) \in {0, 1} BY DEF Waits
  <2> QED BY <2>1, <2>2
<1> QED BY <1>1, SequencesInvariantHolds, PTL

(* Escalation levels are attempted in order, however snapshots overlap.      *)
THEOREM LevelsInOrder == SequencesSpec => []NoLevelIsSkipped
<1>1. SequencesInvariant => NoLevelIsSkipped BY DEF SequencesInvariant
<1> QED BY <1>1, SequencesInvariantHolds, PTL

-----------------------------------------------------------------------------
(* The refinement of Escalation.                                             *)

LEMMA StageIsLife ==
  ASSUME SequencesInvariant, NEW b \in Breaches
  PROVE  /\ StageOf(b) = "unseen" <=> life[b] = "unseen"
         /\ StageOf(b) = "live" <=> life[b] = "triggered"
         /\ StageOf(b) = "silenced" <=> life[b] = "stopped"
  BY DEF SequencesInvariant, RegistryIsCurrent, SequencesTypeOK, StageOf

(* A pass shows the user one alert or none: of a breach that has been found, *)
(* with no level left out, and of a stopped one only within the bound.       *)
LEMMA PassShows ==
  ASSUME SequencesInvariant, SequencesInvariant', NEW s \in Senders, NEW snap \in SUBSET (Breaches \X Levels),
         GoOn(s, snap),
         \A b \in Breaches, m, n \in Levels : <<b, m>> \in snap /\ <<b, n>> \in snap => m = n,
         \A b \in Breaches, n \in Levels : <<b, n>> \in snap => life'[b] # "unseen",
         \A b \in Breaches, n \in Levels :
            <<b, n>> \in snap => \A k \in Levels : k < n => k \in attempted[b],
         \A b \in Breaches : life[b] = "stopped" => life'[b] = "stopped"
  PROVE  Shown!AnAlert \/ Shown!NoAlert
<1>t. SequencesTypeOK /\ SequencesTypeOK' BY DEF SequencesInvariant
<1>1. CASE UNCHANGED <<attempted, late>> BY <1>1 DEF Shown!NoAlert
<1>2. ASSUME NEW b \in Breaches, NEW n \in Levels, <<b, n>> \in snap,
             attempted' = [attempted EXCEPT ![b] = @ \cup {n}],
             late' = [late EXCEPT ![b] = IF life[b] = "stopped" THEN @ + 1 ELSE @]
      PROVE  Shown!AnAlert
  <2>1. StageOf(b)' # "unseen"
    <3>1. life'[b] # "unseen" BY <1>2
    <3> QED BY <3>1, <1>t DEF SequencesInvariant, RegistryIsCurrent, SequencesTypeOK, StageOf
  <2>2. n \in 0 .. MaxLevel /\ (0 .. n) \ {n} \subseteq attempted[b]
    <3>1. \A k \in Levels : k < n => k \in attempted[b] BY <1>2
    <3> QED BY <3>1 DEF Levels
  <2>3. CASE life[b] # "stopped"
    <3>1. late' = late BY <1>t, <1>2, <2>3 DEF SequencesTypeOK
    <3>2. StageOf(b) # "silenced" BY <2>3, StageIsLife
    <3>3. Shown!Alert(b, n) BY <1>2, <2>1, <2>2, <3>1, <3>2 DEF Shown!Alert
    <3> QED BY <2>2, <3>3 DEF Shown!AnAlert
  <2>4. CASE life[b] = "stopped"
    <3>1. late' = [late EXCEPT ![b] = late[b] + 1] BY <1>t, <1>2, <2>4 DEF SequencesTypeOK
    <3>2. StageOf(b) = "silenced" BY <2>4, StageIsLife
    <3>3. late[b] < 2
      <4>1. late'[b] + Waits("loop", b)' + Waits("monitor", b)' <= 2
        BY DEF SequencesInvariant, SnapshotsAreBounded
      <4>2. late'[b] = late[b] + 1 /\ late[b] \in Nat BY <1>t, <3>1 DEF SequencesTypeOK
      <4>3. Waits("loop", b)' \in {0, 1} /\ Waits("monitor", b)' \in {0, 1} BY DEF Waits
      <4> QED BY <4>1, <4>2, <4>3
    <3>4. Shown!Alert(b, n) BY <1>2, <2>1, <2>2, <3>1, <3>2, <3>3 DEF Shown!Alert
    <3> QED BY <2>2, <3>4 DEF Shown!AnAlert
  <2> QED BY <2>3, <2>4
<1> QED BY <1>1, <1>2 DEF GoOn

LEMMA ShownStageUpdate ==
  ASSUME SequencesInvariant, SequencesInvariant', NEW b \in Breaches, NEW l \in {"triggered", "stopped"},
         life' = [life EXCEPT ![b] = l]
  PROVE  [c \in Breaches |-> StageOf(c)]'
            = [[c \in Breaches |-> StageOf(c)] EXCEPT ![b] = IF l = "triggered" THEN "live" ELSE "silenced"]
<1>1. \A c \in Breaches : StageOf(c)' = IF c = b THEN IF l = "triggered" THEN "live" ELSE "silenced" ELSE StageOf(c)
  BY DEF SequencesInvariant, RegistryIsCurrent, SequencesTypeOK, StageOf
<1> QED BY <1>1, Zenon

LEMMA ShownStageStays ==
  ASSUME UNCHANGED <<life, registered>>
  PROVE  [c \in Breaches |-> StageOf(c)]' = [c \in Breaches |-> StageOf(c)]
  BY DEF StageOf

LEMMA SequencesShow ==
  ASSUME SequencesInvariant, SequencesInvariant', [SequencesNext]_sequenceVars
  PROVE  [Shown!EscalationNext]_(Shown!escalationVars)
<1>0. SequencesTypeOK /\ RegistryIsCurrent /\ SnapshotsAreBounded /\ LowerLevelsAttempted
  BY DEF SequencesInvariant
<1>a. ASSUME UNCHANGED <<life, registered>>, Shown!AnAlert \/ Shown!NoAlert
      PROVE  [Shown!EscalationNext]_(Shown!escalationVars)
  BY <1>a, ShownStageStays DEF Shown!EscalationNext, Shown!escalationVars, Shown!NoAlert
<1>1. ASSUME NEW b \in Breaches, Trigger(b) PROVE Shown!EscalationNext
  <2> DEFINE snap == DueNow \cup {<<b, 0>>}
  <2>1. 0 \in Levels BY DEF Levels
  <2>2. snap \in SUBSET (Breaches \X Levels) BY <1>0, <2>1, DueNowShape
  <2>3. b \notin registered /\ life[b] = "unseen" /\ life' = [life EXCEPT ![b] = "triggered"]
    BY <1>0, <1>1 DEF Trigger, RegistryIsCurrent
  <2>4. \A c \in Breaches, n \in Levels :
           <<c, n>> \in snap => (c = b /\ n = 0) \/ (c \in registered /\ n = level[c])
    BY <1>0, DueNowShape
  <2>5. \A c \in Breaches, m, n \in Levels : <<c, m>> \in snap /\ <<c, n>> \in snap => m = n
    BY <2>3, <2>4
  <2>6. \A c \in Breaches, n \in Levels : <<c, n>> \in snap => life'[c] # "unseen"
    BY <1>0, <2>3, <2>4 DEF RegistryIsCurrent, SequencesTypeOK
  <2>7. \A c \in Breaches, n \in Levels :
           <<c, n>> \in snap => \A k \in Levels : k < n => k \in attempted[c]
    BY <1>0, <2>4 DEF LowerLevelsAttempted, Levels
  <2>8. GoOn("monitor", snap) /\ "monitor" \in Senders BY <1>1 DEF Trigger, Senders
  <2>9. \A c \in Breaches : life[c] = "stopped" => life'[c] = "stopped"
    BY <1>0, <2>3 DEF SequencesTypeOK
  <2> HIDE DEF snap
  <2>10. Shown!AnAlert \/ Shown!NoAlert BY <2>2, <2>5, <2>6, <2>7, <2>8, <2>9, PassShows
  <2>11. Shown!Begin(b)
    <3>1. [c \in Breaches |-> StageOf(c)]' = [[c \in Breaches |-> StageOf(c)] EXCEPT ![b] = "live"]
      BY <2>3, ShownStageUpdate
    <3>2. StageOf(b) = "unseen" BY <2>3, StageIsLife
    <3> QED BY <3>1, <3>2 DEF Shown!Begin
  <2> QED BY <2>10, <2>11 DEF Shown!EscalationNext
<1>2. CASE LoopPolls
  <2>1. DueNow \in SUBSET (Breaches \X Levels) BY <1>0, DueNowShape
  <2>2. \A c \in Breaches, n \in Levels : <<c, n>> \in DueNow => c \in registered /\ n = level[c]
    BY <1>0, DueNowShape
  <2>3. \A c \in Breaches, m, n \in Levels : <<c, m>> \in DueNow /\ <<c, n>> \in DueNow => m = n
    BY <2>2
  <2>4. \A c \in Breaches, n \in Levels :
           <<c, n>> \in DueNow => \A k \in Levels : k < n => k \in attempted[c]
    BY <1>0, <2>2 DEF LowerLevelsAttempted
  <2>5. GoOn("loop", DueNow) /\ UNCHANGED <<life, registered>> /\ "loop" \in Senders
    BY <1>2 DEF LoopPolls, Senders, dispatcherVars
  <2>6. \A c \in Breaches, n \in Levels : <<c, n>> \in DueNow => life'[c] # "unseen"
    BY <1>0, <2>2, <2>5 DEF RegistryIsCurrent
  <2>7. \A c \in Breaches : life[c] = "stopped" => life'[c] = "stopped" BY <2>5
  <2>8. Shown!AnAlert \/ Shown!NoAlert BY <2>1, <2>3, <2>4, <2>5, <2>6, <2>7, PassShows
  <2> QED BY <1>a, <2>5, <2>8
<1>3. ASSUME NEW s \in Senders, NEW b \in Breaches, NEW n \in Levels, FinishAlert(s, b, n)
      PROVE  [Shown!EscalationNext]_(Shown!escalationVars)
  <2>1. todo[s] \in SUBSET (Breaches \X Levels) BY <1>0 DEF SequencesTypeOK
  <2>2. \A c \in Breaches, i, j \in Levels : <<c, i>> \in todo[s] /\ <<c, j>> \in todo[s] => i = j
    BY <1>0 DEF SnapshotsAreBounded
  <2>3. \A c \in Breaches, j \in Levels :
           <<c, j>> \in todo[s] => \A k \in Levels : k < j => k \in attempted[c]
    BY <1>0 DEF LowerLevelsAttempted
  <2>4. GoOn(s, todo[s]) /\ UNCHANGED <<life, registered>> BY <1>3 DEF FinishAlert
  <2>5. \A c \in Breaches, j \in Levels : <<c, j>> \in todo[s] => life'[c] # "unseen"
    BY <1>0, <2>4 DEF SnapshotsAreBounded
  <2>6. \A c \in Breaches : life[c] = "stopped" => life'[c] = "stopped" BY <2>4
  <2>7. Shown!AnAlert \/ Shown!NoAlert BY <2>1, <2>2, <2>3, <2>4, <2>5, <2>6, PassShows
  <2> QED BY <1>a, <2>4, <2>7
<1>4. ASSUME NEW s \in Senders, RecordAlertFails(s) PROVE [Shown!EscalationNext]_(Shown!escalationVars)
  BY <1>4, <1>a DEF RecordAlertFails, dispatcherVars, historyVars, Shown!NoAlert
<1>5. ASSUME NEW b \in Breaches, Stop(b) PROVE Shown!EscalationNext
  <2>1. [c \in Breaches |-> StageOf(c)]' = [[c \in Breaches |-> StageOf(c)] EXCEPT ![b] = "silenced"]
    BY <1>5, ShownStageUpdate DEF Stop
  <2>2. StageOf(b) = "live" BY <1>5, StageIsLife DEF Stop
  <2>3. Shown!Silence(b) /\ Shown!NoAlert BY <1>5, <2>1, <2>2 DEF Stop, Shown!Silence, Shown!NoAlert
  <2> QED BY <2>3 DEF Shown!EscalationNext
<1>6. ASSUME NEW b \in Breaches, TimePasses(b) PROVE [Shown!EscalationNext]_(Shown!escalationVars)
  BY <1>6, <1>a DEF TimePasses, historyVars, Shown!NoAlert
<1>7. CASE UNCHANGED sequenceVars
  BY <1>7, <1>a DEF sequenceVars, dispatcherVars, historyVars, Shown!NoAlert
<1> QED BY <1>1, <1>2, <1>3, <1>4, <1>5, <1>6, <1>7 DEF SequencesNext, SenderAnswered

(* What the two senders make of their overlapping snapshots is, seen by the  *)
(* user, Escalation.                                                         *)
THEOREM SequencesImplementEscalation == SequencesSpec => ImplementsEscalation
<1>1. SequencesInit => Shown!EscalationInit
  BY DEF SequencesInit, Shown!EscalationInit, StageOf
<1>2. SequencesInvariant /\ SequencesInvariant' /\ [SequencesNext]_sequenceVars
        => [Shown!EscalationNext]_(Shown!escalationVars)
  BY SequencesShow
<1> QED BY <1>1, <1>2, SequencesInvariantHolds, PTL
        DEF SequencesSpec, ImplementsEscalation, Shown!EscalationSpec
=============================================================================
