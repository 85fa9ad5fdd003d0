--------------------------- MODULE WatchdogProofs ---------------------------
(***************************************************************************)
(* What TLAPS proves of Watchdog, for any thresholds, any limit and window *)
(* and any number of processes, crashes and outages.                       *)
(***************************************************************************)
EXTENDS Watchdog, FiniteSetTheorems, TLAPS

(* Ages stay in range, both those a comparison cuts off and the restarts'. *)
LEMMA LaterInRange ==
  ASSUME NEW a \in 0..RestartAfter
  PROVE  Later(a) \in 0..RestartAfter
BY ThresholdAssumption DEF Later

LEMMA OlderInRange ==
  ASSUME NEW A \in SUBSET (0..(RestartWindow + 1))
  PROVE  Older(A) \subseteq 0..(RestartWindow + 1)
BY LimitAssumption DEF Older

(* Thresholds are natural numbers, and elapsed is an age.                  *)
LEMMA ElapsedInRange ==
  ASSUME TypeOK
  PROVE  elapsed \in 0..RestartAfter
BY ThresholdAssumption DEF TypeOK, elapsed, NoIssue

MonitorTyped ==
  /\ monitor \in [since : NoIssue..RestartAfter, stage : 0..4,
                  streak : 0..RecoveryHysteresis]
  /\ observing \in BOOLEAN

LEMMA StepChangesMonitor ==
  ASSUME TypeOK, NEW stage \in 0..4, Unhealthy(stage)
  PROVE  MonitorTyped'
<1>1. elapsed \in -1..RestartAfter
  BY ElapsedInRange, ThresholdAssumption
<1>2. 0 \in 0..RecoveryHysteresis
  BY ThresholdAssumption
<1>3. QED
  BY <1>1, <1>2 DEF Unhealthy, NoIssue, MonitorTyped

LEMMA NoJobTyped ==
  NoJob \in [phase : {"none", "locking", "reconnecting", "rebuilding"},
             rebuild : BOOLEAN]
BY DEF NoJob

LEMMA PruneIsSubset == prune \subseteq memory
BY DEF prune

-----------------------------------------------------------------------------
LEMMA TypeStep ==
  ASSUME TypeOK, [Next]_vars
  PROVE  TypeOK'
<1> USE DEF TypeOK
<1>1. CASE CloudFails
  BY <1>1 DEF CloudFails, guard, world
<1>2. CASE CloudReturns \/ FallsSilent \/ IsHeard
  BY <1>2 DEF CloudReturns, FallsSilent, IsHeard, guard, world, process
<1>3. CASE AutoReconnect
  BY <1>3 DEF AutoReconnect, guard, world
<1>4. CASE PollTick
  BY <1>4, ThresholdAssumption DEF PollTick, guard, world
<1>5. CASE PollAll
  BY <1>5, ThresholdAssumption DEF PollAll, guard, world
<1>6. CASE PollReturns
  BY <1>6 DEF PollReturns, guard, world
<1>7. ASSUME NEW a \in Activity, Hang(a)
      PROVE  TypeOK'
  BY <1>7 DEF Hang, guard, world
<1>8. ASSUME NEW a \in Activity, Resume(a)
      PROVE  TypeOK'
  BY <1>8, ThresholdAssumption DEF Resume, guard, world
<1>9. CASE Tick
  <2>1. age' \in [loop : 0..RestartAfter, dispatcher : 0..RestartAfter]
    <3>1. Later(age.loop) \in 0..RestartAfter
      BY LaterInRange
    <3>2. Later(age.dispatcher) \in 0..RestartAfter
      BY LaterInRange
    <3>3. QED
      BY <1>9, <3>1, <3>2, ThresholdAssumption DEF Tick
  <2>2. monitor' \in [since : NoIssue..RestartAfter, stage : 0..4,
                      streak : 0..RecoveryHysteresis]
    BY <1>9, ThresholdAssumption DEF Tick, NoIssue, Later
  <2>3. /\ memory' \subseteq 0..(RestartWindow + 1)
        /\ disk' \subseteq 0..(RestartWindow + 1)
    BY <1>9, OlderInRange DEF Tick
  <2>4. requested' \subseteq 0..RestartWindow
    <3>1. Older(requested) \subseteq 0..(RestartWindow + 1)
      BY OlderInRange, LimitAssumption
    <3>2. QED
      BY <1>9, <3>1, LimitAssumption DEF Tick
  <2>5. QED
    BY <1>9, <2>1, <2>2, <2>3, <2>4 DEF Tick, Watching, world
<1>10. CASE Step
  <2>1. CASE Step_Healthy
    <3>1. monitor' \in [since : NoIssue..RestartAfter, stage : 0..4,
                        streak : 0..RecoveryHysteresis]
      BY <2>1, ThresholdAssumption DEF Step_Healthy, Untroubled, NoIssue
    <3>2. MonitorTyped'
      <4>1. observing' = FALSE
        BY <2>1 DEF Step_Healthy
      <4>2. QED
        BY <3>1, <4>1 DEF MonitorTyped
    <3>3. QED
      BY <2>1, <3>2 DEF Step_Healthy, MonitorTyped, guard, world
  <2>2. CASE Step_Waits
    <3>1. monitor.stage \in 0..4 /\ Unhealthy(monitor.stage)
      BY <2>2 DEF Step_Waits
    <3>2. MonitorTyped'
      BY <3>1, StepChangesMonitor
    <3>3. QED
      BY <2>2, <3>2 DEF Step_Waits, MonitorTyped, guard, world
  <2>3. ASSUME NEW i \in 1..3, Step_Recovers(i)
        PROVE  TypeOK'
    <3>1. disk' \subseteq 0..(RestartWindow + 1)
      BY <2>3 DEF Step_Recovers, Save
    <3>2. job' \in [phase : {"none", "locking", "reconnecting", "rebuilding"},
                    rebuild : BOOLEAN]
      BY <2>3 DEF Step_Recovers
    <3>3. MonitorTyped'
      <4>1. i \in 0..4 /\ Unhealthy(i)
        BY <2>3 DEF Step_Recovers
      <4>2. QED
        BY <4>1, StepChangesMonitor
    <3>4. QED
      BY <2>3, <3>1, <3>2, <3>3 DEF Step_Recovers, MonitorTyped, world
  <2>4. CASE Step_Restarts
    <3>1. /\ memory' \subseteq 0..(RestartWindow + 1)
          /\ requested' \subseteq 0..RestartWindow
      BY <2>4, PruneIsSubset, LimitAssumption DEF Step_Restarts
    <3>2. disk' \subseteq 0..(RestartWindow + 1)
      BY <2>4, <3>1, PruneIsSubset DEF Step_Restarts, Save
    <3>3. MonitorTyped'
      <4>1. Unhealthy(4)
        BY <2>4 DEF Step_Restarts
      <4>2. QED
        BY <4>1, StepChangesMonitor
    <3>4. QED
      BY <2>4, <3>1, <3>2, <3>3 DEF Step_Restarts, MonitorTyped, world
  <2>5. CASE Step_Suppresses
    <3>1. /\ memory' \subseteq 0..(RestartWindow + 1)
          /\ disk' \subseteq 0..(RestartWindow + 1)
      BY <2>5, PruneIsSubset DEF Step_Suppresses, Save
    <3>2. MonitorTyped'
      <4>1. Unhealthy(4)
        BY <2>5 DEF Step_Suppresses
      <4>2. QED
        BY <4>1, StepChangesMonitor
    <3>3. QED
      BY <2>5, <3>1, <3>2 DEF Step_Suppresses, MonitorTyped, world
  <2>6. QED
    <3> HIDE DEF TypeOK
    <3>1. QED
      BY <1>10, <2>1, <2>2, <2>3, <2>4, <2>5 DEF Step
<1>11. CASE Job
  <2>1. CASE JobLocks
    BY <2>1 DEF JobLocks, guard, world
  <2>2. CASE JobConnects
    BY <2>2, NoJobTyped DEF JobConnects, guard, world
  <2>3. CASE JobRebuilt
    BY <2>3, NoJobTyped DEF JobRebuilt, guard, world
  <2>4. QED
    BY <1>11, <2>1, <2>2, <2>3 DEF Job
<1>12. CASE Crash \/ Exit
  <2>1. Ends
    BY <1>12 DEF Crash, Exit
  <2>2. Fresh \in [loop : 0..RestartAfter, dispatcher : 0..RestartAfter]
    BY ThresholdAssumption DEF Fresh
  <2>3. Untroubled \in [since : NoIssue..RestartAfter, stage : 0..4,
                        streak : 0..RecoveryHysteresis]
    BY ThresholdAssumption DEF Untroubled, NoIssue
  <2>4. QED
    BY <2>1, <2>2, <2>3, NoJobTyped DEF Ends
<1>13. CASE StopWatchdog \/ WatchdogStopped \/ DisconnectAll
  BY <1>13 DEF StopWatchdog, WatchdogStopped, DisconnectAll, guard, world
<1>14. CASE Start
  BY <1>14, ThresholdAssumption DEF Start, Fresh, world
<1>15. CASE UNCHANGED vars
  BY <1>15 DEF vars, process, guard, world
<1> HIDE DEF TypeOK
<1>16. QED
  BY <1>1, <1>2, <1>3, <1>4, <1>5, <1>6, <1>7, <1>8, <1>9, <1>10, <1>11,
     <1>12, <1>13, <1>14, <1>15 DEF Next, Loop, Shutdown

LEMMA TypeInit == Init => TypeOK
<1> SUFFICES ASSUME Init
             PROVE  TypeOK
  OBVIOUS
<1>1. /\ age \in [loop : 0..RestartAfter, dispatcher : 0..RestartAfter]
      /\ monitor \in [since : NoIssue..RestartAfter, stage : 0..4,
                      streak : 0..RecoveryHysteresis]
  BY ThresholdAssumption DEF Init, Fresh, Untroubled, NoIssue
<1>2. /\ cloud \in BOOLEAN
      /\ silent \in BOOLEAN
      /\ observing \in BOOLEAN
  BY Zenon DEF Init
<1>3. QED
  BY <1>1, <1>2, NoJobTyped DEF Init, TypeOK

(* Every reachable state is well typed: the ages the monitor compares stay *)
(* within the thresholds, in every process.                                *)
THEOREM TypeCorrect == Spec => []TypeOK
BY TypeInit, TypeStep, PTL DEF Spec

-----------------------------------------------------------------------------
(* ReconnectAll holds recoveryMu while it replaces the clients, so only    *)
(* the two actions that take that mutex can disturb the exclusion.         *)
LEMMA ExclusionStep ==
  ASSUME RepairExcludesPolling, [Next]_vars
  PROVE  RepairExcludesPolling'
<1> USE DEF RepairExcludesPolling
<1>1. CASE \/ CloudFails \/ CloudReturns \/ AutoReconnect
           \/ FallsSilent \/ IsHeard
  BY <1>1
  DEF CloudFails, CloudReturns, AutoReconnect, FallsSilent, IsHeard, process
<1>2. CASE Loop
  <2>1. CASE PollAll
    BY <2>1 DEF PollAll, WriterWaits
  <2>2. CASE PollTick \/ PollReturns
    BY <2>2 DEF PollTick, PollReturns
  <2>3. QED
    BY <1>2, <2>1, <2>2 DEF Loop
<1>3. ASSUME NEW a \in Activity, Hang(a) \/ Resume(a)
      PROVE  RepairExcludesPolling'
  BY <1>3 DEF Hang, Resume
<1>4. CASE Tick
  BY <1>4 DEF Tick
<1>5. CASE Step
  <2>1. ASSUME NEW i \in 1..3, Step_Recovers(i)
        PROVE  RepairExcludesPolling'
    BY <2>1 DEF Step_Recovers
  <2>2. CASE Step_Healthy \/ Step_Waits \/ Step_Restarts \/ Step_Suppresses
    BY <2>2 DEF Step_Healthy, Step_Waits, Step_Restarts, Step_Suppresses
  <2>3. QED
    BY <1>5, <2>1, <2>2 DEF Step
<1>6. CASE Job
  <2>1. CASE JobLocks
    BY <2>1 DEF JobLocks
  <2>2. CASE JobConnects \/ JobRebuilt
    BY <2>2 DEF JobConnects, JobRebuilt, NoJob
  <2>3. QED
    BY <1>6, <2>1, <2>2 DEF Job
<1>7. CASE Shutdown \/ Crash \/ Start
  BY <1>7 DEF Shutdown, StopWatchdog, WatchdogStopped, DisconnectAll, Exit,
              Crash, Ends, Start
<1>8. CASE UNCHANGED vars
  BY <1>8 DEF vars, process, world
<1> HIDE DEF RepairExcludesPolling
<1>9. QED
  BY <1>1, <1>2, <1>3, <1>4, <1>5, <1>6, <1>7, <1>8 DEF Next

(* No poll is under way while a recovery replaces the cloud clients,       *)
(* whatever hangs, fails or crashes.                                       *)
THEOREM RepairsAreExclusive == Spec => []RepairExcludesPolling
<1>1. Init => RepairExcludesPolling
  BY DEF Init, RepairExcludesPolling
<1>2. QED
  BY <1>1, ExclusionStep, PTL DEF Spec

-----------------------------------------------------------------------------
(* The limit of restarts, if the data volume takes every write: whoever    *)
(* decides next, this process from its memory or its successor from the    *)
(* file, knows of every restart requested within the window.               *)
RestartsKnown ==
  /\ observing => Up
  /\ Up => requested \subseteq memory
  /\ requested \subseteq disk

LimitInv == RestartsKnown /\ RestartsLimited

LEMMA RequestedIsFinite ==
  ASSUME TypeOK
  PROVE  IsFiniteSet(requested)
<1>1. IsFiniteSet(0..RestartWindow)
  BY FS_Interval, LimitAssumption
<1>2. QED
  BY <1>1, FS_Subset DEF TypeOK

LEMMA LimitInit == Init => LimitInv
BY FS_EmptySet, LimitAssumption
DEF Init, LimitInv, RestartsKnown, RestartsLimited, Up

(* Time only forgets requests: every one it keeps is one check older.       *)
LEMMA TimeForgets ==
  ASSUME TypeOK, Tick
  PROVE  Cardinality(requested') <= Cardinality(requested)
<1> DEFINE younger == [a \in requested' |-> a - 1]
<1>1. \A a \in requested' : a \in Int /\ a - 1 \in requested
  BY LimitAssumption DEF TypeOK, Tick, Older
<1>2. younger \in Injection(requested', requested)
  BY <1>1 DEF Injection, IsInjective
<1>3. QED
  BY <1>2, RequestedIsFinite, FS_Injection

LEMMA LimitStep ==
  ASSUME DiskMayFail = FALSE, TypeOK, LimitInv, [Next]_vars
  PROVE  LimitInv'
<1>0. Cardinality(requested') \in Nat
  <2>1. IsFiniteSet(0..RestartWindow)
    BY FS_Interval, LimitAssumption
  <2>2. requested' \subseteq 0..RestartWindow
    BY TypeStep DEF TypeOK
  <2>3. QED
    BY <2>1, <2>2, FS_Subset, FS_CardinalityType
<1> DEFINE Unlogged == UNCHANGED guard /\ Up' = Up /\ (observing' => observing)
<1>1. ASSUME Unlogged
      PROVE  LimitInv'
  BY <1>1 DEF LimitInv, RestartsKnown, RestartsLimited, guard
<1>2. CASE \/ CloudFails \/ CloudReturns \/ AutoReconnect
           \/ FallsSilent \/ IsHeard
           \/ Loop \/ Job
           \/ StopWatchdog \/ WatchdogStopped \/ DisconnectAll
           \/ UNCHANGED vars
  <2>1. Unlogged
    BY <1>2
    DEF CloudFails, CloudReturns, AutoReconnect, FallsSilent, IsHeard,
        Loop, PollTick, PollAll, PollReturns, Job, JobLocks, JobConnects,
        JobRebuilt, StopWatchdog,
        WatchdogStopped, DisconnectAll, vars, process, Up
  <2>2. QED
    BY <1>1, <2>1
<1>3. ASSUME NEW a \in Activity, Hang(a) \/ Resume(a)
      PROVE  LimitInv'
  <2>1. Unlogged
    BY <1>3 DEF Hang, Resume, Up
  <2>2. QED
    BY <1>1, <2>1
<1>4. CASE Tick
  <2>1. RestartsKnown'
    BY <1>4 DEF LimitInv, RestartsKnown, Tick, Up, Watching, Older
  <2>2. RestartsLimited'
    <3>1. Cardinality(requested') <= Cardinality(requested)
      BY <1>4, TimeForgets
    <3>2. Cardinality(requested) \in Nat
      BY RequestedIsFinite, FS_CardinalityType
    <3>3. QED
      BY <1>0, <3>1, <3>2, LimitAssumption DEF LimitInv, RestartsLimited
  <2>3. QED
    BY <2>1, <2>2 DEF LimitInv
<1>5. CASE Step
  <2> USE DEF RestartsKnown
  <2>1. CASE Step_Healthy \/ Step_Waits
    <3>1. Unlogged
      BY <2>1 DEF Step_Healthy, Step_Waits, Unhealthy, Up
    <3>2. QED
      BY <1>1, <3>1
  <2>2. ASSUME NEW i \in 1..3, Step_Recovers(i)
        PROVE  LimitInv'
    BY <2>2
    DEF LimitInv, RestartsLimited, Step_Recovers, Save, Up, Unhealthy, Observe
  <2>3. CASE Step_Suppresses
    <3>1. Up /\ requested \subseteq prune
      BY <2>3, LimitAssumption
      DEF TypeOK, LimitInv, prune, Step_Suppresses, Unhealthy, Observe
    <3>2. QED
      BY <2>3, <3>1
      DEF LimitInv, RestartsLimited, Step_Suppresses, Save, Unhealthy, Up
  <2>4. CASE Step_Restarts
    <3>1. requested \subseteq prune
      BY <2>4, LimitAssumption
      DEF TypeOK, LimitInv, prune, Step_Restarts, Unhealthy, Observe
    <3>2. RestartsKnown'
      BY <2>4, <3>1 DEF Step_Restarts, Save, Unhealthy, Up
    <3>3. RestartsLimited'
      <4>1. IsFiniteSet(prune)
        <5>1. IsFiniteSet(0..(RestartWindow + 1))
          BY FS_Interval, LimitAssumption
        <5>2. prune \subseteq 0..(RestartWindow + 1)
          BY DEF TypeOK, prune
        <5>3. QED
          BY <5>1, <5>2, FS_Subset
      <4>2. /\ IsFiniteSet(requested)
            /\ Cardinality(requested) <= Cardinality(prune)
        BY <3>1, <4>1, FS_Subset
      <4>3. Cardinality(prune) < MaxRestarts
        BY <2>4 DEF Step_Restarts, Allow
      <4>4. Cardinality(requested') <= Cardinality(requested) + 1
        <5>1. requested' = requested \cup {0}
          BY <2>4 DEF Step_Restarts
        <5>2. Cardinality(requested) \in Nat
          BY <4>2, FS_CardinalityType
        <5>3. QED
          BY <5>1, <5>2, <4>2, FS_AddElement
      <4>5. /\ Cardinality(prune) \in Nat
            /\ Cardinality(requested) \in Nat
        BY <4>1, <4>2, FS_CardinalityType
      <4>6. QED
        BY <1>0, <4>2, <4>3, <4>4, <4>5, LimitAssumption DEF RestartsLimited
    <3>4. QED
      BY <3>2, <3>3 DEF LimitInv
  <2>5. QED
    BY <1>5, <2>1, <2>2, <2>3, <2>4 DEF Step
<1>6. CASE Crash \/ Exit
  BY <1>6
  DEF Crash, Exit, Ends, LimitInv, RestartsKnown, RestartsLimited, Up
<1>7. CASE Start
  BY <1>7 DEF Start, LimitInv, RestartsKnown, RestartsLimited, Up
<1>8. QED
  BY <1>2, <1>3, <1>4, <1>5, <1>6, <1>7 DEF Next, Shutdown

(* Every process and every crash included, no window sees more than        *)
(* MaxRestarts restart requests, as long as the data volume takes what     *)
(* RestartGuard writes.                                                    *)
THEOREM RestartsAreLimited ==
  ASSUME DiskMayFail = FALSE
  PROVE  Spec => []RestartsLimited
<1>1. TypeOK /\ LimitInv /\ [Next]_vars => LimitInv'
  BY LimitStep
<1>2. LimitInv => RestartsLimited
  BY DEF LimitInv
<1>3. QED
  BY <1>1, <1>2, LimitInit, TypeCorrect, PTL DEF Spec

=============================================================================
