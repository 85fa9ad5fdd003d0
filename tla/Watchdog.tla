------------------------------ MODULE Watchdog ------------------------------
(***************************************************************************)
(* The internal watchdog (integration/watchdog/watchdog.go) in the process *)
(* it watches (main.go): the polling loop and the cloud client of the      *)
(* DeviceManager (roborock/manager.go) with its recoveryMu, the recovery   *)
(* goroutine, which may hold integrationMu, the shutdown of main, and the  *)
(* RestartGuard whose file outlives the process.                           *)
(*                                                                         *)
(* Time is counted in checks of the watchdog.  Nothing records an absolute *)
(* time: a clock of the code is the age it has, which stops at the largest *)
(* age any comparison tells apart.  The robots are one robot; the local    *)
(* broker appears as what can hang the loop or a rebuild, which wait for   *)
(* its acknowledgements.                                                   *)
(***************************************************************************)
EXTENDS Integers, FiniteSets

CONSTANTS StaleAfter,         \* Config, in checks
          ReconnectAfter,
          RebuildAfter,
          ResetAfter,
          RestartAfter,
          RecoveryHysteresis,
          MaxRestarts,
          RestartWindow,
          PollInterval,       \* of StartPolling, in checks
          DirectEnabled,      \* loxone.direct.enabled
          MayHang,            \* activities that may stop for good
          DiskMayFail         \* the data volume may refuse a write

Activity == {"loop", "dispatcher", "rebuild"}

ASSUME ThresholdAssumption ==
  /\ StaleAfter \in Nat \ {0}
  /\ {ReconnectAfter, RebuildAfter, ResetAfter, RestartAfter} \subseteq Nat
  /\ RestartAfter > StaleAfter
  /\ \A after \in {ReconnectAfter, RebuildAfter, ResetAfter} :
        after <= RestartAfter
  /\ RecoveryHysteresis \in Nat \ {0}
ASSUME LimitAssumption ==
  /\ MaxRestarts \in Nat \ {0}
  /\ RestartWindow \in Nat
ASSUME EnvironmentAssumption ==
  /\ PollInterval \in Nat \ {0}
  /\ DirectEnabled \in BOOLEAN
  /\ MayHang \subseteq Activity
  /\ DiskMayFail \in BOOLEAN

VARIABLES
  cloud,     \* the Roborock cloud can be reached
  silent,    \* no recent message of the cloud or update of the robot, or
             \* no connection to the local broker
  client,    \* ManagedDevice.CloudMQTT: "none" (nil), "lost", "connected"
  loop,      \* StartPolling: "idle", "waiting" for recoveryMu, "polling"
  hung,      \* the activities that do not go on
  age,       \* of loopLastActive and of the oldest command in flight
  monitor,   \* Monitor: issueSince (its age), stage and healthyStreak
  observing, \* a tick was taken and Step has not returned
  memory,    \* RestartGuard.state.Restarts, as ages
  disk,      \* the same in watchdog-state.json
  requested, \* the restarts requested within the window (history)
  job,       \* the goroutine of runWatchdogRecovery
  main       \* main: "running" ... "down"

world   == <<cloud, silent>>
guard   == <<memory, disk, requested>>
process == <<client, loop, hung, age, monitor, observing, job,
             main>>
vars    == <<world, process, guard>>

NoIssue == -1
NoJob == [phase |-> "none", rebuild |-> FALSE]
Fresh == [loop |-> 0, dispatcher |-> 0]
Untroubled == [since |-> NoIssue, stage |-> 0, streak |-> 0]

Init ==
  /\ cloud = TRUE
  /\ silent = TRUE
  /\ client = "connected"
  /\ loop = "idle"
  /\ hung = {}
  /\ age = Fresh
  /\ monitor = Untroubled
  /\ observing = TRUE
  /\ memory = {}
  /\ disk = {}
  /\ requested = {}
  /\ job = NoJob
  /\ main = "running"

Up == main # "down"
Watching == main \in {"running", "restarting"}
Serving == Watching \/ main = "stopping"

-----------------------------------------------------------------------------
(* The cloud, and what the paho client does by itself.                     *)

CloudFails ==
  /\ cloud
  /\ cloud' = FALSE
  /\ client' = IF client = "connected" THEN "lost" ELSE client
  /\ UNCHANGED <<silent, loop, hung, age, monitor, observing, job,
                 main, guard>>

CloudReturns ==
  /\ ~cloud
  /\ cloud' = TRUE
  /\ UNCHANGED <<silent, process, guard>>

FallsSilent ==
  /\ ~silent
  /\ silent' = TRUE
  /\ UNCHANGED <<cloud, process, guard>>

IsHeard ==
  /\ silent
  /\ client = "connected"
  /\ silent' = FALSE
  /\ UNCHANGED <<cloud, process, guard>>

AutoReconnect ==
  /\ client = "lost"
  /\ cloud
  /\ client' = "connected"
  /\ UNCHANGED <<world, loop, hung, age, monitor, observing, job,
                 main, guard>>

-----------------------------------------------------------------------------
(* The polling loop.  PollAll reads under recoveryMu; a writer that waits  *)
(* for it lets no new reader in.  Its callbacks take integrationMu.        *)

WriterWaits ==
  job.phase \in {"locking", "reconnecting"} \/ main = "disconnecting"
IntegrationHeld == job.phase = "rebuilding"

PollTick ==
  /\ Serving
  /\ loop = "idle"
  /\ loop' = "waiting"
  /\ age' = [age EXCEPT !.loop = 0]
  /\ UNCHANGED <<world, client, hung, monitor, observing, job, main,
                 guard>>

PollAll ==
  /\ loop = "waiting"
  /\ ~WriterWaits
  /\ loop' = "polling"
  /\ age' = [age EXCEPT !.loop = 0]
  /\ UNCHANGED <<world, client, hung, monitor, observing, job, main,
                 guard>>

PollReturns ==
  /\ loop = "polling"
  /\ "loop" \notin hung
  /\ client = "connected" => ~IntegrationHeld
  /\ loop' = "idle"
  /\ UNCHANGED <<world, client, hung, age, monitor, observing, job,
                 main, guard>>

-----------------------------------------------------------------------------
(* What may stop, for a while or for good.                                 *)

Hang(a) ==
  /\ Up
  /\ a \in MayHang \ hung
  /\ a = "loop" => loop = "polling" /\ client = "connected"
  /\ a = "rebuild" => IntegrationHeld
  /\ hung' = hung \cup {a}
  /\ UNCHANGED <<world, client, loop, age, monitor, observing, job, main,
                 guard>>

Resume(a) ==
  /\ a \in hung
  /\ hung' = hung \ {a}
  /\ age' = IF a = "dispatcher" THEN [age EXCEPT !.dispatcher = 0] ELSE age
  /\ UNCHANGED <<world, client, loop, monitor, observing, job, main, guard>>

-----------------------------------------------------------------------------
(* Time.                                                                   *)

Later(a) == IF a < RestartAfter THEN a + 1 ELSE a
Older(A) == {IF a <= RestartWindow THEN a + 1 ELSE a : a \in A}

(* A goroutine that can run does so before the next check; PollAll passes  *)
(* over robots without a client.  Nothing limits what takes time: PollAll  *)
(* beats once and asks the robots one after the other, each of them up to  *)
(* its timeouts, ReconnectAll connects them one after the other, and a     *)
(* rebuild waits for the local broker.                                     *)
Runnable ==
  \/ Serving /\ loop = "idle" /\ age.loop >= PollInterval
  \/ loop = "waiting" /\ ~WriterWaits
  \/ loop = "polling" /\ client = "none"
  \/ job.phase = "locking" /\ loop # "polling"

Tick ==
  /\ ~Runnable
  /\ age' = [loop |-> Later(age.loop),
             dispatcher |-> IF "dispatcher" \in hung
                            THEN Later(age.dispatcher) ELSE 0]
  /\ monitor' = IF monitor.since = NoIssue THEN monitor
                ELSE [monitor EXCEPT !.since = Later(@)]
  /\ observing' = (observing \/ Watching)
  /\ memory' = Older(memory)
  /\ disk' = Older(disk)
  /\ requested' = {a \in Older(requested) : a <= RestartWindow}
  /\ UNCHANGED <<world, client, loop, hung, job, main>>

-----------------------------------------------------------------------------
(* Assess and Step.                                                        *)

Live == age.loop <= StaleAfter /\ age.dispatcher <= StaleAfter
needsRecovery == ~Live \/ client # "connected" \/ silent

(* watchdogObservation takes integrationMu if Direct Loxone is enabled.    *)
Observe == observing /\ ~(DirectEnabled /\ IntegrationHeld)

(* Mutant: every unhealthy check sets issueSince.                          *)
Mutant_elapsed == 0
elapsed == IF monitor.since = NoIssue THEN 0 ELSE monitor.since
After == <<ReconnectAfter, RebuildAfter, ResetAfter, RestartAfter>>
Due(i) == monitor.stage < i /\ elapsed >= After[i] /\ (i = 4 => ~Live)
Chosen(i) == Due(i) /\ \A j \in 1..(i - 1) : ~Due(j)

(* Mutant: an unhealthy check counts towards the recovery.                 *)
Mutant_Unhealthy(stage) ==
  /\ Observe
  /\ needsRecovery
  /\ observing' = FALSE
  /\ monitor' = [since |-> elapsed, stage |-> stage,
                  streak |-> monitor.streak + 1]

Unhealthy(stage) ==
  /\ Observe
  /\ needsRecovery
  /\ observing' = FALSE
  /\ monitor' = [since |-> elapsed, stage |-> stage, streak |-> 0]

(* Mutant: the first healthy check forgets the issue.                      *)
Mutant_Step_Healthy ==
  /\ Observe
  /\ ~needsRecovery
  /\ observing' = FALSE
  /\ monitor' = [since |-> NoIssue, stage |-> 0,
                  streak |-> IF monitor.streak < RecoveryHysteresis
                             THEN monitor.streak + 1 ELSE RecoveryHysteresis]
  /\ UNCHANGED <<world, client, loop, hung, age, job, main, guard>>

Step_Healthy ==
  /\ Observe
  /\ ~needsRecovery
  /\ observing' = FALSE
  /\ monitor' =
       IF monitor.streak + 1 >= RecoveryHysteresis
       THEN [Untroubled EXCEPT !.streak = RecoveryHysteresis]
       ELSE [monitor EXCEPT !.streak = @ + 1]
  /\ UNCHANGED <<world, client, loop, hung, age, job, main, guard>>

Step_Waits ==
  /\ Unhealthy(monitor.stage)
  /\ \A i \in 1..4 : ~Due(i)
  /\ UNCHANGED <<world, client, loop, hung, age, job, main, guard>>

(* saveLocked, whose error is ignored: what stays if writes are refused.   *)
Save(restarts, kept) ==
  disk' \in {restarts} \cup (IF DiskMayFail THEN kept ELSE {})

(* runWatchdogRecovery drops the action while another one is under way.    *)
Step_Recovers(i) ==
  /\ Unhealthy(i)
  /\ Chosen(i)
  /\ Save(memory, {disk})
  /\ job' = IF job.phase = "none"
            THEN [phase |-> "locking", rebuild |-> i > 1] ELSE job
  /\ UNCHANGED <<world, client, loop, hung, age, memory, requested,
                 main>>

prune == {a \in memory : a <= RestartWindow}
Allow == Cardinality(prune) < MaxRestarts

(* Mutant: Record does not save.                                           *)
Mutant_Step_Restarts ==
  /\ Unhealthy(4)
  /\ Chosen(4)
  /\ Allow
  /\ memory' = prune \cup {0}
  /\ Save(prune, {disk})
  /\ requested' = requested \cup {0}
  /\ main' = IF main = "running" THEN "restarting" ELSE main
  /\ UNCHANGED <<world, client, loop, hung, age, job>>

Step_Restarts ==
  /\ Unhealthy(4)
  /\ Chosen(4)
  /\ Allow
  /\ memory' = prune \cup {0}
  /\ Save(memory', {prune, disk})
  /\ requested' = requested \cup {0}
  /\ main' = IF main = "running" THEN "restarting" ELSE main
  /\ UNCHANGED <<world, client, loop, hung, age, job>>

Step_Suppresses ==
  /\ Unhealthy(4)
  /\ Chosen(4)
  /\ ~Allow
  /\ memory' = prune
  /\ Save(prune, {disk})
  /\ UNCHANGED <<world, client, loop, hung, age, requested, job,
                 main>>

Step ==
  \/ Step_Healthy
  \/ Step_Waits
  \/ \E i \in 1..3 : Step_Recovers(i)
  \/ Step_Restarts
  \/ Step_Suppresses

-----------------------------------------------------------------------------
(* The recovery goroutine: ReconnectAll, then the integrations.            *)

(* Mutant: ReconnectAll does not take recoveryMu.                          *)
Mutant_JobLocks ==
  /\ Up
  /\ job.phase = "locking"
  /\ job' = [job EXCEPT !.phase = "reconnecting"]
  /\ client' = "none"
  /\ UNCHANGED <<world, loop, hung, age, monitor, observing, main,
                 guard>>

JobLocks ==
  /\ Up
  /\ job.phase = "locking"
  /\ loop # "polling"
  /\ job' = [job EXCEPT !.phase = "reconnecting"]
  /\ client' = "none"
  /\ UNCHANGED <<world, loop, hung, age, monitor, observing, main,
                 guard>>

(* A client whose Connect fails is not kept.                               *)
JobConnects ==
  /\ Up
  /\ job.phase = "reconnecting"
  /\ client' = IF cloud THEN "connected" ELSE "none"
  /\ job' = IF job.rebuild THEN [job EXCEPT !.phase = "rebuilding"] ELSE NoJob
  /\ UNCHANGED <<world, loop, hung, age, monitor, observing, main,
                 guard>>

JobRebuilt ==
  /\ Up
  /\ job.phase = "rebuilding"
  /\ "rebuild" \notin hung
  /\ job' = NoJob
  /\ UNCHANGED <<world, client, loop, hung, age, monitor, observing,
                 main, guard>>

-----------------------------------------------------------------------------
(* main: the shutdown a restart request leads to, and the next process.    *)

StopWatchdog ==
  /\ main = "restarting"
  /\ main' = "stopping"
  /\ UNCHANGED <<world, client, loop, hung, age, monitor, observing,
                 job, guard>>

(* Monitor.Stop waits for the Step under way.                              *)
WatchdogStopped ==
  /\ main = "stopping"
  /\ ~observing
  /\ main' = "disconnecting"
  /\ UNCHANGED <<world, client, loop, hung, age, monitor, observing,
                 job, guard>>

(* Closing a connected client reports the change of availability, whose    *)
(* subscribers take integrationMu.                                         *)
DisconnectAll ==
  /\ main = "disconnecting"
  /\ loop # "polling"
  /\ job.phase # "reconnecting"
  /\ client = "connected" => ~IntegrationHeld
  /\ client' = "none"
  /\ main' = "closing"
  /\ UNCHANGED <<world, loop, hung, age, monitor, observing, job,
                 guard>>

Ends ==
  /\ main' = "down"
  /\ client' = "none"
  /\ loop' = "idle"
  /\ hung' = {}
  /\ age' = Fresh
  /\ monitor' = Untroubled
  /\ observing' = FALSE
  /\ job' = NoJob
  /\ memory' = {}
  /\ silent' = TRUE
  /\ UNCHANGED <<cloud, disk, requested>>

Exit == main = "closing" /\ Ends

Crash == Up /\ Ends

(* The service manager starts the process again; startBridge connects and  *)
(* NewRestartGuard reads the file.                                         *)
Start ==
  /\ main = "down"
  /\ main' = "running"
  /\ client' = IF cloud THEN "connected" ELSE "none"
  /\ age' = Fresh
  /\ observing' = TRUE
  /\ memory' = disk
  /\ UNCHANGED <<world, loop, hung, monitor, job, disk, requested>>

-----------------------------------------------------------------------------
Loop == PollTick \/ PollAll \/ PollReturns
Job == JobLocks \/ JobConnects \/ JobRebuilt
Shutdown == StopWatchdog \/ WatchdogStopped \/ DisconnectAll \/ Exit

Next ==
  \/ CloudFails \/ CloudReturns \/ AutoReconnect \/ FallsSilent \/ IsHeard
  \/ Loop
  \/ \E a \in Activity : Hang(a) \/ Resume(a)
  \/ Tick
  \/ Step
  \/ Job
  \/ Shutdown \/ Crash \/ Start

Spec == Init /\ [][Next]_vars

(* Time passes, the Go scheduler runs every goroutine that can run, paho   *)
(* keeps trying a connection it had, and the service manager starts the    *)
(* process.  A loop or a recovery that goes on again and again is not      *)
(* stopped anew each time just before it runs.  The cloud, what hangs and  *)
(* crashes are not constrained.                                            *)
Fairness ==
  /\ SF_vars(Tick)
  /\ WF_vars(Step)
  /\ SF_vars(Loop)
  /\ SF_vars(Job)
  /\ WF_vars(Shutdown)
  /\ WF_vars(Start)
  /\ WF_vars(AutoReconnect)

FairSpec == Spec /\ Fairness

-----------------------------------------------------------------------------
(* Properties                                                              *)

(* Every variable of the watchdog and its process holds a value it may     *)
(* have; in particular the ages the monitor compares stay in range.        *)
TypeOK ==
  /\ cloud \in BOOLEAN
  /\ silent \in BOOLEAN
  /\ client \in {"none", "lost", "connected"}
  /\ loop \in {"idle", "waiting", "polling"}
  /\ hung \subseteq Activity
  /\ age \in [loop : 0..RestartAfter, dispatcher : 0..RestartAfter]
  /\ monitor \in [since : NoIssue..RestartAfter, stage : 0..4,
                  streak : 0..RecoveryHysteresis]
  /\ observing \in BOOLEAN
  /\ memory \subseteq 0..(RestartWindow + 1)
  /\ disk \subseteq 0..(RestartWindow + 1)
  /\ requested \subseteq 0..RestartWindow
  /\ job \in [phase : {"none", "locking", "reconnecting", "rebuilding"},
              rebuild : BOOLEAN]
  /\ main \in {"running", "restarting", "stopping", "disconnecting",
               "closing", "down"}

(* No more than MaxRestarts restarts are requested within a window, over   *)
(* all the processes that share the data volume, whenever they crash       *)
(* (README: restart attempts are persisted and limited per hour).          *)
RestartsLimited == Cardinality(requested) <= MaxRestarts

(* ReconnectAll replaces the cloud clients while no poll is under way      *)
(* (manager.go: polling cannot race a watchdog repair).                    *)
RepairExcludesPolling == ~(loop = "polling" /\ job.phase = "reconnecting")

(* A dispatcher that stays blocked ends in a new process, or in a restart  *)
(* suppressed by the limit, whatever the recoveries of the earlier stages  *)
(* and the cloud do meanwhile (README: the watchdog exits when an internal *)
(* loop or queue remains blocked).                                         *)
SuppressedRestart == main = "running" /\ monitor.stage = 4
BlockedDispatcherRestarts ==
  "dispatcher" \in hung
     ~> (main = "down" \/ SuppressedRestart \/ "dispatcher" \notin hung)

(* That, as far as it is true: while neither a poll nor a rebuild blocks.  *)
DispatcherAloneRestarts ==
  [](hung \subseteq {"dispatcher"}) => BlockedDispatcherRestarts

(* A dispatcher that blocks and answers again and again ends in a new       *)
(* process or a suppressed restart as well, unless it answers for the      *)
(* checks that README calls the recovery hysteresis: until then the issue  *)
(* keeps its age, whatever else is healthy in between (watchdog.go:245).   *)
StaleStep == Step /\ ~Live
FlickerRestarts ==
  [](hung \subseteq {"dispatcher"}) /\ []<><<StaleStep>>_vars
     => []<>(\/ main = "down" \/ SuppressedRestart
             \/ monitor.streak = RecoveryHysteresis)

(* A restart takes a loop or a dispatcher that has not answered for the    *)
(* fatal threshold (README: only when an internal loop or queue remains    *)
(* blocked for the configured fatal threshold).                            *)
FatalIsBlocked ==
  [][main = "running" /\ main' = "restarting"
     => age.loop >= RestartAfter \/ age.dispatcher >= RestartAfter]_vars

(* Where nothing hangs, no outage restarts the process, however long it    *)
(* lasts (README: a temporary cloud outage alone never requests a process  *)
(* restart).                                                               *)
OutageNeverRestarts == MayHang = {} => main \in {"running", "down"}

(* The same for a polling loop that is blocked inside PollAll.             *)
BlockedLoopRestarts ==
  "loop" \in hung
     ~> (main = "down" \/ SuppressedRestart \/ "loop" \notin hung)

(* Once the cloud stays reachable the robot is connected again.            *)
OutageHeals == <>[]cloud => []<>(client = "connected")

=============================================================================
