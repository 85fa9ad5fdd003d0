# Formal models of roborock-mqtt-loxone

TLA+ specifications of the concurrent and crash-prone parts of the Roborock to
Loxone bridge (`src/app`, Go): what they are meant to guarantee, TLC runs that
check it on small instances, and TLAPS proofs of the most important results for
every value of the constants.

Paths below are relative to the repository root; `roborock/x.go` and the like
abbreviate `src/app/roborock/x.go`.

## 1. The system

One bridge process talks to the Roborock cloud (an MQTT connection and RPCs per
robot), to a local MQTT broker (which Loxone and others read and write), and to
a Loxone Miniserver directly over HTTP. A second, isolated process, the updater,
replaces the bridge's Docker container. Docker restarts whichever ends.

    Roborock cloud <--RPC/push--> CloudMQTT --+
                                              |       +--> local MQTT (paho)
       poll every n s --> DeviceManager ------+--callbacks--> Fleet health
                                              |       +--> DeviceStateStore --> Direct sync --> Miniserver
       watchdog --recovery/restart--> main    |       +--> CommandCoordinator / Activity tracker
                                              +------ run tracker, schedules, maintenance
       auto update --HTTP--> updater --Docker API--> bridge container

Callbacks run on the goroutine of the poll or of the cloud client's message
handler. `integrationMu` in `main.go` serialises reconfiguration, the direct
integration, its heartbeat and its resends; `recoveryMu` in the device manager
lets polls share the cloud clients and repairs replace them; each store has a
mutex of its own, and publishes what changed after it has unlocked it.

### 1.1 Inventory

**Updater service** (`updater/service.go`, `supervisor/supervisor.go`).
State: the operation (`update-operation.json`), the replacement journal
(`update-transaction.json`), the last 50 request ids, the single running slot.
Operations: Start, run, finish, recoverInterrupted. It calls the supervisor, the
health check and the backup. Hard: a crash of the updater between any two steps,
two files written at different times, failures of every Docker call.
Correct when: two bridges never run; an outage is either repaired or reported;
success means that the new container serves; nothing is left behind; no request
is replayed; every operation ends.

**Docker supervisor** (`updater/docker.go`). Stateless over Docker's containers
and names. Prepare, Pull, Activate, VerifyVersion, Finalize, Rollback. Hard: a
call that took effect although its answer was lost, a rollback that repeats one
that was interrupted. Correct when Rollback finds from names and ids how far
Activate came.

**Updater HTTP server and backup** (`updater/server.go`, `updater/backup.go`,
`cmd/updater/main.go`). State: the requests of the rate window. Token, version
and rate checks before Service.Start.

**Direct Loxone synchronizer** (`loxone/direct/synchronizer.go`, `client.go`,
`values.go`). State: pending items by input, last acknowledged value,
disconnected flag, wake channel, stop/done channels, retry timers. Operations:
Update, UpdateInstallation, ResendAll, processNext, enqueue, Close. Hard: timers
and resends race the sender and each other; a push whose answer is lost; close
while all of these go on. Correct when the Miniserver converges to the robot's
values, no wake-up is lost, doubt about an input is never forgotten, and nothing
is pushed after Close.

**Device state store** (`roborock/internal_state.go`). State: the last snapshot
of each robot and the subscribers. Subscribers run after the unlock, so two
updates may reach them in the other order.

**Command coordinator** (`roborock/command_coordinator.go`). State: commands in
flight, their timeouts, the last activity of each id. Operations: SubmitText and
SubmitParsed, the dispatch goroutine, expiry, status and availability hand-over.

**Activity tracker** (`roborock/loxone_activity.go`, states of
`roborock/loxone.go`). State per robot: pending commands, debounce windows, last
status, cycle, room. Operations: BeginCommand, MarkRunning, MarkCompleted,
MarkFailed, ExpireCommand, UpdateStatus, UpdateAvailability, UpdateRoom. Hard:
what it returns is published after the unlock, by several goroutines. Correct
when a command ends exactly once, none is forgotten, and the event stream says
what the robot does.

**Watchdog** (`integration/watchdog/watchdog.go`). State: since when there is an
issue, the stage of the recovery, the healthy streak, the persisted restarts.
Operations: Assess, Step, Start, Stop, Allow, Record. Correct when an internal
block restarts the process, an outage alone does not (the code does not
guarantee it, section 3), and the number of restarts is limited across
processes.

**Device manager** (`roborock/manager.go`). State: robots and their cloud
clients, `recoveryMu`, the beat of the loop. ConnectAll, ReconnectAll,
DisconnectAll, PollAll, StartPolling. Hard: a repair or a shutdown racing a
poll that is stuck in a call.

**Bridge process** (`main.go`). Wires the callbacks, starts and stops the parts,
holds `integrationMu`, runs the recovery goroutine, ends on a restart request.

**Cloud MQTT link** (`roborock/mqtt.go`, `roborock/protocol.go`). State: the
paho client, the request tracker, consecutive timeouts, availability. Connect,
SendCommand with a 15 s timeout, handleMessage, forceReconnect after timeouts,
a cleanup loop, Disconnect. Hard: late answers, forced reconnect racing
Disconnect, requests whose publish failed.

**Local MQTT client** (`integration/localmqtt/client.go`). State: the paho
client, subscriptions to restore, diagnostics. Start, Stop, Subscribe, Publish
(waits for the token), Test. Hard: handlers run in order on one goroutine and
may publish and wait.

**Fleet health** (`roborock/fleet_health.go`). State per robot: failures, next
attempt, availability. ShouldPoll, MarkAttempt, MarkSuccess, MarkFailure,
MarkOnline, MarkCommunication. Correct when the backoff grows, is bounded and
ends with the first success, and one robot's failures do not delay another's.

**Health publisher** (`integration/health/publisher.go`). A ticker and PublishNow
that read a snapshot and hand it to a sink.

**Automatic updates** (`integration/autoupdate/scheduler.go`,
`integration/updates`). State: the diagnostics with the last version, decision
and attempt, persisted. Step decides from the window, the guard, the cooldown
and the version. Hard: the guard may be out of date when Install is called, the
attempt is persisted after it, and Install replaces this very process.

**Schedule engine** (`roborock/schedule_engine.go`, `schedule_store.go`,
`schedule_signals.go`, `not_at_home.go`, `active_program.go`). State: the slots,
the day types last seen, "not at home". A ticker dispatches the slots of the
minute. Hard: missed or doubled minutes, unsynchronised day types.

**Run tracker and maintenance** (`roborock/run_tracker.go`,
`notification_state.go`, `maintenance_checker.go`). State: active runs, intents,
durations, notifications, persisted. Hard: restarts in the middle of a run,
charging in the middle of a run.

**Retained topics and stable slugs** (`roborock/retained_topics.go`,
`stable_slugs.go`). Two files that have to follow what was published and
assigned. Hard: a crash or a failed write between the file and the action.

**Cloud HTTP client** (`client.go`) and **session**. State: the login, the
robots, `session.json`. AuthLogin, ClearSession, LoadSession. **Configuration**
(`config/`) and **web interface** (`web/`). State: `config.cfg` and its file; the
handlers change it, the schedules, "not at home" and the consumables, and ask for
installations. Hard: handlers that save what they read before somebody else
saved.

**Rooms** (`current_room.go`, `room_mapping.go`), **maps** (`map*.go`),
**cryptography** (`crypto.go`), **commands and capabilities** (`commands.go`,
`capabilities.go`), **version, templates** (`version/`, `loxone/templates`):
sequential translation, parsing and presentation with no state of their own.

`PROJECT.json` lists the same components with what is modelled of each, and the
hazards of the code line by line with the properties that cover them.

## 2. Modules

| Module | Models | Composes |
| --- | --- | --- |
| `ServiceReplacement` | what an update promises of the service (abstract) | |
| `Updater` | updater service, Docker supervisor, Docker | refines `ServiceReplacement` |
| `DirectSync` | store notifications, synchronizer, Miniserver, heartbeat, Close | |
| `CommandLifecycle` | coordinator, activity tracker, their goroutines | |
| `Watchdog` | monitor, polling loop, recovery, shutdown, restart guard | |
| `CloudLink` | the cloud MQTT client of a robot: requests, tracker, reconnects, Disconnect | |
| `AutoUpdate` | update scheduler, checker, rate limit of the updater, restarts | |
| `Bridge` | start, login, settings, local MQTT client and broker, retained topics, shutdown | |
| `Schedules` | schedule engine, its ticker, stores and signals, pause for maintenance | |
| `Upkeep` | poll backoff, run tracker, consumables, maintenance mails | |
| `*Proofs` | theorems about the module before `Proofs` | |
| `LinkProofs` | theorems about `CloudLink` and `DirectSync` | |
| `MC*` | values of the constants for TLC | |

### 2.1 Updater

`op`, `journal` and `used` are the three files; the copies in memory are equal to
them, because every change is persisted at once (that the error of that write is
ignored is not modelled). `status` and `name` are Docker's containers: a name is
"service" (replacement.ServiceName) or "aside" (its `-old` form). `pc` says where
the single operation is, one position per Docker call or persisted step, so that
`Crash` can fall between any two. `simple` is a Docker call: it works, it is
impossible and refused, or it fails although it was possible, with or without its
effect. Stopping a stopped container counts as an error, as in
`docker.go` for a 304.

`Activate*` is Activate call by call with its two undo paths, `Rollback*` is
Rollback (what it finds decides which way it goes), `Finish*` and
`ForgetTransaction` are finish, `NewService`, `RecoverInterrupted`,
`RecoverForget` and `RecoverFinish` are the start of the updater after a crash.
Pulling, the backup, health and version checks are outcomes.

`found`, `validated` and `admitted` are history variables: no action reads them
to decide what to do.

`ServiceReplacement` knows of three outcomes: another container was installed;
the service is what it was; or the operation says that it could not restore it.
The mapping: `phase` is busy while the operation on disk is not terminal,
`serving` is then what the operation found, and the running container named
"service" otherwise. The refinement is the property `AbstractUpdate`: TLC
checks it on the run, and `UpdateIsReplacement` proves it.

### 2.2 DirectSync

A key is a field of a robot; the heartbeat is a key of its own whose value never
repeats. `enqueue` is the function of that name: it drops an item that is
acknowledged or already pending, and a retry that meets a newer value. The
token for the sender is sent after the unlock (`signalling`, then `wake`).
`TakeNext` takes the first key in the sorted order; `PushSucceeds` and
`PushFails` are processNext after Client.Push, whose effect and whose answer may
come apart; a failure with retries left arms a timer (`timers`), which calls
`enqueue` at any later moment, closed synchronizer or not. `Reconnect` starts
`go s.ResendAll()`; `ResendDirectSnapshots` is the same on request, under
`integrationMu` (`lock`). `Close` holds the mutex until the sender is done.

`notices` are store updates whose subscribers have not run: any of them may run
next, which is the reordering the unlock allows.

### 2.3 CommandLifecycle

One robot (the tracker's devices are independent). Each tracker method is one
action, as it holds the lock throughout; the activities it returns go to the
`outbox` of the goroutine that called it and are published one after the other,
interleaved with everything else. The threads are the submitter, the dispatch
and the timer of each command, and the reporters (poll, push). `sample` is a
status that a reporter has read and not yet delivered. `Elapse` ends a debounce
window. A status is the normalized state, InCleaning, the error code and the set
of commands whose effect its other fields show.

`mission` is what a subscriber of the events believes; `ended` counts the
terminal activities published for each id; both are history.

### 2.4 Watchdog

Time is counted in checks of the monitor: nothing in the code depends on an
absolute time, so that each clock is the age it has, cut off at the largest age
that a comparison tells apart. `PollTick`, `PollAll`, `PollReturns` are the
polling loop with the read side of `recoveryMu`; `JobLocks`, `JobConnects`,
`JobRebuilt` the recovery goroutine with its write side and `integrationMu`;
`Observe` is watchdogObservation, which needs `integrationMu` when Direct Loxone
is enabled; `Step_*` are the outcomes of Monitor.Step; `StopWatchdog` to `Exit`
the shutdown; `Crash` and `Start` the end and the next process. `Hang` may stop a
poll inside a call, the dispatcher (a command that stays in flight), or a
rebuild, for a while or for good.

Abstractions: the robots are one robot, the direct queue counts as dispatcher,
the local broker and recent messages are `silent`, the steps of the shutdown
after DisconnectAll return, and the bridge starts from a saved session (the
login on a running process is in `Bridge`). A pass of PollAll, a reconnection and
a rebuild take any number of checks: each asks the robots or the broker one after
the other, and PollAll beats once, at its start. `Runnable` names what does not
take time: a tick of the poll timer, a goroutine that has got the mutex it waits
for, and a pass that finds no client, all of which happen before the next check.

### 2.5 CloudLink

`Add` puts a request into the tracker, the steps of `RequestStep` publish it and
wait: `pc` is the goroutine of SendCommand, `channel` its Response channel, which
holds data or is closed. `HandleAnswer` is handleMessage for an answer, which
looks the request up and falls back to a status when there is none
(`unsolicited`); `Timeout` is the 15 s, which leaves the entry behind. `CleanupTick`
and `ReconnectTick` are cleanupLoop; its reconnects and those that timeouts force
are `ForceDisconnect` and `ForceConnect` of one reconnector each. `link` is the
library's connection, `connected` what its handlers have told; each handler runs
in a goroutine of its own, at any later moment (`handlers`). Its initial states,
steps and types are called `CloudInit`, `CloudNext` and `CloudTypeOK`, so that
one module of proofs can extend it beside `DirectSync`.

### 2.6 AutoUpdate

An hour is the unit; the clock starts again every week. `StepDefers`, `StepFails`
and `StepDecides` are the outcomes of Scheduler.Step up to its decision, `Install`
is the call of the updater, `RecordAttempt` what follows its return, and
`Restart` may fall between any two of them: `diagnostics` is on disk, `latest` in
memory. `Check` is the checker for one channel, `Eligible` and
`NextEligibleWindow` the test and the announcement of the window, computed apart
as in the code. `InstallUpdate` is the button in the browser. `operation` is what
the updater is doing; how it does it is `Updater`.

### 2.7 Bridge

`job` is one reconfiguration (`start`, `apply`) or the shutdown, `Configure` its
next step: delete stale topics, stop the health publisher, stop and close the old
client, connect, subscribe to the commands of `/set` (`SubscribeToSet`), delete the
retained commands of Loxone (`Clear`) and subscribe to them (`Subscribe`),
reconcile, republish.
`onConnect` runs in a goroutine of the library and reads its settings before it
acts (`handler`). `wills` are Last Wills the broker has still to publish; that
they may come at any later moment is an over-approximation of keep-alives.
`command` tells for each command topic (`<base>/<slug>/set`,
`<base>/loxone/<slug>/command`) whether what it retains is new, was executed by
this client, by one before it, or by both; `subs` is what the client subscribes
to, and what onConnect restores.
`draft` is a web handler between its snapshot of the settings and its save.
`ledger`, `session` and `saved` are files, and outlive `Crash`.

Abstractions: one reconfiguration at a time, one broker, QoS 1 or 2, Loxone
topics enabled, and a shutdown begins while no reconfiguration runs. onConnect
subscribes again to what was subscribed, with the retained commands still there.

### 2.8 Schedules

The ticker fires once in every minute (`fired`), and `tick` is the one element its
channel buffers. `TakesTick` is the receive in StartTicker, at any later moment;
`CheckBegins` reads the clock, and `CheckPublishes` to `CheckEnds` are the rest of
CheckAndDispatch, which takes any number of minutes, since its publications, mails
and robot calls have no common limit. `Waiting` counts the ticks that no look at
the clock has answered.
`Today` resolves the day type from the date, the signals and the switch. A day
type is published by the check and by the handler of a signal, each from what it
has read. `ChangeSchedule`, `RebuildReads`, `RebuildAssigns` are a request of the
browser, which saves, reads again and assigns without a lock. `SetStatus` is what
Push and Poll leave of the consumables: a pushed status has none.

### 2.9 Upkeep

Time is counted in units of the first backoff. `Polls`, `PollUpdates` are the poll
of one robot, with `ShouldPoll`, `MarkSuccess` and `MarkFailure` of the health
store; `SendMail`, `MailFails`, `RecordMail` the check of the consumables with the
record that follows the mail. `entry` is the record in memory and `file` the one
on disk, whose write may fail, or cut it off, without anybody hearing of it
(`Save`); a mail may have been delivered although SendEmail reports an error.
`CommandScene`, `CommandNotes`, `RobotStarts`, `RobotStops` feed RunTracker with
intents and statuses; a scene may fail on the robot after it was noted.

## 3. Runs

| Run | Checks | Bounds |
| --- | --- | --- |
| `Updater` | TypeOK, OneBridgeRunning, OutageIsReported, SuccessIsServing, EndLeavesNoOrphan, JournalCoversOutage, NoReplay, OperationEnds, AbstractUpdate | 3 operations, 3 crashes, 2 faults, 4 containers, 2 request ids, 1 remembered |
| `DirectSync` | TypeOK, DoubtIsResolved, NoLostWake, NoPushAfterClose, Converges | a field and the heartbeat, 2 values, 1 retry, 1 failed push, 1 change or request, 2 notices, 2 resenders |
| `DirectSync_exhausted` | Converges, CloseEnds | the same without a retry |
| `CommandLifecycle` | TypeOK, NoForgottenCommand, OneTerminalActivity | 2 "start" commands, idle and cleaning, 2 reporters |
| `CommandLifecycle_mission` | EventsFollowMission, CommandEnds, InFlightClears | 1 of 5 commands, 10 statuses, a room, 1 reporter |
| `Watchdog` | TypeOK, RestartsLimited, RepairExcludesPolling, FlickerRestarts, DispatcherAloneRestarts | thresholds 1, 1, 1, 2, 2 checks, hysteresis 2, 1 restart in 4 checks, a poll every check |
| `CloudLink` | CloudTypeOK, AnswerReachesRequest, EntriesForgotten, LinkHeals | 2 requests, reconnect at 2 timeouts, 1 loss, 1 handler of a kind, 1 forced reconnect beside the loop's |
| `AutoUpdate` | NextWindowIsEligible, NoEarlyRetry, AttemptsGoOn | a week of 2 days of 4 hours, window from 2 to 1 over midnight on one day, cooldown and check interval 2, 1 new release per channel, 1 event |
| `Bridge` | TypeOK, NoReplayByStart, AliveIsSeen | 2 base topics, 1 robot, 4 events |
| `Schedules` | TicksAreKept, UsedUpIsPaused | 2 days of 2 minutes, 1 request at a time, 3 events |
| `Upkeep` | NoMailFlood | a day of 4 units, intents of 2, 2 levels of backoff, 4 events |

What each shows is its "about" in `PROJECT.json`; what each property says stands
above it in its module.

Why the bounds are enough. *Updater*: an operation can inherit from its
predecessor a journal, leftovers and a service that is down; the third operation
meets what the second made of it; a rollback that is interrupted and resumed
takes two crashes, and a third falls into the next operation; a Docker call and
its undo call may both fail. With one id remembered and two to choose from, the
window evicts and a replay at distance two is possible. *DirectSync*: every
hazard is about one input, its heartbeat and the two ResendAll calls that may
overlap; a push that fails once leads through retry, drop and reconnection.
Another change of the same input adds no new kind of order to a notice, a retry,
a pending and an acknowledged value that already differ; `BeatsPaced` says that
30 s outlast the queue, without which the state space has no bound worth having.
*CommandLifecycle*: the threads of one command (submitter, dispatch, timer) race
both reporters and another command of the same kind, which has to wait for the
debounce window; the second run gives up the races of two reporters for all kinds
of statuses. *Watchdog*: each threshold differs from or ties with its neighbours
the way the defaults do, the window is longer than the way to a second restart,
a pass may outlast every threshold, and all three activities may hang in any
order. The two configurations that refute a statement without any hang have the
thresholds 1, 1, 2, 2, 3.

*CloudLink*: the second timeout in a row forces a reconnect, so that two requests
are what it takes; the other keeps an entry for the late answer and the clean
up. With one forced reconnect beside the loop's, two overlap. *AutoUpdate*: the
window crosses midnight and the end of the week, the cooldown is shorter than the
way to the next week's window and longer than the one to the next hour; both
channels have a release to change to; one event (a setting, a restart, a manual
installation) is what separates a record from its attempt, and the theorem has no
such bound. *Bridge*: two reconfigurations with an outage or a crash between them
and a command before. *Schedules*: a check that lasts through several
minutes, so that a tick is answered in a later minute, another one waits and a third
is dropped; a day type that changes at midnight and by signal; three events are
wear, a status and a reset. *Upkeep*: four events are wear, the end of the process
or a failing mail, a failing write, and a reset.

In `Updater` and `Watchdog` the constants cut nothing else: crashes, faults, cloud
outages, hangs and restarts of the bridge are unlimited where they are not in the
table.

One run ends in a counterexample, for a difference between the code and its
documentation: `Bridge_stale_topics` violates StaleTopicsDeleted. A robot that
left the account while the bridge was down is struck from the ledger by a cleanup
that runs before any client is connected (`main.go:1139`); its topics stay for
good, where README.md:315-317 says they are deleted. 1 base topic, 2 robots, 4
events.

The directory keeps the configurations of other statements that the code
violates. TLC finds each counterexample in seconds
(`tlc -config X.cfg M`):

| Configuration | Violates | What happens |
| --- | --- | --- |
| `Updater_finalize_crash` | FailureRestoresService | the updater dies after Finalize removed the old container and before success is on disk; the recovery removes the new one too |
| `Updater_stale_journal` | NoRollbackBeforeReplacement | a journal that a crash left behind is rolled back for a later operation that replaced nothing |
| `CommandLifecycle_after_terminal` | TerminalIsLast | "running" is published after "completed" or "failed" and is what FindCommand answers from then on |
| `Watchdog_blocked_loop` | BlockedLoopRestarts | the shutdown waits for the poll because of which it was requested |
| `Watchdog_blocked_observer` | BlockedDispatcherRestarts | the watchdog waits for integrationMu, which the blocked rebuild holds |
| `Watchdog_threshold` | FatalIsBlocked | a loop that has been stale for one check ends a process whose cloud has been away for the fatal threshold, which counts from the first issue of any kind (`watchdog.go:277`; README.md:541-544) |
| `Watchdog_slow_poll` | OutageNeverRestarts | nothing hangs, but a pass over robots that time out is longer than the thresholds, and PollAll beats only at its start (`manager.go:383`; README.md:541-544) |
| `Watchdog_no_client` | OutageHeals | a recovery during an outage gives up the client, and nothing connects it later |
| `CloudLink_closed` | ClosedStaysClosed | a forced reconnect that was on its way when Disconnect closed the client connects it again (`mqtt.go:303`) |
| `AutoUpdate_delay` | DelayRespected | Install looks the release up again: one published after the decision is installed before its delay (README.md:116-117, 124) |
| `Bridge_set_replay` | NoSetReplayByStart | subscribeToCommands deletes no retained command: one left on `/set` runs again with every start and reconfiguration (`main.go:984`; README.md:621-623 speaks of `/command` only) |
| `Bridge_reconnect_replay` | NoReplayByReconnect | when the library reconnects, onConnect subscribes again without deleting what is retained, and a command that was executed already runs again (`localmqtt/client.go:136`) |
| `Bridge_marker` | DeadIsSeen | onConnect publishes "1" after Stop has published "0", and the clean end leaves no Last Will (README.md:515) |
| `Bridge_lost_settings` | SavedIsApplied | a code request or a new token saves the settings it had read, over those saved since (`web.go:229`) |
| `Schedules_late` | MinuteChecked | a check outlasts its minute, by publications, mails and robot calls in it, and the minute of the late tick is skipped or looked at twice (`schedule_engine.go:260`; openspec, schedule-engine, spec.md:33) |
| `Schedules_phantom_maintenance` | MaintenanceIsReal | a status without consumables reads as used up and pauses the schedule (`manager.go:231`) |
| `Schedules_rebuild` | SavedIsActive | two requests rebuild in the other order, and the older schedule stays active (`schedule_engine.go:74`) |
| `Upkeep_program` | RunHasItsProgram | the intent of a scene that failed names the next run, which was started by hand (`run_tracker.go:136`) |

The file of a temporal counterexample has the fairness of its module; `MC` modules
go with the configurations of `Updater`, `CommandLifecycle` and `Schedules`.

Differences seen while modelling that no run shows. `DirectSync`: a retry is
dropped only while a newer value is pending, not when it has been acknowledged
already (`synchronizer.go:150`; it is pushed, and the next poll puts it right).
`CommandLifecycle`: a status that was read before a command began may confirm it
(`loxone_activity.go:267`); with two reporters, events may be published in
another order than the transitions happened (`command_coordinator.go:132`).
`Watchdog`: the error of RestartGuard's write is ignored, so
that with a data volume that refuses writes (`DiskMayFail`) each process counts
from nothing (`watchdog.go:283`). `AutoUpdate`: the guard is read before Install
is called, so that a robot may start in between (`scheduler.go:149`). `Bridge`:
`<topic>/bridge/state` is never set back from
"online" (`localmqtt/client.go:89`). `Schedules`: one slot
per minute runs, a change to summer time skips slots and the change back repeats
them (`schedule_engine.go:260`); the ticker publishes no day type until its first
minute; toggling "not at home" reaches MQTT only at the next check.

Other hazards that no property covers: a login on a running bridge starts a
second schedule ticker and a second polling loop (`main.go:1257`, 1285);
ClearSession may run while a request uses `loginData` (`client.go:137`); the
event stream of the browser drops events when its channel is full
(`web.go:762`); a slug whose save failed is used until the restart
(`stable_slugs.go:39`).

## 4. Fairness

*Updater*: `WF(System)`. Every Docker call, pull and check runs under a timeout,
and Docker's restart policy starts the updater again. Operations need not be
started and crashes are bounded, not fair.

*DirectSync*: goroutines run (`Signal`, `Sender`, `CloseReturns`, `Resend`),
timers fire (`RetryDue`), polls and heartbeats recur, and a subscriber that is to
run runs. One weak fairness over all resends, and one over all timers, is enough,
since there are finitely many of them. Sender is one action with weak fairness:
Go's select may prefer either ready channel.

*CommandLifecycle*: goroutines publish, timers expire, calls to the robot return
or time out. The robot need not report, and nobody has to submit.

*Watchdog*: time passes (`SF(Tick)`: what is `Runnable` stops it for a moment,
again and again), Step runs when it can, paho retries a connection it had,
the shutdown proceeds and the service manager starts the process. `Loop` and
`Job` have strong fairness: they wait for mutexes that others take again and
again, and Go's RWMutex and Mutex starve nobody. The cloud, hangs and crashes
are unconstrained; a hang need never end.

*CloudLink*: requests proceed or time out, reconnects and handlers run, the
library retries while the broker can be reached. `CleanupTick` is strong: the one
goroutine of cleanupLoop may be busy with a reconnect whenever the ticker fires,
but returns to its select. Nothing has to be asked, lost or closed.

*AutoUpdate*: time passes, a step begins and ends, the updater ends what it
started (`OperationEnds` of Updater). `StepDecides` is strong: the scheduler steps
sixty times in an hour of the window, and a check that fails once may succeed the
next time. Releases, robots and settings are unconstrained.

*Bridge*: a reconfiguration proceeds, the health publisher beats, the library
reconnects to a broker that can be reached and runs its handlers, a due Last Will
is published. Robots, logins, settings, outages and crashes are unconstrained.

*Schedules* and *Upkeep* state safety only and assume nothing.

## 5. Proofs

TLAPS checks these for every value of the constants allowed by the ASSUMEs of the
modules.

`UpdaterProofs`:

- `TypeCorrect`: the types of the state (any containers, operations, crashes,
  faults).
- `AtMostOneBridge`: `OneBridgeRunning`. It is not inductive: a start has to know
  that nothing runs. `ContainerInv` adds that names follow the containers, that
  at most one is named "service", that a bridge running under its rollback name
  is the one the journal and the updater know as previous, where the previous
  instance and the service are at each position, and that nothing runs at the
  positions between a stop and a start. `CallEffects`, which says once what a
  Docker call may do, carries the proof.
- `OutagesAreReported` and `OutagesAreJournalled`: `OutageIsReported`,
  `JournalCoversOutage`. `OutageInv` ties the stage on disk to the position, says
  that a failure without rollback_error has the service up if it was, that an
  unfinished operation without a journal does too, and that the positions that
  give up without a rollback are reached only while it is up.
- `NoRequestReplayed`: `NoReplay`, for requests that come in any order. It is
  inductive once the file is known to hold the last ids of the requests made
  (`UsedIsRecent`): one that is refused because it is among them makes no new
  one, one that is accepted pushes out the oldest.
- `SuccessesServe`: `SuccessIsServing`. `SuccessInv` follows the two containers of
  an operation: what was found is known before anything is stopped, the previous
  instance keeps its rollback name while it is replaced, a new and validated one
  runs when the removal of the old one begins, and the old one is gone before
  success is recorded.
- `NoOrphans`: `EndLeavesNoOrphan`. `OrphanInv` says what an operation has beyond
  what it found: nothing but what carries the service name, nothing at all without
  a journal or at the positions that end without a rollback_error, and, once it
  succeeds, no more containers than there were.
- `UpdateIsReplacement`: `AbstractUpdate`, action by action: every step of Updater
  is one of `ServiceReplacement` or leaves `phase`, `serving` and `result` alone.
  `RestoreInv` adds what the mapping needs: that an operation which ended well
  has a service running, that the journal of an unfinished one names the service
  it found, and that without a journal, or at the end of a rollback that worked,
  this service runs again.

`WatchdogProofs`:

- `TypeCorrect`: ages stay within the thresholds.
- `RepairsAreExclusive`: `RepairExcludesPolling` is inductive by itself.
- `RestartsAreLimited`: `RestartsLimited` if every write to the data volume
  succeeds (`DiskMayFail = FALSE`). The strengthening: a process that is up knows
  every request of the window in its memory, and the file knows all of them, so
  that whoever decides next counts them. `TimeForgets` maps the requests after a
  tick into those before it.

`LinkProofs`, for DirectSync (any keys, values, retries, failures and resenders):

- `TypeCorrect`; `NoWakeIsLost`: `NoLostWake` is inductive, since every path of
  `enqueue` that leaves something pending signals (`EnqueueEffects`).
- `ClosedPushesNothing`: `NoPushAfterClose`. `CloseInv` says who holds
  integrationMu and that a closed synchronizer whose lock is free has no sender.
- `DoubtsGetResolved`: `DoubtIsResolved` is inductive together with the types and
  "nothing is being sent outside of Push". A forced item without attempts is
  never redundant, so that a resend does enqueue; a failed push sets
  disconnected, and the next success turns it into a resend of everything.

and for CloudLink (any requests, timeouts, losses and reconnects at once):

- `AnswersReachRequests`: `AnswerReachesRequest`. `AnswerInv` adds that a request
  that has not returned is in the tracker, or has its answer, or a closed channel.
- `CloudTypeCorrect`: `CloudTypeOK`. That the counted timeouts stay within the
  requests that are over is more than a type: each was the end of a request of
  its own (`TimeoutsCounted`).

`AutoUpdateProofs`:

- `RetriesWait`: `NoEarlyRetry`, across restarts and changed channels. `RetryInv`
  relates the last attempt to its record: of the same release and no older, or of
  a newer release of the channel, or the channel changed; and no step that is
  about to install considers a release tried within the cooldown.
- `NextWindowServes`: `NextWindowIsEligible`, for weeks and days of any length. The
  candidates of the search have a least one (`WFMin`), which is eligible by the
  test of the scheduler that the code computes apart; where it may lie takes the
  arithmetic of days and hours of any length (`DivUnique`), and the day before
  for a window over midnight.

`CommandLifecycleProofs` (any commands, statuses, rooms and reporters):

- `TypeCorrect`; `NoneForgotten`: `NoForgottenCommand` is inductive with "a
  pending command was submitted" (`CommandInv`).
- `EndsOnce`: `OneTerminalActivity`. A terminal activity is made by whoever
  rejects the command or takes it out of `pending` under the tracker's lock, but
  published later, by one of many goroutines. `EndInv` says that an open command
  has none, published or queued, that any other has one published, or one in the
  outboxes of all goroutines together; `BoxesFree`, that nobody takes new
  activities before the old ones are out, so that none is overwritten.
- `EndsStand`: what is true beside `TerminalIsLast`, which
  `CommandLifecycle_after_terminal` refutes: other activities may follow the end
  of a command, the opposite end never does.
- `MissionTold`: `EventsFollowMission` where one goroutine reports at a time
  (`SingleReporter`, as in its run; with two it is false). `MissionInv` says
  that what the goroutines have yet to publish leaves a reader of the events
  (`Leaves`) in agreement with the cycle of the tracker, whatever is queued.

`BridgeProofs`: `TypeCorrect`, which includes that a disabled local MQTT leaves
nothing published under its base, and `StartsDoNotReplay` for `NoReplayByStart`.
`CommandInv` has two parts. `Unsubscribed`: from the close of the old client to
its own subscription a reconfiguration has no subscription for Loxone, and none
that onConnect has read and could restore. `Cleared`: a topic that is subscribed
to, or in the hands of onConnect, retains nothing that an earlier client has
executed. So neither of them executes again what is old; what this client itself
has executed onConnect does execute again (`Bridge_reconnect_replay`).

`SchedulesProofs`: `EveryTickCounts` for `TicksAreKept`, with the balance of the
ticks as the invariant (`TickerInv`: those answered in this minute and those that
wait are those that waited when it began and the one that has fired in it, less
one that found its place taken), for checks of any length; `UsedUpPauses` for
`UsedUpIsPaused` (`ToldInv`: after a critical level was told, every status tells
it or leaves it out, and both pause); `TypeCorrect`; `OneBrowserIsActive`: what is
true of the refuted `SavedIsActive`. With one request at a time (`SingleBrowser`)
the engine runs the stored schedule whenever no request is under way, crashes and
the ticker included: `SavedInv` adds that what a request has read in order to
activate it is what is stored.

`UpkeepProofs`, `NoFlood`: `NoMailFlood`. `MailInv` says that the record on disk
names a level no milder and a time no earlier than the last mail, except between
the mail and its record, when the poll does; where a write has failed, the record
in memory does, and the end of the process excuses the mail.

With these every safety property and every action property a run checks is a
theorem, `RestartsLimited` and `EventsFollowMission` under the conditions named.
Only model-checked is liveness (`OperationEnds`, `Converges`, `CloseEnds`,
`CommandEnds`, `InFlightClears`, `DispatcherAloneRestarts`, `FlickerRestarts`,
`EntriesForgotten`, `LinkHeals`, `AttemptsGoOn`, `AliveIsSeen`): it rests on
fairness and ENABLED, which TLAPS does not reach here. Not proved either are the
types of two modules, for want of facts about two operators: in Upkeep, that 2^n
grows with n, where the provers know nothing of exponentiation; in AutoUpdate,
that the sum the rate limit counts, a fold, is at least each summand, which is
induction over data (the library's theorems for it take an operator as a
parameter). No run states these types; `MailInv` and `RetryInv` hold those parts
of them that their theorems use.

## 6. Not modelled

Of the modelled parts: the errors of the updater's own writes; a push that times
out and takes effect only after its retry; the rate of PublishNow; the parsing of
commands and the formats of values; the copying of a container's configuration;
the encryption and the frames of the cloud's messages; request ids that are drawn
twice; the diagnostics and the connection tests; the mail that tells of a skipped
slot; the reset of a consumable as a read, a write and a further read on the
robot; the next action a schedule state announces; what a fleet summary counts;
the consequences of a login on a running bridge for tickers and pollers; slugs
that change.

Of the system: maps, commands and capabilities, cryptography, templates and views
parse, translate or draw one value at a time and keep no state whose order could
matter; the routing and the authentication of the two HTTP servers decide about
one request alone; the event stream of the browser repeats what the modelled
parts publish.

## 7. What is left

Theorems worth proving next: what is true beside the other statements that section
3 refutes, such as which crash of a finalization loses the service and which does
not, the restarts of a bridge whose recovery holds no lock, or the link of a
client whose forced reconnects have ended before Disconnect; and a contract of
one command (accepted, told of at most one end, forgotten) that CommandLifecycle
implements. Models worth
writing next: paho's ordered handlers with their QoS 1 acknowledgements, composed
with the commands that publish from them (`main.go:1029`), as soon as the
library's source is at hand; PollAll over several robots with a timeout for
each; StableSlugStore with failed writes.
