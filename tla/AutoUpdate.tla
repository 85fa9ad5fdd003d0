----------------------------- MODULE AutoUpdate -----------------------------
(***************************************************************************)
(* The automatic updates: the step of the scheduler with the diagnostics   *)
(* it keeps on disk, the release it remembers in memory, the installation  *)
(* it asks the updater for, the same request made by hand, the settings    *)
(* that change under it, and the restarts of the bridge that every         *)
(* installation brings.                                                    *)
(*                                                                         *)
(* Time is a clock of hours that starts again every week, and ages that    *)
(* stop growing when they no longer matter.  The scheduler steps sixty     *)
(* times an hour.  Releases of a channel are numbered; what the updater    *)
(* does with a request is the module Updater.                              *)
(***************************************************************************)
EXTENDS Integers, Functions

CONSTANTS DayLength, Week,         \* hours of a day, days of a week
          WindowStart, WindowEnd,  \* hours
          AllowedDays,
          DelayHours,
          CheckInterval, RetryCooldown,
          Maximum, RateWindow,     \* of the updater's rate limit
          MaxReleases,             \* bound: releases of a channel
          MaxEvents                \* bound: changed settings, restarts and manual installations

Channels == {"stable", "edge"}
Modes == {"off", "notify", "automatic"}

ASSUME UpdateAssumption ==
    /\ {DayLength, Week, CheckInterval, RetryCooldown, Maximum, RateWindow} \subseteq Nat \ {0}
    /\ {DelayHours, MaxReleases, MaxEvents} \subseteq Nat
    /\ {WindowStart, WindowEnd} \subseteq 0 .. DayLength - 1
    /\ AllowedDays \subseteq 0 .. Week - 1

VARIABLES clock, stepped,     \* the hour of the week; the scheduler has stepped in it
          settings,           \* config.Updates
          released, age,      \* of each channel: the latest release, hours since then
          artifact,           \* the image of the latest edge commit is published
          installed,          \* the channel and the release that run
          latest,             \* Scheduler.latest, its release's age: in memory
          diagnostics,        \* Scheduler.diagnostics: on disk
          step,               \* the step between its decision and recordAttempt
          operation,          \* what the updater is installing
          requests,           \* ages of the requests the rate limit counts
          try,                \* the last automatic attempt, for NoEarlyRetry
          busy,               \* a robot or a command is active
          events              \* bound

vars == <<clock, stepped, settings, released, age, artifact, installed, latest, diagnostics, step,
          operation, requests, try, busy, events>>
time == <<clock, stepped>>
world == <<released, age, artifact, busy>>
scheduler == <<latest, diagnostics, step, try>>
updater == <<installed, operation, requests>>

Hours == 0 .. DayLength * Week - 1
None == [channel |-> "none", version |-> 0]
Release == [channel : Channels, version : 0 .. MaxReleases]
Older(a, limit) == IF a < limit THEN a + 1 ELSE limit

TypeOK ==
    /\ clock \in Hours /\ stepped \in BOOLEAN
    /\ settings \in [mode : Modes, channel : Channels, allowEdge : BOOLEAN]
    /\ released \in [Channels -> 0 .. MaxReleases]
    /\ age \in [Channels -> 0 .. DelayHours]
    /\ {artifact, busy} \subseteq BOOLEAN
    /\ installed \in Release
    /\ latest.release \in Release \cup {None} /\ latest.age \in 0 .. DelayHours
    /\ diagnostics.checked \in 0 .. CheckInterval
    /\ diagnostics.version \in Release \cup {None}
    /\ diagnostics.attempt \in 0 .. RetryCooldown
    /\ step.pc \in {"idle", "install", "record"} /\ step.release \in Release \cup {None}
    /\ operation \in Release \cup {None}
    /\ requests \in [0 .. RateWindow - 1 -> 0 .. Maximum]
    /\ try.release \in Release \cup {None} /\ try.age \in 0 .. RetryCooldown
    /\ try.excused \in BOOLEAN
    /\ events \in 0 .. MaxEvents

NoStep == [pc |-> "idle", release |-> None]
NotChecked == [release |-> None, age |-> 0]

Init ==
    /\ clock = 0 /\ stepped = FALSE
    /\ settings \in [mode : {"notify", "automatic"}, channel : Channels, allowEdge : {FALSE}]
    /\ released = [c \in Channels |-> 0] /\ age = [c \in Channels |-> DelayHours]
    /\ artifact = TRUE /\ busy = FALSE
    /\ installed = [channel |-> "stable", version |-> 0]
    /\ latest = NotChecked
    /\ diagnostics = [checked |-> CheckInterval, version |-> None, attempt |-> RetryCooldown]
    /\ step = NoStep
    /\ operation = None /\ requests = [h \in 0 .. RateWindow - 1 |-> 0]
    /\ try = [release |-> None, age |-> RetryCooldown, excused |-> TRUE]
    /\ events = 0

-----------------------------------------------------------------------------
(* What happens around the scheduler *)

Event == events < MaxEvents /\ events' = events + 1

Tick ==
    /\ stepped /\ step.pc = "idle"
    /\ clock' = (clock + 1) % (DayLength * Week)
    /\ stepped' = FALSE
    /\ age' = [c \in Channels |-> Older(age[c], DelayHours)]
    /\ latest' = [latest EXCEPT !.age = Older(@, DelayHours)]
    /\ diagnostics' = [diagnostics EXCEPT !.checked = Older(@, CheckInterval),
                                          !.attempt = Older(@, RetryCooldown)]
    /\ requests' = [h \in 0 .. RateWindow - 1 |-> IF h = 0 THEN 0 ELSE requests[h - 1]]
    /\ try' = [try EXCEPT !.age = Older(@, RetryCooldown)]
    /\ UNCHANGED <<settings, released, artifact, installed, step, operation, busy, events>>

Publish(c) ==
    /\ released[c] < MaxReleases
    /\ released' = [released EXCEPT ![c] = @ + 1]
    /\ age' = [age EXCEPT ![c] = 0]
    /\ artifact' = IF c = "edge" THEN FALSE ELSE artifact
    /\ UNCHANGED <<time, settings, scheduler, updater, busy, events>>

ImageIsBuilt ==
    /\ ~artifact /\ artifact' = TRUE
    /\ UNCHANGED <<time, settings, released, age, scheduler, updater, busy, events>>

RobotOrCommand ==
    /\ busy' = ~busy
    /\ UNCHANGED <<time, settings, released, age, artifact, scheduler, updater, events>>

SaveUpdateConfig(s) == settings' = s

SystemSaveUpdateSettings(s) ==
    /\ s # settings /\ Event
    /\ SaveUpdateConfig(s)
    /\ try' = [try EXCEPT !.excused = @ \/ s.channel # settings.channel]
    /\ UNCHANGED <<time, world, latest, diagnostics, step, updater>>

-----------------------------------------------------------------------------
(* The checker *)

CheckStable == [release   |-> [channel |-> "stable", version |-> released["stable"]],
                available |-> installed.channel = "edge" \/ released["stable"] > installed.version,
                ready     |-> TRUE]
CheckEdge   == [release   |-> [channel |-> "edge", version |-> released["edge"]],
                available |-> installed # [channel |-> "edge", version |-> released["edge"]],
                ready     |-> artifact]
Check(c) == IF c = "edge" THEN CheckEdge ELSE CheckStable

Available(release) == IF release.channel = "edge" THEN installed # release
                      ELSE installed.channel = "edge" \/ release.version > installed.version

(* The window *)

InsideWindow(hour, start, end) ==
    IF start = end THEN TRUE
    ELSE IF start < end THEN start <= hour /\ hour < end
         ELSE start <= hour \/ hour < end

AllowedDay(t) == (t \div DayLength) % Week \in AllowedDays
Eligible(t) == AllowedDay(t) /\ InsideWindow(t % DayLength, WindowStart, WindowEnd)

\* mutant: the start of today's window although it is over
Mutant_Candidates(t) ==
    {d * DayLength + WindowStart : d \in (t \div DayLength) .. (t \div DayLength) + Week + 1}

Candidates(t) ==
    {c \in {d * DayLength + WindowStart : d \in (t \div DayLength) .. (t \div DayLength) + Week + 1} :
        c >= t}

NextEligibleWindow(t) ==
    LET allowed == {c \in Candidates(t) : AllowedDay(c)}
    IN  IF allowed = {} THEN -1 ELSE CHOOSE c \in allowed : \A d \in allowed : c <= d

-----------------------------------------------------------------------------
(* Step *)

NeedsCheck == latest.release.channel # settings.channel \/ diagnostics.checked >= CheckInterval
Info == IF NeedsCheck THEN Check(settings.channel).release ELSE latest.release
InfoAge == IF NeedsCheck THEN age[settings.channel] ELSE latest.age

\* mutant: a version is tried once
Mutant_Cooling == diagnostics.version = Info /\ diagnostics.attempt <= RetryCooldown

\* previous.LastVersion is that of before the check
Cooling == diagnostics.version = Info /\ diagnostics.attempt < RetryCooldown

automaticUpdateGuard == busy
UpdaterStatus == operation

Proceeds ==
    /\ settings.mode = "automatic"
    /\ Available(Info)
    /\ settings.channel = "edge" => settings.allowEdge
    /\ InfoAge >= DelayHours
    /\ Eligible(clock)
    /\ ~automaticUpdateGuard
    /\ UpdaterStatus = None
    /\ ~Cooling

persistLocked(d) == diagnostics' = d

Checked ==
    IF NeedsCheck
    THEN /\ latest' = [release |-> Info, age |-> InfoAge]
         /\ persistLocked([diagnostics EXCEPT !.checked = 0, !.version = Info])
    ELSE UNCHANGED <<latest, diagnostics>>

StepDefers ==
    /\ step.pc = "idle"
    /\ stepped' = TRUE
    /\ ~Proceeds
    /\ IF settings.mode = "off" THEN UNCHANGED <<latest, diagnostics>> ELSE Checked
    /\ UNCHANGED <<clock, settings, world, step, try, updater, events>>

\* GitHub or the updater does not answer
StepFails ==
    /\ step.pc = "idle"
    /\ stepped' = TRUE
    /\ settings.mode # "off"
    /\ UNCHANGED <<latest, diagnostics>> \/ Checked
    /\ UNCHANGED <<clock, settings, world, step, try, updater, events>>

StepDecides ==
    /\ step.pc = "idle"
    /\ stepped' = TRUE
    /\ Proceeds
    /\ Checked
    /\ step' = [pc |-> "install", release |-> Info]
    /\ UNCHANGED <<clock, settings, world, try, updater, events>>

-----------------------------------------------------------------------------
(* startManualUpdate, for the scheduler and for the browser *)

Counted == FoldFunction(+, 0, requests)

rateLimit ==
    /\ Counted < Maximum
    /\ requests' = [requests EXCEPT ![0] = @ + 1]

\* the updater refuses it while it is at work
Start(release) == operation' = IF operation = None THEN release ELSE operation

\* the request may fail on its way
StartManualUpdate(c) ==
    LET info == Check(c) IN
    \/ UNCHANGED <<operation, requests>>
    \/ /\ info.available /\ info.ready
       /\ rateLimit /\ Start(info.release)

\* the release is looked up again, and may be another one than the step decided for
Install ==
    /\ step.pc = "install"
    /\ StartManualUpdate(step.release.channel)
    /\ step' = [step EXCEPT !.pc = "record"]
    /\ try' = [release |-> step.release, age |-> 0, excused |-> FALSE]
    /\ UNCHANGED <<time, settings, world, latest, diagnostics, installed, events>>

\* mutant: a refused installation is no attempt
Mutant_RecordAttempt ==
    /\ step.pc = "record"
    /\ step' = NoStep
    /\ diagnostics' = IF operation = None THEN diagnostics
                      ELSE [diagnostics EXCEPT !.attempt = 0, !.version = step.release]
    /\ UNCHANGED <<time, settings, world, latest, try, updater, events>>

RecordAttempt ==
    /\ step.pc = "record"
    /\ step' = NoStep
    /\ persistLocked([diagnostics EXCEPT !.attempt = 0, !.version = step.release])
    /\ UNCHANGED <<time, settings, world, latest, try, updater, events>>

InstallUpdate(c) ==
    /\ Event
    /\ StartManualUpdate(c)
    /\ UNCHANGED <<time, settings, world, scheduler, installed>>

\* NewScheduler reads the diagnostics again; an attempt not yet recorded is forgotten
NewScheduler ==
    /\ latest' = NotChecked
    /\ step' = NoStep
    /\ try' = [try EXCEPT !.excused = @ \/ step.pc = "record"]
    /\ UNCHANGED diagnostics

Restart ==
    /\ Event
    /\ NewScheduler
    /\ UNCHANGED <<time, settings, world, updater>>

\* the replacement of the bridge, by the new release or by the old one after a rollback
OperationEnds ==
    /\ operation # None
    /\ operation' = None
    /\ \/ installed' = operation /\ NewScheduler
       \/ UNCHANGED installed /\ NewScheduler
       \/ UNCHANGED <<installed, latest, step, try, diagnostics>>
    /\ UNCHANGED <<time, settings, world, requests, events>>

-----------------------------------------------------------------------------
Step == StepDefers \/ StepFails \/ StepDecides
\* the authorization matters to automatic updates of the edge channel only
Settings == {s \in [mode : Modes, channel : Channels, allowEdge : BOOLEAN] :
                s.allowEdge => s.mode = "automatic" /\ s.channel = "edge"}

Next ==
    \/ Tick \/ ImageIsBuilt \/ RobotOrCommand
    \/ \E c \in Channels : Publish(c) \/ InstallUpdate(c)
    \/ \E s \in Settings : SystemSaveUpdateSettings(s)
    \/ StepDefers \/ StepFails \/ StepDecides
    \/ Install \/ RecordAttempt \/ Restart \/ OperationEnds

Fairness ==
    /\ WF_vars(Tick) /\ WF_vars(Step) /\ SF_vars(StepDecides)
    /\ WF_vars(Install) /\ WF_vars(RecordAttempt) /\ WF_vars(OperationEnds)

Spec == Init /\ [][Next]_vars /\ Fairness

-----------------------------------------------------------------------------
(* A release that was tried is not tried again within the cooldown, across  *)
(* restarts of the bridge too: only a change of the channel, or a restart   *)
(* between the request and the record of the attempt, makes it forget.      *)
NoEarlyRetry ==
    [][Install => \/ try.release # step.release
                  \/ try.excused
                  \/ try.age >= RetryCooldown]_vars

(* The next window that /system announces is one in which the scheduler     *)
(* may install, and no more than a week and a day away.                     *)
NextWindowIsEligible ==
    LET next == NextEligibleWindow(clock)
    IN  IF AllowedDays = {} THEN next = -1
        ELSE next \in clock .. clock + (Week + 1) * DayLength /\ Eligible(next)

(* Updates that the settings allow are not put off for ever: as long as no  *)
(* robot is active, attempts go on until the channel has nothing newer.     *)
AttemptsGoOn ==
    <>[](/\ settings.mode = "automatic" /\ ~busy
         /\ settings.channel = "edge" => settings.allowEdge)
    => []<>(step.pc = "record" \/ ~Check(settings.channel).available)

(* README, Automatic updates: a release is installed automatically after    *)
(* its publication delay.                                                   *)
DelayRespected ==
    [][(Install /\ operation' # operation) => age[step.release.channel] >= DelayHours]_vars
=============================================================================
