------------------------------- MODULE Upkeep -------------------------------
(***************************************************************************)
(* One robot as the polling loop and the statuses it pushes show it: the   *)
(* backoff of failed polls (FleetHealthStore), the tracker that names a    *)
(* run after the command that started it (RunTracker), the consumables     *)
(* that a status carries or does not carry, and the maintenance mails with *)
(* their record on disk (MaintenanceChecker, NotificationState).           *)
(*                                                                         *)
(* Time runs in units of the first backoff.  How long a run lasts is left  *)
(* open.                                                                   *)
(***************************************************************************)
EXTENDS Integers

CONSTANTS ADay,           \* units of 24 hours
          IntentTTL,      \* units of intentTTL
          MaxBackoff,     \* failed polls that lengthen the backoff
          MaxEvents       \* bound: commands, wear, resets, ends of the process, failures

ASSUME UpkeepAssumption ==
    ADay \in Nat \ {0} /\ MaxBackoff \in Nat \ {0} /\ {IntentTTL, MaxEvents} \subseteq Nat

VARIABLES running,
          cleaning, level,        \* the robot: the program it runs, its worst consumable
          noting,                 \* executeCommand between ExecuteScene and NoteSceneStarted
          pending, active,        \* RunTracker, in memory
          durations,              \* RunTracker, on disk: programs with a reference duration
          status,                 \* ManagedDevice.Status: the consumables it tells
          poll, failures, wait,   \* PollAll; the robot's DeviceHealth
          entry, file,            \* NotificationState in memory and on disk
          lastMail,               \* history: the last mail that was sent
          events                  \* bound

\* the variables of the robot, of RunTracker, of DeviceManager and of the mails
robot == <<cleaning, level>>
run   == <<noting, pending, active, durations>>
link  == <<status, poll, failures, wait>>
mail  == <<entry, file, lastMail>>
vars  == <<running, robot, run, link, mail, events>>

NoPoll == [pc |-> "idle", cleaning |-> "no", level |-> "none"]
NoEntry == [level |-> "none", age |-> ADay]
NoIntent == [key |-> "none", age |-> 0]
Levels == {"fine", "warn", "critical"}

TypeOK ==
    /\ {running, noting} \subseteq BOOLEAN
    /\ cleaning \in {"no", "scene", "full"} /\ level \in Levels
    /\ status \in Levels \cup {"none", "zero"}
    /\ pending \in [key : {"scene"}, age : 0 .. IntentTTL + 1] \cup {NoIntent}
    /\ active \in {"none", "scene", "full"} /\ durations \subseteq {"scene", "full"}
    /\ poll.pc \in {"idle", "read", "mail", "record"} /\ poll.level \in Levels \cup {"none"}
    /\ poll.cleaning \in {"no", "scene", "full"}
    /\ failures \in 0 .. MaxBackoff /\ wait \in 0 .. 2 ^ (MaxBackoff - 1)
    /\ {entry, file} \subseteq [level : Levels, age : 0 .. ADay] \cup {NoEntry}
    /\ lastMail.level \in Levels \cup {"none"} /\ lastMail.age \in 0 .. ADay
    /\ lastMail.excused \in BOOLEAN
    /\ events \in 0 .. MaxEvents

Init ==
    /\ running = FALSE
    /\ cleaning = "no" /\ level = "fine" /\ status = "none"
    /\ noting = FALSE /\ pending = NoIntent /\ active = "none" /\ durations = {}
    /\ poll = NoPoll /\ failures = 0 /\ wait = 0
    /\ entry = NoEntry /\ file = NoEntry
    /\ lastMail = [level |-> "none", age |-> ADay, excused |-> TRUE]
    /\ events = 0

Event == events < MaxEvents /\ events' = events + 1
AtMost(a, b) == IF a < b THEN a ELSE b

Pass ==
    /\ pending' = IF pending = NoIntent THEN pending
                  ELSE [pending EXCEPT !.age = AtMost(@ + 1, IntentTTL + 1)]
    /\ wait' = IF wait > 0 THEN wait - 1 ELSE 0
    /\ entry' = [entry EXCEPT !.age = AtMost(@ + 1, ADay)]
    /\ file' = [file EXCEPT !.age = AtMost(@ + 1, ADay)]
    /\ lastMail' = [lastMail EXCEPT !.age = AtMost(@ + 1, ADay)]
    /\ UNCHANGED <<running, robot, noting, active, durations, status, poll, failures, events>>

-----------------------------------------------------------------------------
(* Start and end of the process *)

\* mutant: the record of the mails is not read again
Mutant_StartBridge ==
    /\ ~running /\ running' = TRUE
    /\ UNCHANGED <<robot, run, link, mail, events>>

\* NewRunTracker and NewMaintenanceChecker read what is on disk
StartBridge ==
    /\ ~running /\ running' = TRUE
    /\ entry' = file
    /\ UNCHANGED <<robot, run, link, file, lastMail, events>>

NewRunTracker == pending' = NoIntent /\ active' = "none" /\ UNCHANGED durations
NewFleetHealthStore == failures' = 0 /\ wait' = 0

\* what is not on disk is gone, and so is a record of which half was written
Crash ==
    /\ running /\ running' = FALSE /\ Event
    /\ noting' = FALSE /\ status' = "none" /\ poll' = NoPoll
    /\ NewRunTracker /\ NewFleetHealthStore
    /\ entry' = NoEntry
    /\ file' = file \/ (poll.pc = "record" /\ file' = NoEntry)
    /\ lastMail' = [lastMail EXCEPT !.excused = @ \/ poll.pc = "record" \/ file # entry]
    /\ UNCHANGED robot

-----------------------------------------------------------------------------
(* The robot and its run *)

ExecuteScene == cleaning' = "scene"
NoteSceneStarted == pending' = [key |-> "scene", age |-> 0]

\* executeScene of the web server, dispatchAction of the schedule engine: the intent
\* first, then the request, which may fail
SceneNoted ==
    /\ running /\ Event
    /\ NoteSceneStarted
    /\ ExecuteScene \/ UNCHANGED cleaning
    /\ UNCHANGED <<running, level, noting, active, durations, link, mail>>

\* executeCommand: the intent once the cloud has accepted the scene
CommandScene ==
    /\ running /\ ~noting /\ Event
    /\ noting' = TRUE /\ ExecuteScene
    /\ UNCHANGED <<running, level, pending, active, durations, link, mail>>

CommandNotes ==
    /\ noting /\ noting' = FALSE
    /\ NoteSceneStarted
    /\ UNCHANGED <<running, robot, active, durations, link, mail, events>>

\* in the robot's own application, or at its button
RobotStarts ==
    /\ cleaning = "no" /\ Event
    /\ cleaning' = "full"
    /\ UNCHANGED <<running, level, run, link, mail>>

RobotStops ==
    /\ cleaning # "no"
    /\ cleaning' = "no"
    /\ UNCHANGED <<running, level, run, link, mail, events>>

Wears ==
    /\ level # "critical" /\ Event
    /\ level' = IF level = "fine" THEN "warn" ELSE "critical"
    /\ UNCHANGED <<running, cleaning, run, link, mail>>

ResetConsumable ==
    /\ level # "fine" /\ Event
    /\ level' = "fine"
    /\ lastMail' = [lastMail EXCEPT !.excused = TRUE]
    /\ UNCHANGED <<running, cleaning, run, link, entry, file>>

ResolveRunKey == IF pending # NoIntent /\ pending.age <= IntentTTL THEN "scene" ELSE "full"

setDuration(key) == durations' = durations \cup {key}

\* RunTracker.Update, with a status that tells the program c; a run of less than
\* a minute is not recorded
Update(c) ==
    /\ UNCHANGED noting
    /\ IF c = "no" THEN
          /\ active' = "none" /\ UNCHANGED pending
          /\ UNCHANGED durations \/ (active # "none" /\ setDuration(active))
       ELSE
          /\ active' = (IF active = "none" THEN ResolveRunKey ELSE active)
          /\ pending' = (IF active = "none" THEN NoIntent ELSE pending)
          /\ UNCHANGED durations

SetStatus(s) == status' = s

\* the status callback of connectAllLocked: a pushed status carries no consumables
Push ==
    /\ running
    /\ SetStatus("zero") /\ Update(cleaning)
    /\ UNCHANGED <<running, robot, poll, failures, wait, mail, events>>

-----------------------------------------------------------------------------
(* PollAll for the robot, then MaintenanceChecker *)

ShouldPoll == wait = 0
MarkSuccess == failures' = 0 /\ wait' = 0

\* 30 seconds, and twice as many for every further failure
MarkFailure ==
    /\ failures' = AtMost(failures + 1, MaxBackoff)
    /\ wait' = 2 ^ AtMost(failures, MaxBackoff - 1)

\* a status and the consumables, or the status alone
PollReads ==
    /\ \E l \in {level, "none"} : poll' = [pc |-> "read", cleaning |-> cleaning, level |-> l]
    /\ MarkSuccess /\ UNCHANGED events

PollFails == MarkFailure /\ Event /\ UNCHANGED poll

\* a beat of StartPolling
Polls ==
    /\ running /\ poll.pc = "idle" /\ ShouldPoll
    /\ PollReads \/ PollFails
    /\ UNCHANGED <<running, robot, run, status, mail>>

Severity == [fine |-> 0, warn |-> 1, critical |-> 2, none |-> 3, zero |-> 3]

\* checkItem: a mail for a level that is new or a day old
MailDue(e, l) ==
    /\ l \in {"warn", "critical"}
    /\ \/ e = NoEntry
       \/ Severity[e.level] < Severity[l]
       \/ e.age = ADay

\* NotificationState.save: a write that fails leaves the file as it was, or cut off,
\* and nobody hears of it
Save(e) ==
    \/ file' = e /\ UNCHANGED events
    \/ file' \in {file, NoEntry} /\ Event

Set(l) == entry' = [level |-> l, age |-> 0] /\ Save([level |-> l, age |-> 0])
Clear == entry' = NoEntry /\ Save(NoEntry)

PollUpdates ==
    LET told == IF poll.level # "none" THEN poll.level
                ELSE IF status = "none" THEN "zero" ELSE status
    IN  /\ poll.pc = "read"
        /\ SetStatus(told) /\ Update(poll.cleaning)
        \* checkItem: a low working time means that the part was replaced
        /\ IF entry # NoEntry /\ told = "fine" THEN Clear ELSE UNCHANGED <<entry, file, events>>
        /\ poll' = IF MailDue(entry', told) THEN [poll EXCEPT !.pc = "mail", !.level = told]
                   ELSE NoPoll
        /\ UNCHANGED <<running, robot, failures, wait, lastMail>>

Mail(excused) == lastMail' = [level |-> poll.level, age |-> 0, excused |-> excused]

SendMail ==
    /\ poll.pc = "mail"
    /\ Mail(level = "fine")
    /\ poll' = [poll EXCEPT !.pc = "record"]
    /\ UNCHANGED <<running, robot, run, status, failures, wait, entry, file, events>>

\* the server refuses it, or takes it and reports an error all the same
MailFails ==
    /\ poll.pc = "mail" /\ Event
    /\ UNCHANGED lastMail \/ Mail(TRUE)
    /\ poll' = NoPoll
    /\ UNCHANGED <<running, robot, run, status, failures, wait, entry, file>>

RecordMail ==
    /\ poll.pc = "record"
    /\ Set(poll.level) /\ poll' = NoPoll
    /\ UNCHANGED <<running, robot, run, status, failures, wait, lastMail>>

-----------------------------------------------------------------------------
Next ==
    \/ Pass \/ StartBridge \/ Crash
    \/ SceneNoted \/ CommandScene \/ CommandNotes \/ RobotStarts \/ RobotStops
    \/ Wears \/ ResetConsumable \/ Push
    \/ Polls \/ PollUpdates \/ SendMail \/ MailFails \/ RecordMail

Spec == Init /\ [][Next]_vars

-----------------------------------------------------------------------------
(* Properties *)

\* Within a day of a mail the next one, sent or tried, is of a more severe level,
\* unless the part was replaced, the process ended before the record was on disk, or
\* the server took the mail and reported an error (maintenance_checker.go:75; the
\* record has to live through restarts, in memory when its file cannot be written).
NoMailFlood ==
    [][(SendMail \/ MailFails) /\ lastMail.age < ADay /\ ~lastMail.excused
       => Severity[lastMail.level] < Severity[poll.level]]_vars

\* A run is tracked under the program that the robot was asked for
\* (run_tracker.go:136; the intent outlives a scene that failed).
RunHasItsProgram ==
    [][active = "none" /\ active' # "none" => active' = cleaning]_vars
=============================================================================
