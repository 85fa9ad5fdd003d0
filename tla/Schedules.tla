----------------------------- MODULE Schedules -----------------------------
(***************************************************************************)
(* The schedule engine of one robot: its minute ticker, the day types that *)
(* the date, the signals and the switch "not at home" resolve to, the      *)
(* provisioned schedule and the one the browser saves, the retained        *)
(* schedule state, and the consumables whose wear pauses the schedule, as  *)
(* far as polls and pushed statuses tell the engine about them.            *)
(*                                                                         *)
(* Time runs through Day minutes of a working day and as many of a weekend *)
(* day.  In every minute the ticker fires once; when its tick is taken and *)
(* how long a check then lasts is left open.                               *)
(***************************************************************************)
EXTENDS Integers

CONSTANTS Day,
          Provisioned,    \* a schedule: of each day type, minute -> action
          UserSchedules,  \* those the browser saves
          Browsers,       \* HTTP requests that save schedules
          MaxEvents       \* bound: changes of signals and schedules, wear, resets, crashes

DayTypes == {"normal", "weekend", "free", "notAtHome"}
Actions == {"none", "start", "scene"}

ASSUME SchedulesAssumption ==
    /\ Day \in Nat \ {0} /\ MaxEvents \in Nat
    /\ UserSchedules \cup {Provisioned} \subseteq [DayTypes -> [0 .. Day - 1 -> Actions]]

VARIABLES now,                    \* the minute of the two days
          checks, carried,        \* history: checks in this minute; ticks that waited when it
          excused,                \* began; the engine started or stopped in it
          fired, tick,            \* the ticker: it has fired in this minute; a tick is buffered
          check,                  \* CheckAndDispatch
          notAtHome, store,       \* on disk: NotAtHomeStore, ScheduleStore
          schedules, saver,       \* ScheduleEngine.schedules; requests between save and rebuild
          signals,                \* holiday, vacation
          lastDay, handler,       \* lastDayTypes; CheckDayTypeChanges before it publishes
          published,              \* the day type that <topic>/<slug>/schedule retains
          level, status,          \* the worst consumable; what ManagedDevice.Status tells of it
          told,                   \* history: a status has told this process of a critical level
          events                  \* bound

time   == <<now, checks, carried, excused, fired, tick>>
engine == <<check, schedules, signals, lastDay, handler>>
shop   == <<notAtHome, store, saver>>
wear   == <<level, status, told>>
vars   == <<time, engine, shop, published, wear, events>>

NoUser == [none |-> TRUE]
NoCheck == [pc |-> "off", minute |-> 0, day |-> "none", shown |-> "none"]
NoSignals == [holiday |-> FALSE, vacation |-> FALSE]
Levels == {"fine", "critical"}

TypeOK ==
    /\ now \in 0 .. 2 * Day - 1
    /\ checks \in 0 .. 3 /\ carried \in 0 .. 2
    /\ {excused, fired, tick, notAtHome, told} \subseteq BOOLEAN
    /\ check \in [pc : {"off", "idle", "woken", "publish", "dispatch", "end"},
                  minute : 0 .. Day - 1,
                  day : DayTypes \cup {"none"}, shown : DayTypes \cup {"none"}]
    /\ {lastDay, published} \subseteq DayTypes \cup {"none"}
    /\ handler \in DayTypes \cup {"none", "changed"}
    /\ store \in UserSchedules \cup {NoUser} /\ schedules \in UserSchedules \cup {Provisioned}
    /\ saver \in [Browsers -> [pc : {"idle", "saved", "read"}, copy : UserSchedules \cup {NoUser}]]
    /\ signals \in [holiday : BOOLEAN, vacation : BOOLEAN]
    /\ level \in Levels /\ status \in Levels \cup {"none", "zero"}
    /\ events \in 0 .. MaxEvents

Merged(user) == IF user = NoUser THEN Provisioned ELSE user

Init ==
    /\ now = 0 /\ checks = 0 /\ carried = 0 /\ excused = TRUE /\ fired = FALSE /\ tick = FALSE
    /\ check = NoCheck /\ schedules = Provisioned
    /\ notAtHome = FALSE /\ store = NoUser
    /\ saver = [b \in Browsers |-> [pc |-> "idle", copy |-> NoUser]]
    /\ signals = NoSignals /\ lastDay = "none" /\ handler = "none" /\ published = "none"
    /\ level = "fine" /\ status = "none" /\ told = FALSE
    /\ events = 0

Event == events < MaxEvents /\ events' = events + 1
Running == check.pc # "off"

-----------------------------------------------------------------------------
(* Time *)

\* the ticks that the loop has not answered with a look at the clock
Waiting == (IF tick THEN 1 ELSE 0) + (IF check.pc = "woken" THEN 1 ELSE 0)

\* a tick that finds another one buffered is dropped
Fires ==
    /\ Running /\ ~fired
    /\ fired' = TRUE /\ tick' = TRUE
    /\ UNCHANGED <<now, checks, carried, excused, engine, shop, published, wear, events>>

Pass ==
    /\ Running => fired
    /\ now' = IF now + 1 = 2 * Day THEN 0 ELSE now + 1
    /\ fired' = FALSE /\ checks' = 0 /\ carried' = Waiting /\ excused' = ~Running
    /\ UNCHANGED <<tick, engine, shop, published, wear, events>>

(* Start and end of the process *)

\* ResolveDayType, which is asked again whenever the day type matters
Today ==
    IF notAtHome THEN "notAtHome"
    ELSE IF now >= Day \/ signals.holiday THEN "weekend"
    ELSE IF signals.vacation THEN "free" ELSE "normal"

NewScheduleEngine == schedules' = Merged(store)

\* it fires for the first time after a minute
StartTicker ==
    /\ lastDay' = Today
    /\ check' = [NoCheck EXCEPT !.pc = "idle"]
    /\ fired' = TRUE

StartBridge ==
    /\ ~Running
    /\ NewScheduleEngine /\ StartTicker
    /\ excused' = TRUE
    /\ UNCHANGED <<now, checks, carried, tick, signals, handler, shop, published, wear, events>>

Crash ==
    /\ Running /\ Event
    /\ check' = NoCheck /\ tick' = FALSE /\ excused' = TRUE
    /\ signals' = NoSignals /\ lastDay' = "none" /\ handler' = "none"
    /\ saver' = [b \in Browsers |-> [pc |-> "idle", copy |-> NoUser]]
    /\ status' = "none" /\ told' = FALSE
    /\ UNCHANGED <<now, checks, carried, fired, schedules, notAtHome, store, published, level>>

-----------------------------------------------------------------------------
(* The minute ticker: CheckAndDispatch *)

\* its active day; it is computed again for every state that is published
GetScheduleState == Today

TakesTick ==
    /\ check.pc = "idle" /\ tick
    /\ tick' = FALSE
    /\ check' = [check EXCEPT !.pc = "woken"]
    /\ UNCHANGED <<now, checks, carried, excused, fired, schedules, signals, lastDay, handler, shop,
                   published, wear, events>>

\* CheckAndDispatch looks at the clock, then at the day type
CheckBegins ==
    /\ check.pc = "woken"
    /\ checks' = checks + 1
    /\ check' = [pc |-> "publish", minute |-> now % Day, day |-> Today,
                 shown |-> IF lastDay \notin {"none", Today} THEN GetScheduleState ELSE "none"]
    /\ UNCHANGED <<now, carried, excused, fired, tick, schedules, signals, lastDay, handler, shop,
                   published, wear, events>>

CheckPublishes ==
    /\ check.pc = "publish"
    /\ published' = IF check.shown = "none" THEN published ELSE check.shown
    /\ lastDay' = check.day
    /\ check' = [check EXCEPT !.pc = "dispatch", !.shown = "none"]
    /\ UNCHANGED <<time, schedules, signals, handler, shop, wear, events>>

Slot == schedules[check.day][check.minute]

\* mutant: a status without consumables is passed over
Mutant_MaintenancePending == status = "critical"

\* isMaintenancePending: percentages that are not known are zero
MaintenancePending == status \in {"critical", "zero"}

DispatchAction ==
    /\ check.pc = "dispatch" /\ Slot # "none" /\ ~MaintenancePending
    /\ check' = [check EXCEPT !.pc = "end", !.shown = GetScheduleState]
    /\ UNCHANGED <<time, schedules, signals, lastDay, handler, shop, published, wear,
                   events>>

Skip ==
    /\ check.pc = "dispatch" /\ Slot # "none" /\ MaintenancePending
    /\ check' = [check EXCEPT !.pc = "end"]
    /\ UNCHANGED <<time, schedules, signals, lastDay, handler, shop, published, wear,
                   events>>

NoSlot ==
    /\ check.pc = "dispatch" /\ Slot = "none"
    /\ check' = [check EXCEPT !.pc = "end"]
    /\ UNCHANGED <<time, schedules, signals, lastDay, handler, shop, published, wear,
                   events>>

\* mutant: a timer that is armed again after the work, in place of a ticker
Mutant_CheckEnds ==
    /\ check.pc = "end"
    /\ published' = IF check.shown = "none" THEN published ELSE check.shown
    /\ check' = [NoCheck EXCEPT !.pc = "idle"]
    /\ fired' = TRUE /\ tick' = FALSE
    /\ UNCHANGED <<now, checks, carried, excused, schedules, signals, lastDay, handler, shop, wear,
                   events>>

CheckEnds ==
    /\ check.pc = "end"
    /\ published' = IF check.shown = "none" THEN published ELSE check.shown
    /\ check' = [NoCheck EXCEPT !.pc = "idle"]
    /\ UNCHANGED <<time, schedules, signals, lastDay, handler, shop, wear, events>>

-----------------------------------------------------------------------------
(* Signals, the switch "not at home", and the schedules of the browser *)

\* the handlers of one client run one after the other
SignalChanges(s) ==
    /\ Running /\ handler = "none" /\ Event
    /\ signals' = [signals EXCEPT ![s] = ~@]
    /\ handler' = "changed"
    /\ UNCHANGED <<time, check, schedules, lastDay, shop, published, wear>>

CheckDayTypeChanges ==
    /\ handler = "changed"
    /\ IF lastDay \in {"none", Today} THEN handler' = "none" /\ UNCHANGED lastDay
       ELSE handler' = GetScheduleState /\ lastDay' = Today
    /\ UNCHANGED <<time, check, schedules, signals, shop, published, wear, events>>

HandlerPublishes ==
    /\ handler \in DayTypes
    /\ published' = handler /\ handler' = "none"
    /\ UNCHANGED <<time, check, schedules, signals, lastDay, shop, wear, events>>

\* NotAtHomeStore.Set, with its file
Set(away) == notAtHome' = away

ToggleNotAtHome ==
    /\ Running /\ Event
    /\ Set(~notAtHome)
    /\ UNCHANGED <<time, engine, store, saver, published, wear>>

\* ScheduleStore.Save and Delete, each with its file
Save(schedule) == store' = schedule

\* deviceScheduleSave and deviceScheduleDelete, up to the rebuild
ChangeSchedule(b) ==
    /\ Running /\ saver[b].pc = "idle" /\ Event
    /\ \E s \in (UserSchedules \cup {NoUser}) \ {store} : Save(s)
    /\ saver' = [saver EXCEPT ![b].pc = "saved"]
    /\ UNCHANGED <<time, engine, notAtHome, published, wear>>

\* RebuildSchedules: the copy of the store, then the assignment, under no common lock
RebuildReads(b) ==
    /\ saver[b].pc = "saved"
    /\ saver' = [saver EXCEPT ![b] = [pc |-> "read", copy |-> store]]
    /\ UNCHANGED <<time, engine, notAtHome, store, published, wear, events>>

RebuildAssigns(b) ==
    /\ saver[b].pc = "read"
    /\ schedules' = Merged(saver[b].copy)
    /\ saver' = [saver EXCEPT ![b] = [pc |-> "idle", copy |-> NoUser]]
    /\ UNCHANGED <<time, check, signals, lastDay, handler, notAtHome, store, published, wear,
                   events>>

-----------------------------------------------------------------------------
(* The consumables, and the statuses that tell of them *)

Wears ==
    /\ level = "fine" /\ Event
    /\ level' = "critical"
    /\ UNCHANGED <<time, engine, shop, published, status, told>>

SetStatus(s) == status' = s

\* PollAll; without an answer to PollConsumables it keeps the last values
Poll(answered) ==
    /\ Running
    /\ SetStatus(IF answered THEN level ELSE IF status = "none" THEN "zero" ELSE status)
    /\ told' = (told \/ (answered /\ level = "critical"))
    /\ UNCHANGED <<time, engine, shop, published, level, events>>

\* the status callback of connectAllLocked: a pushed status carries no consumables
Push ==
    /\ Running
    /\ SetStatus("zero")
    /\ UNCHANGED <<time, engine, shop, published, level, told, events>>

\* resetConsumable with its own poll, or the robot's application
ResetConsumable(updates) ==
    /\ level = "critical" /\ Event
    /\ level' = "fine" /\ told' = FALSE
    /\ SetStatus(IF updates /\ status # "none" THEN "fine" ELSE status)
    /\ UNCHANGED <<time, engine, shop, published>>

-----------------------------------------------------------------------------
Next ==
    \/ Fires \/ Pass \/ StartBridge \/ Crash
    \/ TakesTick \/ CheckBegins \/ CheckPublishes \/ DispatchAction \/ Skip \/ NoSlot \/ CheckEnds
    \/ \E s \in {"holiday", "vacation"} : SignalChanges(s)
    \/ CheckDayTypeChanges \/ HandlerPublishes \/ ToggleNotAtHome
    \/ \E b \in Browsers : ChangeSchedule(b) \/ RebuildReads(b) \/ RebuildAssigns(b)
    \/ Wears \/ Push
    \/ \E yes \in BOOLEAN : Poll(yes) \/ ResetConsumable(yes)

Spec == Init /\ [][Next]_vars

-----------------------------------------------------------------------------
(* Properties *)

\* A minute through which the engine runs is looked at, or ends with its tick still
\* waiting for the check before it; it is looked at again only for a tick that waited
\* when it began.  So a slot is skipped or run twice by late checks alone, and the
\* tick that is late is not lost (schedule_engine.go:317).
TicksAreKept ==
    [][now' # now /\ ~excused => checks + Waiting \in 1 .. carried + 1]_vars

\* openspec, schedule-engine: every minute is checked for slots that match it.
\* CheckAndDispatch compares for equality with the minute in which it runs, and
\* nothing limits the publications, mails and robot calls of the check before.
MinuteChecked == [][now' # now => checks = 1 \/ excused]_vars

\* Once a status has told the process of a used up consumable, no slot is
\* dispatched before the reset, whatever the statuses that follow leave out
\* (schedule_engine.go:331, manager.go:231, 422).
UsedUpIsPaused == [][DispatchAction => ~told]_vars

\* A slot is skipped only when a consumable is at its critical level, as
\* schedule_engine.go:330 has it.  Push and Poll leave a status without
\* consumables, and the code takes them for used up.
MaintenanceIsReal == [][Skip => level = "critical"]_vars

\* With no request under way, the engine has the schedule that is stored
\* (web.go:654, 684: two requests may rebuild in the other order).
SavedIsActive ==
    Running /\ (\A b \in Browsers : saver[b].pc = "idle") => schedules = Merged(store)
=============================================================================
