-------------------------- MODULE SchedulesProofs --------------------------
(***************************************************************************)
(* What TLAPS proves of Schedules, for days of any length, checks of any   *)
(* duration, any schedules and any number of requests, crashes and         *)
(* changes.                                                                *)
(***************************************************************************)
EXTENDS Schedules, TLAPS

-----------------------------------------------------------------------------
(* The ticker *)

CheckType == [pc : {"off", "idle", "woken", "publish", "dispatch", "end"},
              minute : 0 .. Day - 1,
              day : DayTypes \cup {"none"}, shown : DayTypes \cup {"none"}]

\* What Pass, the ticker and CheckAndDispatch need of each other's variables.
TickerType ==
    /\ now \in 0 .. 2 * Day - 1
    /\ checks \in Nat /\ carried \in 0 .. 2
    /\ excused \in BOOLEAN /\ fired \in BOOLEAN /\ tick \in BOOLEAN
    /\ check \in CheckType

\* The ticks answered in this minute and those that wait are the ones that waited
\* when it began and the one that fired in it, less one that found its place taken.
TickerInv ==
    /\ checks + Waiting <= carried + (IF fired THEN 1 ELSE 0)
    /\ ~excused /\ Running /\ fired => checks + Waiting >= 1
    /\ ~Running => excused /\ ~tick

TickerOK == TickerType /\ TickerInv

LEMMA Sizes == Day \in Nat /\ Day > 0
BY SchedulesAssumption

LEMMA TodayIsDayType == Today \in DayTypes
BY DEF Today, DayTypes

LEMMA MinuteOfDay ==
  ASSUME now \in 0 .. 2 * Day - 1
  PROVE  now % Day \in 0 .. Day - 1
BY Sizes

LEMMA NoCheckType ==
  NoCheck \in CheckType /\ [NoCheck EXCEPT !.pc = "idle"] \in CheckType
BY Sizes DEF NoCheck, CheckType

LEMMA WaitingBound ==
  /\ Waiting \in 0 .. 2
  /\ tick => Waiting >= 1
BY DEF Waiting

LEMMA TickerInit == Init => TickerOK
<1> SUFFICES ASSUME Init PROVE TickerOK
  OBVIOUS
<1>1. check.pc = "off"
  BY DEF Init, NoCheck
<1>2. /\ now = 0 /\ checks = 0 /\ carried = 0 /\ excused = TRUE /\ fired = FALSE
      /\ tick = FALSE /\ check = NoCheck
  BY DEF Init
<1>3. TickerType
  <2>1. now \in 0 .. 2 * Day - 1 /\ checks \in Nat /\ carried \in 0 .. 2
    BY <1>2, Sizes
  <2>2. excused \in BOOLEAN /\ fired \in BOOLEAN /\ tick \in BOOLEAN
    BY <1>2
  <2>3. QED
    BY <1>2, <2>1, <2>2, NoCheckType DEF TickerType
<1>4. TickerInv
  BY <1>1, <1>2 DEF TickerInv, Running, Waiting
<1>5. QED
  BY <1>3, <1>4 DEF TickerOK

LEMMA PassKeepsTicker ==
  ASSUME TickerOK, Pass
  PROVE  TickerOK'
<1>1. /\ now' = IF now + 1 = 2 * Day THEN 0 ELSE now + 1
      /\ fired' = FALSE /\ checks' = 0 /\ carried' = Waiting /\ excused' = ~Running
      /\ tick' = tick /\ check' = check
  BY DEF Pass, engine
<1>2. now' \in 0 .. 2 * Day - 1
  BY <1>1, Sizes DEF TickerOK, TickerType
<1>3. Waiting' = Waiting /\ Running' = Running
  BY <1>1 DEF Waiting, Running
<1>4. TickerType'
  <2>1. checks' \in Nat /\ carried' \in 0 .. 2
    BY <1>1, WaitingBound
  <2>2. excused' \in BOOLEAN /\ fired' \in BOOLEAN /\ tick' \in BOOLEAN
    BY <1>1 DEF TickerOK, TickerType, Running
  <2>3. check' \in CheckType
    BY <1>1 DEF TickerOK, TickerType
  <2>4. QED
    BY <1>2, <2>1, <2>2, <2>3 DEF TickerType
<1>5. TickerInv'
  <2>1. checks' + Waiting' = carried'
    BY <1>1, <1>3, WaitingBound
  <2>2. checks' + Waiting' <= carried' + (IF fired' THEN 1 ELSE 0)
    BY <1>1, <2>1, WaitingBound
  <2>3. ~Running' => excused' /\ ~tick'
    BY <1>1, <1>3 DEF TickerOK, TickerInv
  <2>4. ~fired'
    BY <1>1
  <2>5. QED
    BY <2>2, <2>3, <2>4 DEF TickerInv
<1>6. QED
  BY <1>4, <1>5 DEF TickerOK

LEMMA FiresKeepsTicker ==
  ASSUME TickerOK, Fires
  PROVE  TickerOK'
<1>1. /\ Running /\ ~fired /\ fired' = TRUE /\ tick' = TRUE
      /\ UNCHANGED <<now, checks, carried, excused, check>>
  BY DEF Fires, engine
<1>2. Running' = Running
  BY <1>1 DEF Running
<1>3. Waiting' = Waiting \/ Waiting' = Waiting + 1
  BY <1>1 DEF Waiting
<1>4. Waiting' = 1 \/ Waiting' = 2
  BY <1>1 DEF Waiting
<1>5. TickerType'
  <2>1. fired' \in BOOLEAN /\ tick' \in BOOLEAN
    BY <1>1
  <2>2. QED
    BY <1>1, <2>1 DEF TickerOK, TickerType
<1>6. TickerInv'
  <2>1. checks + Waiting <= carried
    BY <1>1, WaitingBound DEF TickerOK, TickerType, TickerInv
  <2>2. checks' + Waiting' <= carried' + (IF fired' THEN 1 ELSE 0)
    <3>1. (IF fired' THEN 1 ELSE 0) = 1
      BY <1>1
    <3>2. /\ checks \in Nat /\ carried \in 0 .. 2 /\ Waiting \in 0 .. 2
          /\ checks' = checks /\ carried' = carried
      BY <1>1, WaitingBound DEF TickerOK, TickerType
    <3>3. QED
      BY <1>3, <1>4, <2>1, <3>1, <3>2
  <2>3. checks' + Waiting' >= 1
    <3>1. checks' \in Nat /\ checks' = checks
      BY <1>1 DEF TickerOK, TickerType
    <3>2. QED
      BY <1>3, <1>4, <3>1
  <2>4. Running'
    BY <1>1, <1>2
  <2>5. QED
    BY <2>2, <2>3, <2>4 DEF TickerInv
<1>7. QED
  BY <1>5, <1>6 DEF TickerOK

\* CheckAndDispatch as the ticker sees it
LEMMA CheckKeepsTicker ==
  ASSUME TickerOK,
         \/ TakesTick \/ CheckBegins \/ CheckPublishes \/ DispatchAction \/ Skip \/ NoSlot
         \/ CheckEnds
  PROVE  TickerOK'
<1> USE DEF TickerOK, TickerType, CheckType
<1>1. CASE TakesTick
  <2>1. /\ check.pc = "idle" /\ tick /\ tick' = FALSE
        /\ check' = [check EXCEPT !.pc = "woken"]
        /\ UNCHANGED <<now, checks, carried, excused, fired>>
    BY <1>1 DEF TakesTick
  <2>2. check' \in CheckType /\ check'.pc = "woken"
    BY <2>1
  <2>3. Waiting' = Waiting /\ Running' /\ Running
    BY <2>1, <2>2 DEF Waiting, Running
  <2>4. QED
    BY <2>1, <2>2, <2>3 DEF TickerInv
<1>2. CASE CheckBegins
  <2>1. /\ check.pc = "woken" /\ checks' = checks + 1 /\ check'.pc = "publish"
        /\ UNCHANGED <<now, carried, excused, fired, tick>>
    BY <1>2 DEF CheckBegins
  <2>2. check' \in CheckType
    BY <1>2, TodayIsDayType, MinuteOfDay DEF CheckBegins, GetScheduleState
  <2>3. checks' + Waiting' = checks + Waiting
    BY <2>1, <2>2 DEF Waiting
  <2>4. Running' /\ Running
    BY <2>1, <2>2 DEF Running
  <2>5. QED
    BY <2>1, <2>2, <2>3, <2>4 DEF TickerInv
<1>3. CASE CheckPublishes \/ DispatchAction \/ Skip \/ NoSlot \/ CheckEnds
  <2>1. UNCHANGED <<now, checks, carried, excused, fired, tick>>
    BY <1>3 DEF CheckPublishes, DispatchAction, Skip, NoSlot, CheckEnds, time
  <2>2. check' \in CheckType /\ check.pc \notin {"off", "woken"} /\ check'.pc \notin {"off", "woken"}
    <3>1. CASE CheckPublishes
      BY <3>1 DEF CheckPublishes
    <3>2. CASE DispatchAction
      BY <3>2, TodayIsDayType DEF DispatchAction, GetScheduleState
    <3>3. CASE Skip \/ NoSlot
      BY <3>3 DEF Skip, NoSlot
    <3>4. CASE CheckEnds
      BY <3>4, NoCheckType DEF CheckEnds, NoCheck
    <3>5. QED
      BY <1>3, <3>1, <3>2, <3>3, <3>4
  <2>3. Waiting' = Waiting /\ Running' /\ Running
    BY <2>1, <2>2 DEF Waiting, Running
  <2>4. QED
    BY <2>1, <2>2, <2>3 DEF TickerInv
<1>4. QED
  BY <1>1, <1>2, <1>3

LEMMA TickerStep ==
  ASSUME TickerOK, [Next]_vars
  PROVE  TickerOK'
<1>1. CASE Pass
  BY <1>1, PassKeepsTicker
<1>2. CASE Fires
  BY <1>2, FiresKeepsTicker
<1>3. CASE StartBridge
  <2>1. check' \in CheckType /\ check'.pc = "idle"
    BY <1>3, NoCheckType DEF StartBridge, StartTicker, NoCheck
  <2>2. /\ ~Running /\ excused' /\ fired' = TRUE
        /\ UNCHANGED <<now, checks, carried, tick>>
    BY <1>3 DEF StartBridge, StartTicker
  <2>3. Waiting' = Waiting /\ Running'
    BY <2>1, <2>2 DEF Waiting, Running
  <2>4. excused' = TRUE
    BY <1>3 DEF StartBridge
  <2>5. QED
    BY <2>1, <2>2, <2>3, <2>4, WaitingBound DEF TickerOK, TickerType, TickerInv
<1>4. CASE Crash
  <2>1. check' \in CheckType /\ check'.pc = "off"
    BY <1>4, NoCheckType DEF Crash, NoCheck
  <2>2. tick' = FALSE /\ excused' = TRUE /\ UNCHANGED <<now, checks, carried, fired>>
    BY <1>4 DEF Crash
  <2>3. Waiting' = 0 /\ ~Running'
    BY <2>1, <2>2 DEF Waiting, Running
  <2>4. TickerType'
    <3>1. excused' \in BOOLEAN /\ tick' \in BOOLEAN
      BY <2>2
    <3>2. QED
      BY <2>1, <2>2, <3>1 DEF TickerOK, TickerType
  <2>5. checks' + Waiting' <= carried' + (IF fired' THEN 1 ELSE 0)
    BY <2>2, <2>3, WaitingBound DEF TickerOK, TickerType, TickerInv
  <2>6. QED
    BY <2>2, <2>3, <2>4, <2>5 DEF TickerOK, TickerInv
<1>5. CASE \/ TakesTick \/ CheckBegins \/ CheckPublishes \/ DispatchAction \/ Skip \/ NoSlot
           \/ CheckEnds
  BY <1>5, CheckKeepsTicker
<1>6. ASSUME UNCHANGED <<time, check>>
      PROVE  TickerOK'
  BY <1>6 DEF TickerOK, TickerType, TickerInv, Running, Waiting, time
<1>7. CASE \/ \E s \in {"holiday", "vacation"} : SignalChanges(s)
           \/ CheckDayTypeChanges \/ HandlerPublishes \/ ToggleNotAtHome
           \/ \E b \in Browsers : ChangeSchedule(b) \/ RebuildReads(b) \/ RebuildAssigns(b)
           \/ Wears \/ Push \/ UNCHANGED vars
           \/ \E yes \in BOOLEAN : Poll(yes) \/ ResetConsumable(yes)
  <2>1. UNCHANGED <<time, check>>
    BY <1>7
    DEF SignalChanges, CheckDayTypeChanges, HandlerPublishes, ToggleNotAtHome,
        ChangeSchedule, RebuildReads, RebuildAssigns, Wears, Push, Poll, ResetConsumable,
        engine, vars
  <2>2. QED
    BY <1>6, <2>1
<1>8. QED
  BY <1>1, <1>2, <1>3, <1>4, <1>5, <1>7 DEF Next

LEMMA MinutesAreAnswered ==
  ASSUME TickerOK, [Next]_vars, now' # now, ~excused
  PROVE  checks + Waiting \in 1 .. carried + 1
<1>1. Pass
  BY DEF Next, vars, time, engine, shop, wear, Fires, StartBridge, Crash, TakesTick, CheckBegins,
     CheckPublishes, DispatchAction, Skip, NoSlot, CheckEnds, SignalChanges,
     CheckDayTypeChanges, HandlerPublishes, ToggleNotAtHome, ChangeSchedule, RebuildReads,
     RebuildAssigns, Wears, Push, Poll, ResetConsumable
<1>2. Running /\ fired
  BY <1>1 DEF Pass, TickerOK, TickerInv
<1>3. QED
  BY <1>2, WaitingBound DEF TickerOK, TickerType, TickerInv

\* However long the checks take, every tick that the channel of the ticker keeps is
\* answered by a look at the clock or waits for one, and none is answered twice: a
\* minute without a check, or with a second one, is the work of a tick that was late
\* (StartTicker, CheckAndDispatch).
THEOREM EveryTickCounts == Spec => TicksAreKept
<1>1. Spec => []TickerOK
  BY TickerInit, TickerStep, PTL DEF Spec
<1>2. QED
  BY <1>1, MinutesAreAnswered, PTL DEF Spec, TicksAreKept

-----------------------------------------------------------------------------
(* The pause for maintenance *)

\* What a status has told stays told: by the level or by the lack of one.
ToldInv == told => level = "critical" /\ status \in {"critical", "zero"}

LEMMA ToldStep ==
  ASSUME ToldInv, [Next]_vars
  PROVE  ToldInv'
<1>1. CASE Crash \/ \E yes \in BOOLEAN : ResetConsumable(yes)
  BY <1>1 DEF ToldInv, Crash, ResetConsumable
<1>2. CASE Push
  BY <1>2 DEF ToldInv, Push, SetStatus
<1>3. ASSUME NEW yes \in BOOLEAN, Poll(yes)
      PROVE  ToldInv'
  BY <1>3 DEF ToldInv, Poll, SetStatus
<1>4. CASE Wears
  BY <1>4 DEF ToldInv, Wears
<1>5. CASE \/ Fires \/ Pass \/ StartBridge
           \/ TakesTick \/ CheckBegins \/ CheckPublishes \/ DispatchAction \/ Skip \/ NoSlot \/ CheckEnds
           \/ \E s \in {"holiday", "vacation"} : SignalChanges(s)
           \/ CheckDayTypeChanges \/ HandlerPublishes \/ ToggleNotAtHome
           \/ \E b \in Browsers : ChangeSchedule(b) \/ RebuildReads(b) \/ RebuildAssigns(b)
           \/ UNCHANGED vars
  <2>1. UNCHANGED wear
    BY <1>5
    DEF Fires, Pass, StartBridge, TakesTick, CheckBegins, CheckPublishes, DispatchAction, Skip,
        NoSlot, CheckEnds, SignalChanges, CheckDayTypeChanges, HandlerPublishes, ToggleNotAtHome,
        ChangeSchedule, RebuildReads, RebuildAssigns, vars
  <2>2. QED
    BY <2>1 DEF ToldInv, wear
<1>6. QED
  BY <1>1, <1>2, <1>3, <1>4, <1>5 DEF Next

\* A consumable that the process knows to be used up pauses the schedule until
\* it is reset (isMaintenancePending, PollAll, the status callback).
THEOREM UsedUpPauses == Spec => UsedUpIsPaused
<1>1. Init => ToldInv
  BY DEF Init, ToldInv
<1>2. Spec => []ToldInv
  BY <1>1, ToldStep, PTL DEF Spec
<1>3. ToldInv /\ [Next]_vars => [DispatchAction => ~told]_vars
  BY DEF ToldInv, DispatchAction, MaintenancePending
<1>4. QED
  BY <1>2, <1>3, PTL DEF Spec, UsedUpIsPaused

-----------------------------------------------------------------------------
(* The types, and the schedules of the browser *)

SaverType == [Browsers -> [pc : {"idle", "saved", "read"}, copy : UserSchedules \cup {NoUser}]]

\* What TickerType leaves of TypeOK
StateType ==
    /\ lastDay \in DayTypes \cup {"none"} /\ published \in DayTypes \cup {"none"}
    /\ handler \in DayTypes \cup {"none", "changed"}
    /\ notAtHome \in BOOLEAN /\ told \in BOOLEAN
    /\ store \in UserSchedules \cup {NoUser} /\ schedules \in UserSchedules \cup {Provisioned}
    /\ saver \in SaverType
    /\ signals \in [holiday : BOOLEAN, vacation : BOOLEAN]
    /\ level \in Levels /\ status \in Levels \cup {"none", "zero"}
    /\ events \in 0 .. MaxEvents

StateOK == TickerOK /\ StateType

LEMMA MergedType ==
  ASSUME NEW user \in UserSchedules \cup {NoUser}
  PROVE  Merged(user) \in UserSchedules \cup {Provisioned}
BY DEF Merged

LEMMA StateInit == Init => StateType
<1> SUFFICES ASSUME Init PROVE StateType
  OBVIOUS
<1>1. 0 \in 0 .. MaxEvents
  BY SchedulesAssumption
<1>2. saver \in SaverType
  BY DEF Init, SaverType
<1>3. signals \in [holiday : BOOLEAN, vacation : BOOLEAN]
  BY DEF Init, NoSignals
<1>4. QED
  BY <1>1, <1>2, <1>3 DEF Init, StateType, Levels

LEMMA EventsBounded ==
  ASSUME StateType, Event \/ events' = events
  PROVE  events' \in 0 .. MaxEvents
BY SchedulesAssumption DEF StateType, Event

\* The ticker, the handler of the signals and the start of the process
LEMMA EngineKeepsTypes ==
  ASSUME StateOK,
         \/ Fires \/ Pass \/ StartBridge \/ TakesTick \/ CheckBegins \/ CheckPublishes
         \/ DispatchAction \/ Skip \/ NoSlot \/ CheckEnds \/ CheckDayTypeChanges \/ HandlerPublishes
  PROVE  StateType'
<1>1. /\ lastDay' \in {lastDay, Today, check.day} /\ published' \in {published, check.shown, handler}
      /\ handler' \in {handler, "none", Today} /\ schedules' \in {schedules, Merged(store)}
      /\ UNCHANGED <<notAtHome, told, store, saver, signals, level, status, events>>
  BY DEF Fires, Pass, StartBridge, StartTicker, NewScheduleEngine, TakesTick, CheckBegins,
         CheckPublishes, DispatchAction, Skip, NoSlot, CheckEnds, CheckDayTypeChanges, HandlerPublishes,
         GetScheduleState, engine, shop, wear
<1>2. check.day \in DayTypes \cup {"none"} /\ check.shown \in DayTypes \cup {"none"}
  BY DEF StateOK, TickerOK, TickerType, CheckType
<1>3. published' \in DayTypes \cup {"none"}
  BY <1>2 DEF StateOK, StateType, Fires, Pass, StartBridge, TakesTick, CheckBegins,
              CheckPublishes, DispatchAction, Skip, NoSlot, CheckEnds, CheckDayTypeChanges, HandlerPublishes
<1>4. schedules' \in UserSchedules \cup {Provisioned}
  BY <1>1, MergedType DEF StateOK, StateType
<1>5. QED
  BY <1>1, <1>2, <1>3, <1>4, TodayIsDayType DEF StateOK, StateType

\* A crash, the signals, the switch, the consumables
LEMMA WorldKeepsTypes ==
  ASSUME StateOK,
         \/ Crash \/ ToggleNotAtHome \/ Wears \/ Push
         \/ \E s \in {"holiday", "vacation"} : SignalChanges(s)
         \/ \E yes \in BOOLEAN : Poll(yes) \/ ResetConsumable(yes)
  PROVE  StateType'
<1> USE DEF StateOK, StateType
<1>1. events' \in 0 .. MaxEvents
  BY EventsBounded DEF Crash, ToggleNotAtHome, Wears, Push, SignalChanges, Poll, ResetConsumable
<1>2. CASE Crash
  BY <1>1, <1>2 DEF Crash, NoSignals, SaverType
<1>3. CASE ToggleNotAtHome
  BY <1>1, <1>3 DEF ToggleNotAtHome, Set, engine, wear
<1>4. CASE \E s \in {"holiday", "vacation"} : SignalChanges(s)
  <2>1. signals' \in [holiday : BOOLEAN, vacation : BOOLEAN]
    BY <1>4 DEF SignalChanges
  <2>2. QED
    BY <1>1, <1>4, <2>1 DEF SignalChanges, shop, wear
<1>5. CASE \/ Wears \/ Push \/ \E yes \in BOOLEAN : Poll(yes) \/ ResetConsumable(yes)
  BY <1>1, <1>5 DEF Wears, Push, Poll, ResetConsumable, SetStatus, Levels, engine, shop
<1>6. QED
  BY <1>2, <1>3, <1>4, <1>5

\* The requests of the browsers
LEMMA BrowserKeepsTypes ==
  ASSUME StateOK, NEW b \in Browsers, ChangeSchedule(b) \/ RebuildReads(b) \/ RebuildAssigns(b)
  PROVE  StateType'
<1> USE DEF StateOK, StateType
<1>1. events' \in 0 .. MaxEvents
  BY EventsBounded DEF ChangeSchedule, RebuildReads, RebuildAssigns
<1>2. CASE ChangeSchedule(b)
  <2>1. saver' \in SaverType
    BY <1>2 DEF ChangeSchedule, SaverType
  <2>2. store' \in UserSchedules \cup {NoUser}
    BY <1>2 DEF ChangeSchedule, Save
  <2>3. QED
    BY <1>1, <1>2, <2>1, <2>2 DEF ChangeSchedule, engine, wear
<1>3. CASE RebuildReads(b)
  <2>1. saver' \in SaverType
    BY <1>3 DEF RebuildReads, SaverType
  <2>2. QED
    BY <1>1, <1>3, <2>1 DEF RebuildReads, engine, wear
<1>4. CASE RebuildAssigns(b)
  <2>1. saver' \in SaverType
    BY <1>4 DEF RebuildAssigns, SaverType
  <2>2. saver[b].copy \in UserSchedules \cup {NoUser}
    BY DEF SaverType
  <2>3. schedules' \in UserSchedules \cup {Provisioned}
    BY <1>4, <2>2, MergedType DEF RebuildAssigns
  <2>4. QED
    BY <1>1, <1>4, <2>1, <2>3 DEF RebuildAssigns, wear
<1>5. QED
  BY <1>2, <1>3, <1>4

LEMMA StateStep ==
  ASSUME StateOK, [Next]_vars
  PROVE  StateOK'
<1>1. TickerOK'
  BY TickerStep DEF StateOK
<1>2. CASE UNCHANGED vars
  BY <1>1, <1>2 DEF vars, engine, shop, wear, StateOK, StateType
<1>3. CASE Next
  <2>1. StateType'
    BY <1>3, EngineKeepsTypes, WorldKeepsTypes, BrowserKeepsTypes DEF Next
  <2>2. QED
    BY <1>1, <2>1 DEF StateOK
<1>4. QED
  BY <1>2, <1>3

\* Every variable keeps its type, and a minute is looked at three times at most:
\* for its own tick, a buffered one, and one that is taken but not yet looked at.
THEOREM TypeCorrect == Spec => []TypeOK
<1>1. Spec => []StateOK
  <2>1. Init => StateOK
    BY TickerInit, StateInit DEF StateOK
  <2>2. QED
    BY <2>1, StateStep, PTL DEF Spec
<1>2. StateOK => TypeOK
  <2>1. TickerOK => checks \in 0 .. 3
    BY WaitingBound DEF TickerOK, TickerType, TickerInv
  <2>2. QED
    BY <2>1 DEF StateOK, TickerOK, TickerType, CheckType, StateType, SaverType, TypeOK
<1>3. QED
  BY <1>1, <1>2, PTL

\* one request saves schedules at a time
SingleBrowser == \E b : Browsers = {b}

\* What a rebuild has read is what is stored.
SavedInv ==
    /\ StateOK /\ SingleBrowser /\ SavedIsActive
    /\ \A b \in Browsers : saver[b].pc = "read" => saver[b].copy = store

LEMMA SavedStep ==
  ASSUME SavedInv, [Next]_vars
  PROVE  SavedInv'
<1> USE DEF SavedInv, SavedIsActive
<1>1. StateOK' /\ SingleBrowser
  BY StateStep
<1>2. saver \in SaverType
  BY DEF StateOK, StateType
<1>3. CASE StartBridge
  BY <1>1, <1>3 DEF StartBridge, NewScheduleEngine, shop
<1>4. CASE Crash
  <2>1. ~Running' /\ \A b \in Browsers : saver'[b].pc = "idle"
    BY <1>4 DEF Crash, Running, NoCheck
  <2>2. QED
    BY <1>1, <2>1
<1>5. ASSUME NEW b \in Browsers, ChangeSchedule(b)
      PROVE  SavedInv'
  <2>1. Browsers = {b} /\ saver'[b].pc = "saved"
    BY <1>2, <1>5 DEF ChangeSchedule, SaverType, SingleBrowser
  <2>2. QED
    BY <1>1, <2>1
<1>6. ASSUME NEW b \in Browsers, RebuildReads(b)
      PROVE  SavedInv'
  <2>1. Browsers = {b} /\ saver'[b].pc = "read" /\ saver'[b].copy = store /\ store' = store
    BY <1>2, <1>6 DEF RebuildReads, SaverType, SingleBrowser
  <2>2. QED
    BY <1>1, <2>1
<1>7. ASSUME NEW b \in Browsers, RebuildAssigns(b)
      PROVE  SavedInv'
  <2>1. /\ Browsers = {b} /\ saver'[b].pc = "idle" /\ store' = store
        /\ schedules' = Merged(store)
    BY <1>2, <1>7 DEF RebuildAssigns, SaverType, SingleBrowser
  <2>2. QED
    BY <1>1, <2>1
<1>8. ASSUME UNCHANGED <<store, saver, schedules>>, Running' = Running
      PROVE  SavedInv'
  BY <1>1, <1>8
<1>9. CASE \/ Fires \/ Pass \/ TakesTick \/ CheckBegins \/ CheckPublishes \/ DispatchAction
           \/ Skip \/ NoSlot \/ CheckEnds
           \/ \E s \in {"holiday", "vacation"} : SignalChanges(s)
           \/ CheckDayTypeChanges \/ HandlerPublishes \/ ToggleNotAtHome
           \/ Wears \/ Push \/ UNCHANGED vars
           \/ \E yes \in BOOLEAN : Poll(yes) \/ ResetConsumable(yes)
  <2>1. UNCHANGED <<store, saver, schedules>>
    BY <1>9 DEF Fires, Pass, TakesTick, CheckBegins, CheckPublishes, DispatchAction, Skip, NoSlot, CheckEnds,
                SignalChanges, CheckDayTypeChanges, HandlerPublishes, ToggleNotAtHome, Wears,
                Push, Poll, ResetConsumable, engine, shop, vars
  <2>2. Running' = Running
    <3>1. CASE check' = check
      BY <3>1 DEF Running
    <3>2. CASE \/ TakesTick \/ CheckBegins \/ CheckPublishes \/ DispatchAction \/ Skip \/ NoSlot
               \/ CheckEnds
      <4>1. check \in CheckType
        BY DEF StateOK, TickerOK, TickerType
      <4>2. check.pc # "off" <=> check'.pc # "off"
        <5>1. CASE TakesTick
          BY <4>1, <5>1 DEF TakesTick, CheckType
        <5>2. CASE CheckBegins
          BY <5>2 DEF CheckBegins
        <5>3. CASE CheckPublishes \/ DispatchAction \/ Skip \/ NoSlot \/ CheckEnds
          BY <4>1, <5>3 DEF CheckPublishes, DispatchAction, Skip, NoSlot, CheckEnds, NoCheck,
                            CheckType
        <5>4. QED
          BY <3>2, <5>1, <5>2, <5>3
      <4>3. QED
        BY <4>2 DEF Running
    <3>3. QED
      BY <1>9, <3>1, <3>2
      DEF Fires, Pass, SignalChanges, CheckDayTypeChanges, HandlerPublishes, ToggleNotAtHome, Wears,
          Push, Poll, ResetConsumable, engine, vars
  <2>3. QED
    BY <1>8, <2>1, <2>2
<1>10. QED
  BY <1>3, <1>4, <1>5, <1>6, <1>7, <1>9 DEF Next

\* As long as the requests that save schedules come one at a time, the engine runs
\* what is stored when none is under way, through any crashes: the refuted
\* SavedIsActive takes two of them (deviceScheduleSave, RebuildSchedules).
THEOREM OneBrowserIsActive == SingleBrowser /\ Spec => []SavedIsActive
<1>1. SingleBrowser /\ Init => SavedInv
  BY TickerInit, StateInit DEF SavedInv, StateOK, SavedIsActive, Init, Running, NoCheck
<1>2. SavedInv /\ [Next]_vars => SavedInv'
  BY SavedStep
<1>3. SavedInv => SavedIsActive
  BY DEF SavedInv
<1>4. QED
  BY <1>1, <1>2, <1>3, PTL DEF Spec
=============================================================================
