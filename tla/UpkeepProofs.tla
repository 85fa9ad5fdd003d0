---------------------------- MODULE UpkeepProofs ----------------------------
(***************************************************************************)
(* What TLAPS proves of Upkeep: the maintenance mails of a consumable, for *)
(* a day of any length and any number of restarts, resets and failures.    *)
(***************************************************************************)
EXTENDS Upkeep, TLAPS

PollType == [pc : {"idle", "read", "mail", "record"}, cleaning : {"no", "scene", "full"},
             level : Levels \cup {"none"}]
EntryType == [level : Levels \cup {"none"}, age : 0 .. ADay]
MailType == [level : Levels \cup {"none"}, age : 0 .. ADay, excused : BOOLEAN]

MailTypes ==
    /\ cleaning \in {"no", "scene", "full"} /\ level \in Levels
    /\ status \in Levels \cup {"none", "zero"}
    /\ running \in BOOLEAN
    /\ poll \in PollType /\ entry \in EntryType /\ file \in EntryType /\ lastMail \in MailType

Fresh == lastMail.age < ADay /\ ~lastMail.excused

\* The record names a level no milder than the last mail, at a time no earlier.
Covers(e) ==
    e.level # "none" /\ e.age <= lastMail.age /\ Severity[lastMail.level] <= Severity[e.level]

\* While the process runs its memory has that record, whatever became of the file;
\* between the mail and its record the poll says it, and between two processes the file.
Recorded ==
    Fresh => IF poll.pc = "record" THEN lastMail.level = poll.level
             ELSE Covers(IF running THEN entry ELSE file)

\* A part that looks new has been replaced since the last mail.
NewIsExcused ==
    \/ lastMail.excused
    \/ level # "fine" /\ status # "fine" /\ ~(poll.pc = "read" /\ poll.level = "fine")

\* A mail on its way was due, and still is.
OnItsWay ==
    /\ poll.pc = "mail" => MailDue(entry, poll.level)
    /\ poll.pc \in {"mail", "record"} => poll.level \in {"warn", "critical"} /\ status # "fine"
    /\ entry.level = "none" => entry.age = ADay
    /\ file.level = "none" => file.age = ADay
    /\ poll.pc # "idle" => running

MailInv == MailTypes /\ Recorded /\ NewIsExcused /\ OnItsWay

LEMMA DayIsPositive == ADay \in Nat /\ ADay > 0
BY UpkeepAssumption

\* The parts of the invariant that an action leaves alone.
LEMMA MailsUntouched ==
  ASSUME MailInv, UNCHANGED <<running, level, status, poll, entry, file, lastMail>>,
         cleaning' \in {"no", "scene", "full"}
  PROVE  MailInv'
BY DEF MailInv, MailTypes, Recorded, Covers, Fresh, NewIsExcused, OnItsWay, MailDue, NoEntry

LEMMA NoEntryType ==
  NoEntry \in EntryType /\ NoEntry.level = "none" /\ NoEntry.age = ADay
BY DayIsPositive DEF NoEntry, EntryType

LEMMA NoPollType == NoPoll \in PollType /\ NoPoll.pc = "idle"
BY DEF NoPoll, PollType

\* What save leaves on disk
LEMMA SaveType ==
  ASSUME MailInv, NEW e \in EntryType, e.level = "none" => e.age = ADay, Save(e)
  PROVE  file' \in EntryType /\ (file'.level = "none" => file'.age = ADay)
<1>1. file' \in {e, file, NoEntry}
  BY DEF Save
<1>2. QED
  BY <1>1, NoEntryType DEF MailInv, MailTypes, OnItsWay

LEMMA PassKeepsMails ==
  ASSUME MailInv, Pass
  PROVE  MailInv'
<1>1. UNCHANGED <<running, level, status, poll, cleaning>>
  BY DEF Pass, robot
<1>2. /\ entry' \in EntryType /\ entry'.level = entry.level
      /\ entry'.age = IF entry.age < ADay THEN entry.age + 1 ELSE ADay
  BY DayIsPositive DEF Pass, AtMost, MailInv, MailTypes, EntryType
<1>3. /\ file' \in EntryType /\ file'.level = file.level
      /\ file'.age = IF file.age < ADay THEN file.age + 1 ELSE ADay
  BY DayIsPositive DEF Pass, AtMost, MailInv, MailTypes, EntryType
<1>4. /\ lastMail' \in MailType /\ lastMail'.level = lastMail.level
      /\ lastMail'.excused = lastMail.excused
      /\ lastMail'.age = IF lastMail.age < ADay THEN lastMail.age + 1 ELSE ADay
  BY DayIsPositive DEF Pass, AtMost, MailInv, MailTypes, MailType
<1>5. MailTypes'
  BY <1>1, <1>2, <1>3, <1>4 DEF MailInv, MailTypes
<1>6. Recorded'
  <2>1. Fresh' => Fresh
    BY <1>4, DayIsPositive DEF Fresh, MailInv, MailTypes, MailType
  <2>2. Fresh' => /\ entry.age <= lastMail.age => entry'.age <= lastMail'.age
                  /\ file.age <= lastMail.age => file'.age <= lastMail'.age
    BY <1>2, <1>3, <1>4, DayIsPositive DEF Fresh, MailInv, MailTypes, MailType, EntryType
  <2>3. QED
    BY <1>1, <1>2, <1>3, <1>4, <2>1, <2>2 DEF MailInv, Recorded, Covers
<1>7. NewIsExcused'
  BY <1>1, <1>4 DEF MailInv, NewIsExcused
<1>8. OnItsWay'
  <2>1. entry = NoEntry => entry' = NoEntry
    BY DayIsPositive DEF Pass, AtMost, NoEntry
  <2>2. (entry.age = ADay => entry'.age = ADay) /\ (file.age = ADay => file'.age = ADay)
    BY <1>2, <1>3, DayIsPositive
  <2>3. QED
    BY <1>1, <1>2, <1>3, <2>1, <2>2 DEF MailInv, OnItsWay, MailDue
<1>9. QED
  BY <1>5, <1>6, <1>7, <1>8 DEF MailInv

\* PollAll: the consumables it tells, and the checker that compares them
LEMMA PollUpdatesKeepsMails ==
  ASSUME MailInv, PollUpdates
  PROVE  MailInv'
<1> DEFINE told == IF poll.level # "none" THEN poll.level
                   ELSE IF status = "none" THEN "zero" ELSE status
           reset == entry # NoEntry /\ told = "fine"
<1>1. /\ poll.pc = "read" /\ status' = told /\ UNCHANGED <<running, level, cleaning, lastMail>>
      /\ IF reset THEN Clear ELSE UNCHANGED <<entry, file>>
      /\ poll' = IF MailDue(entry', told) THEN [poll EXCEPT !.pc = "mail", !.level = told]
                 ELSE NoPoll
  BY DEF PollUpdates, SetStatus, robot
<1>2. told \in Levels \cup {"zero"} /\ running
  BY <1>1 DEF MailInv, MailTypes, PollType, Levels, OnItsWay
<1>3. told = "fine" => lastMail.excused
  BY <1>1 DEF MailInv, NewIsExcused
<1>4. CASE reset
  <2>1. entry' = NoEntry /\ Save(NoEntry) /\ told = "fine"
    BY <1>1, <1>4 DEF Clear
  <2>2. file' \in EntryType /\ (file'.level = "none" => file'.age = ADay)
    BY <2>1, NoEntryType, SaveType
  <2>3. poll' = NoPoll
    BY <1>1, <2>1 DEF MailDue
  <2>4. MailTypes'
    BY <1>1, <1>2, <2>1, <2>2, <2>3, NoEntryType, NoPollType DEF MailInv, MailTypes
  <2>5. Recorded' /\ NewIsExcused'
    BY <1>1, <1>3, <2>1 DEF Recorded, Fresh, NewIsExcused
  <2>6. OnItsWay'
    BY <2>1, <2>2, <2>3, NoEntryType, NoPollType DEF OnItsWay
  <2>7. QED
    BY <2>4, <2>5, <2>6 DEF MailInv
<1>5. CASE ~reset /\ MailDue(entry', told)
  <2>1. told \in {"warn", "critical"} /\ entry' = entry /\ file' = file
    BY <1>1, <1>5 DEF MailDue
  <2>2. poll' \in PollType /\ poll'.pc = "mail" /\ poll'.level = told
    BY <1>1, <1>5, <2>1 DEF MailInv, MailTypes, PollType, Levels
  <2>3. MailTypes'
    BY <1>1, <2>1, <2>2 DEF MailInv, MailTypes, Levels
  <2>4. Recorded'
    BY <1>1, <2>1, <2>2 DEF MailInv, Recorded, Covers, Fresh
  <2>5. NewIsExcused'
    BY <1>1, <2>1, <2>2 DEF MailInv, NewIsExcused
  <2>6. OnItsWay'
    BY <1>1, <1>2, <1>5, <2>1, <2>2 DEF MailInv, OnItsWay
  <2>7. QED
    BY <2>3, <2>4, <2>5, <2>6 DEF MailInv
<1>6. CASE ~reset /\ ~MailDue(entry', told)
  <2>1. poll' = NoPoll /\ entry' = entry /\ file' = file
    BY <1>1, <1>6
  <2>2. MailTypes'
    BY <1>1, <1>2, <2>1, NoPollType DEF MailInv, MailTypes
  <2>3. Recorded'
    BY <1>1, <2>1, NoPollType DEF MailInv, Recorded, Covers, Fresh
  <2>4. NewIsExcused'
    BY <1>1, <1>3, <2>1, NoPollType DEF MailInv, NewIsExcused
  <2>5. OnItsWay'
    BY <1>1, <2>1, NoPollType DEF MailInv, OnItsWay
  <2>6. QED
    BY <2>2, <2>3, <2>4, <2>5 DEF MailInv
<1>7. QED
  BY <1>4, <1>5, <1>6

\* The mail, then its record: checkItem
LEMMA MailKeepsMails ==
  ASSUME MailInv, SendMail \/ MailFails \/ RecordMail
  PROVE  MailInv'
<1> USE DEF MailInv, MailTypes
<1>1. running
  BY DEF SendMail, MailFails, RecordMail, OnItsWay
<1>2. CASE SendMail
  <2>1. /\ poll.pc = "mail" /\ UNCHANGED <<running, cleaning, level, status, entry, file>>
        /\ lastMail' = [level |-> poll.level, age |-> 0, excused |-> level = "fine"]
        /\ poll' = [poll EXCEPT !.pc = "record"]
    BY <1>2 DEF SendMail, Mail, robot
  <2>2. poll' \in PollType /\ poll'.pc = "record" /\ poll'.level = poll.level
    BY <2>1 DEF PollType
  <2>3. /\ lastMail' \in MailType /\ lastMail'.level = poll.level
        /\ (lastMail'.excused <=> level = "fine")
    <3>1. poll.level \in Levels \cup {"none"} /\ 0 \in 0 .. ADay
      BY DayIsPositive DEF PollType
    <3>2. CASE level = "fine"
      <4>1. lastMail' = [level |-> poll.level, age |-> 0, excused |-> TRUE]
        BY <2>1, <3>2
      <4>2. QED
        BY <3>1, <3>2, <4>1 DEF MailType
    <3>3. CASE level # "fine"
      <4>1. lastMail' = [level |-> poll.level, age |-> 0, excused |-> FALSE]
        BY <2>1, <3>3
      <4>2. QED
        BY <3>1, <3>3, <4>1 DEF MailType
    <3>4. QED
      BY <3>2, <3>3
  <2>4. MailTypes' /\ Recorded'
    BY <2>1, <2>2, <2>3 DEF Recorded
  <2>5. NewIsExcused' /\ OnItsWay'
    BY <2>1, <2>2, <2>3 DEF NewIsExcused, OnItsWay
  <2>6. QED
    BY <2>4, <2>5
<1>3. CASE MailFails
  <2>1. /\ poll.pc = "mail" /\ poll' = NoPoll
        /\ UNCHANGED <<running, cleaning, level, status, entry, file>>
        /\ \/ lastMail' = lastMail
           \/ lastMail' = [level |-> poll.level, age |-> 0, excused |-> TRUE]
    BY <1>3 DEF MailFails, Mail, robot
  <2>2. lastMail' = lastMail \/ (lastMail' \in MailType /\ lastMail'.excused)
    <3>1. poll.level \in Levels \cup {"none"} /\ 0 \in 0 .. ADay
      BY DayIsPositive DEF PollType
    <3>2. [level |-> poll.level, age |-> 0, excused |-> TRUE] \in MailType
      BY <3>1 DEF MailType
    <3>3. CASE lastMail' = [level |-> poll.level, age |-> 0, excused |-> TRUE]
      <4>1. lastMail'.excused
        BY <3>3
      <4>2. QED
        BY <3>2, <3>3, <4>1
    <3>4. QED
      BY <2>1, <3>3
  <2>3. MailTypes'
    BY <2>1, <2>2, NoPollType
  <2>4. Recorded'
    BY <2>1, <2>2, NoPollType DEF Recorded, Covers, Fresh
  <2>5. NewIsExcused' /\ OnItsWay'
    BY <2>1, <2>2, NoPollType DEF NewIsExcused, OnItsWay
  <2>6. QED
    BY <2>3, <2>4, <2>5
<1>4. CASE RecordMail
  <2> DEFINE e == [level |-> poll.level, age |-> 0]
  <2>1. /\ poll.pc = "record" /\ poll' = NoPoll
        /\ UNCHANGED <<running, cleaning, level, status, lastMail>>
        /\ entry' = e /\ Save(e)
    BY <1>4 DEF RecordMail, Set, robot
  <2>2. poll.level \in {"warn", "critical"}
    BY <2>1 DEF OnItsWay
  <2>3. e \in EntryType /\ e.level = poll.level /\ e.age = 0
    BY DayIsPositive DEF PollType, EntryType
  <2>4. file' \in EntryType /\ (file'.level = "none" => file'.age = ADay)
    BY <2>1, <2>2, <2>3, SaveType
  <2>5. Recorded'
    BY <1>1, <2>1, <2>2, <2>3, NoPollType DEF Recorded, Covers, Fresh, Severity, MailType
  <2>6. MailTypes' /\ NewIsExcused' /\ OnItsWay'
    BY <1>1, <2>1, <2>2, <2>3, <2>4, NoPollType DEF NewIsExcused, OnItsWay
  <2>7. QED
    BY <2>5, <2>6
<1>5. QED
  BY <1>2, <1>3, <1>4

LEMMA MailInit == Init => MailInv
<1> SUFFICES ASSUME Init PROVE MailInv
  OBVIOUS
<1>3. lastMail \in MailType /\ lastMail.excused
  BY DayIsPositive DEF Init, MailType
<1>4. QED
  BY <1>3, NoEntryType, NoPollType
  DEF Init, MailInv, MailTypes, Levels, Recorded, Covers, Fresh, NewIsExcused, OnItsWay

LEMMA MailStep ==
  ASSUME MailInv, [Next]_vars
  PROVE  MailInv'
<1>1. CASE Pass
  BY <1>1, PassKeepsMails
<1>2. CASE \/ SceneNoted \/ CommandScene \/ CommandNotes \/ RobotStarts
           \/ RobotStops \/ UNCHANGED vars
  <2>1. UNCHANGED <<running, level, status, poll, entry, file, lastMail>>
    BY <1>2
    DEF SceneNoted, CommandScene, CommandNotes, RobotStarts, RobotStops, vars,
        robot, link, mail
  <2>2. cleaning' \in {"no", "scene", "full"}
    BY <1>2
    DEF SceneNoted, CommandScene, CommandNotes, RobotStarts, RobotStops, vars,
        robot, ExecuteScene, MailInv, MailTypes
  <2>3. QED
    BY <2>1, <2>2, MailsUntouched
<1>3. CASE StartBridge
  <2>1. /\ ~running /\ running' = TRUE /\ entry' = file
        /\ UNCHANGED <<cleaning, level, status, poll, file, lastMail>>
    BY <1>3 DEF StartBridge, robot, link
  <2>2. poll.pc = "idle"
    BY <2>1 DEF MailInv, OnItsWay, MailTypes, PollType
  <2>3. running' \in BOOLEAN
    BY <2>1
  <2>4. MailTypes'
    BY <2>1, <2>3 DEF MailInv, MailTypes
  <2>5. Recorded'
    BY <2>1, <2>2 DEF MailInv, Recorded, Covers, Fresh
  <2>6. NewIsExcused' /\ OnItsWay'
    BY <2>1, <2>2 DEF MailInv, NewIsExcused, OnItsWay
  <2>7. QED
    BY <2>4, <2>5, <2>6 DEF MailInv
<1>4. CASE Crash
  <2>1. /\ running /\ running' = FALSE /\ status' = "none" /\ poll' = NoPoll
        /\ UNCHANGED <<cleaning, level>> /\ entry' = NoEntry
        /\ file' = file \/ (poll.pc = "record" /\ file' = NoEntry)
        /\ lastMail' = [lastMail EXCEPT !.excused = @ \/ poll.pc = "record" \/ file # entry]
    BY <1>4 DEF Crash, robot
  <2>2. /\ lastMail' \in MailType /\ lastMail'.level = lastMail.level
        /\ lastMail'.age = lastMail.age
        /\ (lastMail'.excused <=> lastMail.excused \/ poll.pc = "record" \/ file # entry)
    BY <2>1 DEF MailInv, MailTypes, MailType
  <2>3. running' \in BOOLEAN /\ file' \in EntryType /\ (file'.level = "none" => file'.age = ADay)
    BY <2>1, NoEntryType DEF MailInv, MailTypes, OnItsWay
  <2>4. MailTypes'
    BY <2>1, <2>2, <2>3, NoEntryType, NoPollType DEF MailInv, MailTypes
  <2>5. Recorded'
    <3>1. Fresh' => Fresh /\ poll.pc # "record" /\ file = entry /\ file' = file
      BY <2>1, <2>2 DEF Fresh
    <3>2. Fresh' => Covers(entry)
      BY <2>1, <3>1 DEF MailInv, Recorded
    <3>3. Fresh' => Covers(file)'
      BY <2>2, <3>1, <3>2 DEF Covers
    <3>4. poll'.pc = "idle" /\ ~running'
      BY <2>1, NoPollType
    <3>5. QED
      BY <3>3, <3>4 DEF Recorded, Covers
  <2>6. NewIsExcused' /\ OnItsWay'
    BY <2>1, <2>2, <2>3, NoEntryType, NoPollType DEF MailInv, NewIsExcused, OnItsWay
  <2>7. QED
    BY <2>4, <2>5, <2>6 DEF MailInv
<1>5. CASE Wears
  <2>1. level' \in {"warn", "critical"} /\ UNCHANGED <<running, cleaning, status, poll, entry, file, lastMail>>
    BY <1>5 DEF Wears, link, mail
  <2>2. QED
    BY <2>1
    DEF MailInv, MailTypes, Levels, Recorded, Covers, Fresh, NewIsExcused, OnItsWay, MailDue, NoEntry
<1>6. CASE ResetConsumable
  <2>1. /\ level' = "fine" /\ UNCHANGED <<running, cleaning, status, poll, entry, file>>
        /\ lastMail' = [lastMail EXCEPT !.excused = TRUE]
    BY <1>6 DEF ResetConsumable, link
  <2>2. lastMail' \in MailType /\ lastMail'.excused
    BY <2>1 DEF MailInv, MailTypes, MailType
  <2>3. QED
    BY <2>1, <2>2
    DEF MailInv, MailTypes, Levels, Recorded, Covers, Fresh, NewIsExcused, OnItsWay, MailDue, NoEntry
<1>7. CASE Push
  <2>1. status' = "zero" /\ UNCHANGED <<running, cleaning, level, poll, entry, file, lastMail>>
    BY <1>7 DEF Push, SetStatus, robot, mail
  <2>2. QED
    BY <2>1 DEF MailInv, MailTypes, Recorded, Covers, Fresh, NewIsExcused, OnItsWay, MailDue, NoEntry
<1>8. CASE Polls
  <2>1. /\ poll.pc = "idle" /\ running
        /\ UNCHANGED <<running, cleaning, level, status, entry, file, lastMail>>
    BY <1>8 DEF Polls, robot, mail
  <2>2. \/ poll' = poll
        \/ \E l \in {level, "none"} : poll' = [pc |-> "read", cleaning |-> cleaning, level |-> l]
    BY <1>8 DEF Polls, PollReads, PollFails
  <2>3. /\ poll' \in PollType /\ poll'.pc \in {"idle", "read"}
        /\ poll'.pc = "read" => poll'.level \in {level, "none"}
    BY <2>1, <2>2 DEF MailInv, MailTypes, PollType
  <2>4. QED
    BY <2>1, <2>3 DEF MailInv, MailTypes, Recorded, Covers, Fresh, NewIsExcused, OnItsWay
<1>9. CASE PollUpdates
  BY <1>9, PollUpdatesKeepsMails
<1>10. CASE SendMail \/ MailFails \/ RecordMail
  BY <1>10, MailKeepsMails
<1>11. QED
  BY <1>1, <1>2, <1>3, <1>4, <1>5, <1>6, <1>7, <1>8, <1>9, <1>10 DEF Next

\* A part is mailed about once a day for each of its levels, through any number of
\* restarts, failed writes and failed mails that leave a record of the last one
\* (MaintenanceChecker, NotificationState).
THEOREM NoFlood == Spec => NoMailFlood
<1>1. Spec => []MailInv
  BY MailInit, MailStep, PTL DEF Spec
<1>2. ASSUME MailInv, SendMail \/ MailFails, lastMail.age < ADay, ~lastMail.excused
      PROVE  Severity[lastMail.level] < Severity[poll.level]
  <2>1. poll.pc = "mail" /\ running /\ Fresh
    BY <1>2 DEF SendMail, MailFails, MailInv, OnItsWay, Fresh
  <2>2. Covers(entry) /\ MailDue(entry, poll.level)
    BY <1>2, <2>1 DEF MailInv, Recorded, OnItsWay
  <2>3. entry.level # "none" /\ entry.age < ADay
    BY <1>2, <2>2, DayIsPositive DEF Covers, MailInv, MailTypes, EntryType, MailType
  <2>4. Severity[entry.level] < Severity[poll.level]
    BY <2>2, <2>3, DayIsPositive DEF MailDue, NoEntry
  <2>5. /\ Severity[entry.level] \in Nat /\ Severity[poll.level] \in Nat
        /\ Severity[lastMail.level] \in Nat
    BY <1>2 DEF MailInv, MailTypes, EntryType, PollType, MailType, Levels, Severity
  <2>6. QED
    BY <2>2, <2>4, <2>5 DEF Covers
<1>3. MailInv /\ [Next]_vars =>
        [(SendMail \/ MailFails) /\ lastMail.age < ADay /\ ~lastMail.excused
         => Severity[lastMail.level] < Severity[poll.level]]_vars
  BY <1>2
<1>4. QED
  BY <1>1, <1>3, PTL DEF Spec, NoMailFlood
=============================================================================
