-------------------------- MODULE AutoUpdateProofs --------------------------
(***************************************************************************)
(* What TLAPS proves of AutoUpdate: the cooldown of a release that was     *)
(* tried, and the window that is announced, for clocks, windows and        *)
(* cooldowns of any length and any number of releases, restarts and        *)
(* changed settings.                                                       *)
(***************************************************************************)
EXTENDS AutoUpdate, WellFoundedInduction, TLAPS

ReleaseType == [channel : Channels \cup {"none"}, version : Nat]
LatestType == [release : ReleaseType, age : Nat]
DiagnosticsType == [checked : Nat, version : ReleaseType, attempt : Nat]
StepType == [pc : {"idle", "install", "record"}, release : ReleaseType]
TryType == [release : ReleaseType, age : Nat, excused : BOOLEAN]

RetryTypes ==
    /\ settings.channel \in Channels
    /\ released \in [Channels -> Nat] /\ age \in [Channels -> Nat]
    /\ latest \in LatestType /\ diagnostics \in DiagnosticsType
    /\ step \in StepType /\ try \in TryType

Fresh == try.age < RetryCooldown /\ ~try.excused
Known(r) == r.channel \in Channels => r.version <= released[r.channel]
Newer(a, b) == a.channel = b.channel /\ a.version > b.version

\* What the scheduler remembers is what it has recorded, and was published.
Remembered ==
    /\ latest.release \in {None, diagnostics.version} /\ Known(diagnostics.version)
    /\ step.pc # "idle" => latest.release = step.release

\* The record of the last attempt: no older than the attempt, and of its
\* release, or of one that has replaced it in its channel.
Recorded ==
    Fresh => IF step.pc = "record" THEN try.release = step.release
             ELSE /\ diagnostics.attempt <= try.age
                  /\ \/ diagnostics.version = try.release
                     \/ Newer(diagnostics.version, try.release)
                     \/ settings.channel # try.release.channel

Untried == Fresh /\ step.pc = "install" => try.release # step.release

RetryInv == RetryTypes /\ Remembered /\ Recorded /\ Untried

LEMMA Limits ==
  /\ RetryCooldown \in Nat /\ RetryCooldown > 0 /\ CheckInterval \in Nat /\ DelayHours \in Nat
BY UpdateAssumption

LEMMA OlderType ==
  ASSUME NEW a \in Nat, NEW limit \in Nat
  PROVE  Older(a, limit) \in Nat
BY DEF Older

LEMMA NoneType == None \in ReleaseType /\ None.channel = "none" /\ None.channel \notin Channels
BY DEF None, ReleaseType, Channels

\* The release a step considers is of the channel that is set, was published,
\* and is no older than what the diagnostics know.
LEMMA InfoIsCurrent ==
  ASSUME RetryInv
  PROVE  /\ Info \in ReleaseType /\ Info.channel = settings.channel /\ Known(Info)
         /\ diagnostics.version.channel = settings.channel =>
               Info.version >= diagnostics.version.version
<1> USE DEF RetryInv, RetryTypes
<1>1. CASE NeedsCheck
  <2>1. Info = [channel |-> settings.channel, version |-> released[settings.channel]]
    BY <1>1 DEF Info, Check, CheckEdge, CheckStable, Channels
  <2>2. QED
    BY <2>1 DEF Remembered, Known, ReleaseType, DiagnosticsType
<1>2. CASE ~NeedsCheck
  <2>1. Info = latest.release /\ latest.release.channel = settings.channel
    BY <1>2 DEF Info, NeedsCheck
  <2>2. latest.release = diagnostics.version
    BY <2>1, NoneType DEF Remembered
  <2>3. QED
    BY <2>1, <2>2 DEF Remembered, ReleaseType, DiagnosticsType
<1>3. QED
  BY <1>1, <1>2

\* A check replaces the release that is remembered and recorded.
LEMMA CheckKeepsRecord ==
  ASSUME RetryInv, Checked, UNCHANGED <<settings, released, age, try>>,
         step' \in StepType, step'.pc # "record", step.pc = "idle"
  PROVE  /\ latest' \in LatestType /\ diagnostics' \in DiagnosticsType
         /\ latest'.release = Info \/ UNCHANGED <<latest, diagnostics>>
         /\ latest'.release \in {None, diagnostics'.version} /\ Known(diagnostics'.version)
         /\ Recorded'
<1> USE DEF RetryInv, RetryTypes
<1>1. CASE NeedsCheck
  <2>1. /\ latest' = [release |-> Info, age |-> InfoAge]
        /\ diagnostics' = [diagnostics EXCEPT !.checked = 0, !.version = Info]
    BY <1>1 DEF Checked, persistLocked
  <2>2. InfoAge \in Nat
    BY <1>1 DEF InfoAge
  <2>3. /\ latest' \in LatestType /\ latest'.release = Info
        /\ diagnostics' \in DiagnosticsType /\ diagnostics'.version = Info
        /\ diagnostics'.attempt = diagnostics.attempt
    BY <2>1, <2>2, InfoIsCurrent DEF LatestType, DiagnosticsType
  <2>4. ASSUME Fresh, settings.channel = try.release.channel
        PROVE  Info = try.release \/ Newer(Info, try.release)
    BY <2>4, InfoIsCurrent
    DEF Recorded, Newer, ReleaseType, TryType, DiagnosticsType
  <2>5. Recorded'
    BY <2>3, <2>4 DEF Recorded, Fresh, Newer
  <2>6. QED
    BY <2>3, <2>5, InfoIsCurrent
<1>2. CASE ~NeedsCheck
  <2>1. UNCHANGED <<latest, diagnostics>>
    BY <1>2 DEF Checked
  <2>2. QED
    BY <2>1 DEF Remembered, Recorded, Fresh, Newer, Known
<1>3. QED
  BY <1>1, <1>2

LEMMA StepKeepsRetry ==
  ASSUME RetryInv, StepDefers \/ StepFails \/ StepDecides
  PROVE  RetryInv'
<1>1. /\ step.pc = "idle" /\ UNCHANGED <<settings, released, age, try>>
      /\ step' = step \/ (StepDecides /\ step' = [pc |-> "install", release |-> Info])
      /\ Checked \/ UNCHANGED <<latest, diagnostics>>
      /\ StepDecides => Checked
  BY DEF StepDefers, StepFails, StepDecides, world
<1>2. step' \in StepType /\ step'.pc # "record"
  BY <1>1, InfoIsCurrent DEF RetryInv, RetryTypes, StepType
<1>3. CASE Checked
  <2>1. /\ latest' \in LatestType /\ diagnostics' \in DiagnosticsType
        /\ latest'.release = Info \/ UNCHANGED <<latest, diagnostics>>
        /\ latest'.release \in {None, diagnostics'.version} /\ Known(diagnostics'.version)
        /\ Recorded'
    BY <1>1, <1>2, <1>3, CheckKeepsRecord
  <2>2. RetryTypes'
    BY <1>1, <1>2, <2>1 DEF RetryInv, RetryTypes
  <2>3. step'.pc # "idle" => latest'.release = Info /\ step'.release = Info
    <3>1. UNCHANGED <<latest, diagnostics>> => Info = latest.release
      BY <1>3, <2>1, InfoIsCurrent, NoneType
      DEF Checked, Info, NeedsCheck, persistLocked, LatestType
    <3>2. QED
      BY <1>1, <2>1, <3>1
  <2>4. Remembered'
    BY <1>1, <2>1, <2>3 DEF Remembered, Known
  <2>5. Untried'
    <3>1. ASSUME StepDecides, Fresh, Info = try.release
          PROVE  FALSE
      <4>1. diagnostics.attempt < RetryCooldown
        BY <1>1, <3>1, Limits
        DEF RetryInv, RetryTypes, Recorded, Fresh, DiagnosticsType, TryType
      <4>2. settings.channel = try.release.channel
        BY <3>1, InfoIsCurrent
      <4>3. diagnostics.version = try.release
        BY <1>1, <3>1, <4>2, InfoIsCurrent
        DEF RetryInv, RetryTypes, Recorded, Newer, DiagnosticsType, TryType, ReleaseType
      <4>4. Cooling
        BY <3>1, <4>1, <4>3 DEF Cooling
      <4>5. QED
        BY <3>1, <4>4 DEF StepDecides, Proceeds
    <3>2. QED
      BY <1>1, <3>1 DEF Untried, Fresh
  <2>6. QED
    BY <2>1, <2>2, <2>4, <2>5 DEF RetryInv
<1>4. CASE ~Checked
  <2>1. step' = step /\ UNCHANGED <<latest, diagnostics>>
    BY <1>1, <1>4
  <2>2. QED
    BY <1>1, <2>1
    DEF RetryInv, RetryTypes, Remembered, Known, Recorded, Fresh, Newer, Untried
<1>5. QED
  BY <1>3, <1>4

\* Install and recordAttempt
LEMMA AttemptKeepsRetry ==
  ASSUME RetryInv, Install \/ RecordAttempt
  PROVE  RetryInv'
<1> USE DEF RetryInv, RetryTypes
<1>1. CASE Install
  <2>1. /\ step.pc = "install" /\ step' = [step EXCEPT !.pc = "record"]
        /\ try' = [release |-> step.release, age |-> 0, excused |-> FALSE]
        /\ UNCHANGED <<settings, released, age, latest, diagnostics>>
    BY <1>1 DEF Install, world
  <2>2. step' \in StepType /\ step'.pc = "record" /\ step'.release = step.release
    BY <2>1 DEF StepType
  <2>3. try' \in TryType /\ try'.release = step.release
    BY <2>1 DEF StepType, TryType
  <2>4. QED
    BY <2>1, <2>2, <2>3 DEF Remembered, Known, Recorded, Untried
<1>2. CASE RecordAttempt
  <2>1. /\ step.pc = "record" /\ step' = NoStep
        /\ diagnostics' = [diagnostics EXCEPT !.attempt = 0, !.version = step.release]
        /\ UNCHANGED <<settings, released, age, latest, try>>
    BY <1>2 DEF RecordAttempt, persistLocked, world
  <2>2. step' \in StepType /\ step'.pc = "idle"
    BY <2>1, NoneType DEF NoStep, StepType
  <2>3. /\ diagnostics' \in DiagnosticsType /\ diagnostics'.version = step.release
        /\ diagnostics'.attempt = 0
    BY <2>1 DEF StepType, DiagnosticsType
  <2>4. latest'.release = diagnostics'.version /\ Known(diagnostics'.version)
    BY <2>1, <2>3, NoneType DEF Remembered, Known
  <2>5. Recorded'
    BY <2>1, <2>2, <2>3 DEF Recorded, Fresh, TryType
  <2>6. QED
    <3>1. Remembered'
      BY <2>1, <2>2, <2>4 DEF Remembered, Known
    <3>2. RetryTypes' /\ Untried'
      BY <2>1, <2>2, <2>3 DEF Untried
    <3>3. QED
      BY <2>5, <3>1, <3>2
<1>3. QED
  BY <1>1, <1>2

\* the start of another process
LEMMA NewSchedulerKeepsRetry ==
  ASSUME RetryInv, NewScheduler, UNCHANGED <<settings, released, age>>
  PROVE  RetryInv'
<1> USE DEF RetryInv, RetryTypes
<1>1. latest' \in LatestType /\ latest'.release = None
  BY NoneType DEF NewScheduler, NotChecked, LatestType
<1>2. step' \in StepType /\ step'.pc = "idle"
  BY NoneType DEF NewScheduler, NoStep, StepType
<1>3. /\ try' \in TryType /\ try'.release = try.release /\ try'.age = try.age
      /\ (try'.excused <=> try.excused \/ step.pc = "record")
  BY DEF NewScheduler, TryType
<1>4. diagnostics' = diagnostics
  BY DEF NewScheduler
<1>5. QED
  BY <1>1, <1>2, <1>3, <1>4 DEF Remembered, Known, Recorded, Fresh, Newer, Untried

LEMMA TickKeepsRetry ==
  ASSUME RetryInv, Tick
  PROVE  RetryInv'
<1> USE DEF RetryInv, RetryTypes
<1>1. step.pc = "idle" /\ UNCHANGED <<settings, released, step>>
  BY DEF Tick
<1>2. age' \in [Channels -> Nat]
  BY Limits DEF Tick, Older
<1>3. latest' \in LatestType /\ latest'.release = latest.release
  BY Limits, OlderType DEF Tick, LatestType
<1>4. /\ diagnostics' \in DiagnosticsType /\ diagnostics'.version = diagnostics.version
      /\ diagnostics'.attempt = Older(diagnostics.attempt, RetryCooldown)
  BY Limits, OlderType DEF Tick, DiagnosticsType
<1>5. /\ try' \in TryType /\ try'.release = try.release /\ try'.excused = try.excused
      /\ try'.age = Older(try.age, RetryCooldown)
  BY Limits, OlderType DEF Tick, TryType
<1>6. Fresh' => Fresh /\ try'.age = try.age + 1
  BY <1>5, Limits DEF Fresh, Older, TryType
<1>7. Fresh' /\ diagnostics.attempt <= try.age => diagnostics'.attempt <= try'.age
  BY <1>4, <1>5, <1>6, Limits DEF Fresh, Older, TryType, DiagnosticsType
<1>8. Recorded'
  BY <1>1, <1>4, <1>5, <1>6, <1>7 DEF Recorded, Newer
<1>9. QED
  BY <1>1, <1>2, <1>3, <1>4, <1>5, <1>8 DEF Remembered, Known, Untried

LEMMA RetryInit == Init => RetryInv
<1> SUFFICES ASSUME Init PROVE RetryInv
  OBVIOUS
<1>1. latest \in LatestType /\ latest.release = None
  BY NoneType DEF Init, NotChecked, LatestType
<1>2. step \in StepType /\ step.pc = "idle"
  BY NoneType DEF Init, NoStep, StepType
<1>3. diagnostics \in DiagnosticsType /\ diagnostics.version = None
  BY NoneType, Limits DEF Init, DiagnosticsType
<1>4. try \in TryType /\ try.excused
  BY NoneType, Limits DEF Init, TryType
<1>5. /\ settings.channel \in Channels
      /\ released \in [Channels -> Nat] /\ age \in [Channels -> Nat]
  BY Limits DEF Init
<1>6. QED
  BY <1>1, <1>2, <1>3, <1>4, <1>5, NoneType
  DEF RetryInv, RetryTypes, Remembered, Known, Recorded, Fresh, Untried

LEMMA RetryStep ==
  ASSUME RetryInv, [Next]_vars
  PROVE  RetryInv'
<1>1. CASE Tick
  BY <1>1, TickKeepsRetry
<1>2. CASE StepDefers \/ StepFails \/ StepDecides
  BY <1>2, StepKeepsRetry
<1>3. CASE Install \/ RecordAttempt
  BY <1>3, AttemptKeepsRetry
<1>4. ASSUME UNCHANGED <<settings, released, age, latest, diagnostics, step, try>>
      PROVE  RetryInv'
  BY <1>4
  DEF RetryInv, RetryTypes, Remembered, Known, Recorded, Fresh, Newer, Untried
<1>5. CASE \/ ImageIsBuilt \/ RobotOrCommand \/ UNCHANGED vars
           \/ \E c \in Channels : InstallUpdate(c)
  BY <1>4, <1>5 DEF ImageIsBuilt, RobotOrCommand, InstallUpdate, scheduler, world, vars
<1>6. CASE Restart
  BY <1>6, NewSchedulerKeepsRetry DEF Restart, world
<1>7. CASE OperationEnds
  <2>1. UNCHANGED <<settings, released, age>>
    BY <1>7 DEF OperationEnds, world
  <2>2. NewScheduler \/ UNCHANGED <<latest, step, try, diagnostics>>
    BY <1>7 DEF OperationEnds
  <2>3. QED
    BY <1>4, <2>1, <2>2, NewSchedulerKeepsRetry
<1>8. ASSUME NEW c \in Channels, Publish(c)
      PROVE  RetryInv'
  <2>1. /\ released' = [released EXCEPT ![c] = @ + 1] /\ age' = [age EXCEPT ![c] = 0]
        /\ UNCHANGED <<settings, latest, diagnostics, step, try>>
    BY <1>8 DEF Publish, scheduler
  <2>2. /\ released' \in [Channels -> Nat] /\ age' \in [Channels -> Nat]
        /\ \A d \in Channels : released'[d] >= released[d]
    BY <2>1 DEF RetryInv, RetryTypes
  <2>3. Known(diagnostics.version)'
    BY <2>1, <2>2
    DEF RetryInv, RetryTypes, Remembered, Known, DiagnosticsType, ReleaseType
  <2>4. QED
    BY <2>1, <2>2, <2>3
    DEF RetryInv, RetryTypes, Remembered, Recorded, Fresh, Newer, Untried
<1>9. ASSUME NEW s \in Settings, SystemSaveUpdateSettings(s)
      PROVE  RetryInv'
  <2>1. /\ settings' = s /\ UNCHANGED <<released, age, latest, diagnostics, step>>
        /\ try' = [try EXCEPT !.excused = @ \/ s.channel # settings.channel]
    BY <1>9 DEF SystemSaveUpdateSettings, SaveUpdateConfig, world
  <2>2. /\ try' \in TryType /\ try'.release = try.release /\ try'.age = try.age
        /\ (try'.excused <=> try.excused \/ s.channel # settings.channel)
    BY <2>1 DEF RetryInv, RetryTypes, TryType
  <2>3. settings'.channel \in Channels
    BY <2>1 DEF Settings
  <2>4. QED
    BY <2>1, <2>2, <2>3
    DEF RetryInv, RetryTypes, Remembered, Known, Recorded, Fresh, Newer, Untried
<1>10. QED
  BY <1>1, <1>2, <1>3, <1>5, <1>6, <1>7, <1>8, <1>9 DEF Next

\* Automatic attempts at a release keep the cooldown, through restarts and
\* changed modes, for any sizes (Step, recordAttempt).
THEOREM RetriesWait == Spec => NoEarlyRetry
<1>1. Spec => []RetryInv
  BY RetryInit, RetryStep, PTL DEF Spec
<1>2. RetryInv /\ [Next]_vars =>
        [Install => \/ try.release # step.release
                    \/ try.excused
                    \/ try.age >= RetryCooldown]_vars
  BY Limits DEF RetryInv, RetryTypes, Untried, Fresh, Install, TryType
<1>3. QED
  BY <1>1, <1>2, PTL DEF Spec, NoEarlyRetry

-----------------------------------------------------------------------------
(***************************************************************************)
(* The window that is announced.  Days and hours are quotients and         *)
(* remainders of lengths that are not fixed, so the arithmetic comes first.*)
(***************************************************************************)
\* A product grows with its factor.
LEMMA Monotone ==
  ASSUME NEW a \in Int, NEW b \in Int, NEW n \in Nat, a <= b
  PROVE  a * n <= b * n
OBVIOUS

\* The day and the hour that make up a number of hours.
LEMMA DivMod ==
  ASSUME NEW t \in Nat, NEW n \in Nat \ {0}
  PROVE  /\ t \div n \in Nat /\ t % n \in 0 .. n - 1
         /\ t = ((t \div n) * n) + (t % n)
OBVIOUS

\* The day and the hour of an hour that is given by both.
LEMMA DivUnique ==
  ASSUME NEW d \in Nat, NEW n \in Nat \ {0}, NEW w \in 0 .. n - 1
  PROVE  (d * n + w) \div n = d /\ (d * n + w) % n = w
<1> DEFINE t == d * n + w
<1>1. t \in Nat
  OBVIOUS
<1> DEFINE q == t \div n
           r == t % n
<1>2. q \in Nat /\ r \in 0 .. n - 1 /\ t = q * n + r
  BY <1>1, DivMod
<1>3. t = d * n + w
  OBVIOUS
<1> HIDE DEF t, q, r
<1>4. ~(q >= d + 1)
  <2> SUFFICES ASSUME q >= d + 1 PROVE FALSE
    OBVIOUS
  <2>1. (d + 1) * n <= q * n
    BY <1>2, Monotone
  <2>2. (d + 1) * n = d * n + n
    OBVIOUS
  <2>3. d * n \in Nat /\ q * n \in Nat
    BY <1>2
  <2>4. QED
    BY <1>2, <1>3, <2>1, <2>2, <2>3
<1>5. ~(d >= q + 1)
  <2> SUFFICES ASSUME d >= q + 1 PROVE FALSE
    OBVIOUS
  <2>1. (q + 1) * n <= d * n
    BY <1>2, Monotone
  <2>2. (q + 1) * n = q * n + n
    BY <1>2
  <2>3. d * n \in Nat /\ q * n \in Nat
    BY <1>2
  <2>4. QED
    BY <1>2, <1>3, <2>1, <2>2, <2>3
<1>6. q = d
  BY <1>2, <1>4, <1>5
<1>7. r = w
  BY <1>2, <1>3, <1>6
<1>8. QED
  BY <1>6, <1>7 DEF q, r, t

\* A set of numbers has a least one, the one that CHOOSE picks.
LEMMA Least ==
  ASSUME NEW S \in SUBSET Nat, S # {}
  PROVE  \E c \in S : \A d \in S : c <= d
<1>1. \A x, y \in Nat : <<x, y>> \in OpToRel(<, Nat) <=> x < y
  BY DEF OpToRel
<1>2. PICK c \in S : \A d \in S : ~ (<<d, c>> \in OpToRel(<, Nat))
  BY NatLessThanWellFounded, WFMin
<1>3. ASSUME NEW d \in S PROVE c <= d
  <2>1. ~ (d < c)
    BY <1>1, <1>2
  <2>2. QED
    BY <2>1
<1>4. QED
  BY <1>3

\* From any hour there is a window to come on an allowed day within a week and a day.
LEMMA WindowToCome ==
  ASSUME NEW t \in Nat, AllowedDays # {}
  PROVE  \E c \in Candidates(t) : AllowedDay(c) /\ c <= t + (Week + 1) * DayLength
<1> DEFINE D == t \div DayLength
           q == (D + 1) \div Week
           r == (D + 1) % Week
<1>0. /\ DayLength \in Nat \ {0} /\ Week \in Nat \ {0}
      /\ WindowStart \in 0 .. DayLength - 1 /\ AllowedDays \subseteq 0 .. Week - 1
  BY UpdateAssumption
<1>1. D \in Nat /\ t % DayLength \in 0 .. DayLength - 1 /\ t = (D * DayLength) + (t % DayLength)
  BY <1>0, DivMod
<1>2. q \in Nat /\ r \in 0 .. Week - 1 /\ D + 1 = (q * Week) + r
  <2>1. D + 1 \in Nat
    BY <1>1
  <2> HIDE DEF D
  <2>2. QED
    BY <1>0, <2>1, DivMod
<1>3. PICK a \in AllowedDays : TRUE
  OBVIOUS
<1> HIDE DEF D, q, r
<1>4. \E d \in D + 1 .. D + Week : d \in Nat /\ d % Week = a
  <2>1. CASE a >= r
    <3>1. (q * Week + a) % Week = a
      BY <1>0, <1>2, <1>3, DivUnique
    <3>2. q * Week \in Nat
      BY <1>0, <1>2
    <3>3. q * Week + a \in D + 1 .. D + Week
      BY <1>0, <1>1, <1>2, <1>3, <2>1, <3>2
    <3>4. QED
      BY <1>0, <1>1, <3>1, <3>3
  <2>2. CASE a < r
    <3>1. ((q + 1) * Week + a) % Week = a
      <4>1. q + 1 \in Nat /\ a \in 0 .. Week - 1
        BY <1>0, <1>2, <1>3
      <4>2. QED
        BY <1>0, <4>1, DivUnique
    <3>2. q * Week \in Nat /\ (q + 1) * Week = q * Week + Week
      BY <1>0, <1>2
    <3>3. (q + 1) * Week + a \in D + 1 .. D + Week
      BY <1>0, <1>1, <1>2, <1>3, <2>2, <3>2
    <3>4. QED
      BY <1>0, <1>1, <3>1, <3>3
  <2>3. QED
    BY <1>0, <1>2, <1>3, <2>1, <2>2
<1>5. PICK d \in D + 1 .. D + Week : d \in Nat /\ d % Week = a
  BY <1>4
<1> DEFINE c == d * DayLength + WindowStart
<1>6. c \div DayLength = d
  BY <1>0, <1>5, DivUnique
<1>7. AllowedDay(c)
  BY <1>3, <1>5, <1>6 DEF AllowedDay
<1>8. c >= t /\ c <= t + (Week + 1) * DayLength
  <2>1. (D + 1) * DayLength <= d * DayLength /\ d * DayLength <= (D + Week) * DayLength
    BY <1>0, <1>1, <1>5, Monotone
  <2>2. /\ (D + 1) * DayLength = D * DayLength + DayLength
        /\ (D + Week) * DayLength = D * DayLength + Week * DayLength
        /\ (Week + 1) * DayLength = Week * DayLength + DayLength
        /\ D * DayLength \in Nat /\ Week * DayLength \in Nat /\ d * DayLength \in Nat
    BY <1>0, <1>1, <1>5
  <2>3. QED
    BY <1>0, <1>1, <2>1, <2>2
<1>9. c \in Candidates(t)
  <2>1. d \in D .. D + Week + 1
    BY <1>0, <1>1, <1>5
  <2>2. QED
    BY <1>8, <2>1 DEF Candidates, D
<1>10. QED
  BY <1>7, <1>8, <1>9

\* The start of a window on an allowed day is an hour at which the scheduler may install.
LEMMA CandidateEligible ==
  ASSUME NEW t \in Nat, NEW c \in Candidates(t), AllowedDay(c)
  PROVE  c \in Nat /\ c >= t /\ Eligible(c)
<1>0. /\ DayLength \in Nat \ {0} /\ {WindowStart, WindowEnd} \subseteq 0 .. DayLength - 1
      /\ Week \in Nat \ {0}
  BY UpdateAssumption
<1>1. t \div DayLength \in Nat
  BY <1>0, DivMod
<1>2. PICK d \in (t \div DayLength) .. (t \div DayLength) + Week + 1 :
        c = d * DayLength + WindowStart /\ c >= t
  BY DEF Candidates
<1>3. d \in Nat
  BY <1>0, <1>1
<1>4. c % DayLength = WindowStart /\ c \in Nat
  <2>1. (d * DayLength + WindowStart) % DayLength = WindowStart
    BY <1>0, <1>3, DivUnique
  <2>2. d * DayLength + WindowStart \in Nat
    BY <1>0, <1>3
  <2>3. QED
    BY <1>2, <2>1, <2>2
<1>5. InsideWindow(c % DayLength, WindowStart, WindowEnd)
  BY <1>0, <1>4 DEF InsideWindow
<1>6. QED
  BY <1>2, <1>4, <1>5 DEF Eligible

\* What NextEligibleWindow returns.
LEMMA NextWindow ==
  ASSUME NEW t \in Nat
  PROVE  LET next == NextEligibleWindow(t)
         IN  IF AllowedDays = {} THEN next = -1
             ELSE next \in t .. t + (Week + 1) * DayLength /\ Eligible(next)
<1> DEFINE allowed == {c \in Candidates(t) : AllowedDay(c)}
<1>1. CASE AllowedDays = {}
  <2>1. allowed = {}
    BY <1>1 DEF AllowedDay
  <2>2. QED
    BY <1>1, <2>1 DEF NextEligibleWindow
<1>2. CASE AllowedDays # {}
  <2>1. PICK w \in allowed : w <= t + (Week + 1) * DayLength
    BY <1>2, WindowToCome
  <2>2. \A c \in allowed : c \in Nat /\ c >= t /\ Eligible(c)
    BY CandidateEligible
  <2>3. \E c \in allowed : \A d \in allowed : c <= d
    BY <2>1, <2>2, Least
  <2> DEFINE next == CHOOSE c \in allowed : \A d \in allowed : c <= d
  <2>4. next \in allowed /\ \A d \in allowed : next <= d
    BY <2>3
  <2>5. NextEligibleWindow(t) = next
    BY <2>1 DEF NextEligibleWindow
  <2> HIDE DEF next, allowed
  <2>6. (Week + 1) * DayLength \in Nat
    BY UpdateAssumption
  <2>7. QED
    BY <1>2, <2>1, <2>2, <2>4, <2>5, <2>6
<1>3. QED
  BY <1>1, <1>2

\* NextEligibleWindow finds the next window in which Step may install, from
\* every hour of the week and for every window that can be configured.
THEOREM NextWindowServes == Spec => []NextWindowIsEligible
<1>1. DayLength * Week \in Nat \ {0}
  BY UpdateAssumption
<1> DEFINE IsHour == clock \in Nat
<1>2. Init => IsHour
  BY DEF Init
<1>3. IsHour /\ [Next]_vars => IsHour'
  <2>1. ASSUME clock \in Nat, Tick PROVE clock' \in Nat
    <3>1. clock + 1 \in Nat /\ clock' = (clock + 1) % (DayLength * Week)
      BY <2>1 DEF Tick
    <3>2. QED
      BY <1>1, <3>1, DivMod
  <2>2. ASSUME [Next]_vars, ~Tick PROVE clock' = clock
    BY <2>2 DEF Next, ImageIsBuilt, RobotOrCommand, Publish, InstallUpdate,
       SystemSaveUpdateSettings, StepDefers, StepFails, StepDecides, Install,
       RecordAttempt, Restart, OperationEnds, vars, time
  <2>3. QED
    BY <2>1, <2>2
<1>4. IsHour => NextWindowIsEligible
  BY NextWindow DEF NextWindowIsEligible
<1> HIDE DEF IsHour
<1>5. QED
  BY <1>2, <1>3, <1>4, PTL DEF Spec
=============================================================================
