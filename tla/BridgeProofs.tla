---------------------------- MODULE BridgeProofs ----------------------------
(***************************************************************************)
(* What TLAPS proves of Bridge: types and the retained commands, for any   *)
(* bases, robots, settings, outages, restarts and reconfigurations.        *)
(***************************************************************************)
EXTENDS Bridge, TLAPS

-----------------------------------------------------------------------------
(* Types *)

LEMMA AgedType ==
  ASSUME command \in [Commands -> Executions], ClientEnds
  PROVE  command' \in [Commands -> Executions]
<1>1. \A t \in Commands : Aged(command[t]) \in Executions
  BY DEF Aged, Executions
<1>2. QED
  BY <1>1 DEF ClientEnds

LEMMA DeliveredType ==
  ASSUME command \in [Commands -> Executions], NEW topics
  PROVE  Delivered(topics) \in [Commands -> Executions]
<1>1. \A t \in Commands : Delivered(topics)[t] \in Executions
  <2>1. SUFFICES ASSUME NEW t \in Commands PROVE Delivered(topics)[t] \in Executions
    OBVIOUS
  <2>2. command[t] \in Executions
    OBVIOUS
  <2>3. Delivered(topics)[t] =
          IF t \notin topics THEN command[t]
          ELSE CASE command[t] = "new" -> "ran" [] command[t] = "old" -> "again"
                 [] OTHER -> command[t]
    BY DEF Delivered
  <2>4. QED
    BY <2>2, <2>3 DEF Executions
<1>2. Delivered(topics) = [t \in Commands |-> Delivered(topics)[t]]
  BY DEF Delivered
<1>3. QED
  BY <1>1, <1>2

LEMMA SubscribesType ==
  ASSUME TypeOK, NEW topics \in SUBSET Commands, Subscribes(topics)
  PROVE  subs' \subseteq Commands /\ command' \in [Commands -> Executions]
<1>1. subs' = subs \cup topics /\ command' \in {command, Delivered(topics)}
  BY DEF Subscribes
<1>2. command \in [Commands -> Executions] /\ subs \subseteq Commands
  BY DEF TypeOK
<1>3. QED
  BY <1>1, <1>2, DeliveredType

LEMMA TypeInit ==
  ASSUME Init
  PROVE  TypeOK
<1> USE DEF Settings, vars, files, memory, link, broker
<1>1. session \in [login : BOOLEAN, robots : SUBSET Robots] /\ ledger \subseteq Topics
  BY DEF Init, NewRetainedTopicLedger
<1>2. job \in Jobs
  BY DEF NoJob, Jobs, Init, JobSteps
<1>3. marker \in [Bases -> {"absent", "0", "1"}] /\ command \in [Commands -> Executions]
  BY DEF Init, Executions
<1>4. events \in 0 .. MaxEvents
  BY BridgeAssumption DEF Init
<1>5. /\ saved \in Settings /\ cfg \in Settings /\ draft = "none" /\ account = Robots
      /\ devices = {} /\ managed = {} /\ login = FALSE /\ health = FALSE /\ reachable = TRUE
      /\ process = "up" /\ client = NoClient /\ handler = NoHandler /\ subs = {}
      /\ beat = "off" /\ wills = {} /\ retained = {}
  BY DEF Init
<1>6. QED
  BY <1>1, <1>2, <1>3, <1>4, <1>5 DEF TypeOK, NoHandler

LEMMA TypeStep ==
  ASSUME TypeOK, [Next]_vars
  PROVE  TypeOK'
<1> USE DEF Settings, vars, files, memory, link, broker
<1>1. ASSUME NEW robots \in SUBSET Robots, Main(robots) PROVE TypeOK'
  <2>1. job' = job \/ job' = [NoJob EXCEPT !.kind = "start", !.pc = "cleanup"]
    BY <1>1 DEF Main, StartBridge
  <2>2. job' \in Jobs
    BY <2>1 DEF NoJob, Jobs, JobSteps, TypeOK
  <2>3. session' = session \/ session' = [login |-> TRUE, robots |-> robots]
    BY <1>1 DEF Main, SaveSession
  <2>4. session' \in [login : BOOLEAN, robots : SUBSET Robots]
    <3>1. [login |-> TRUE, robots |-> robots] \in [login : BOOLEAN, robots : SUBSET Robots]
      OBVIOUS
    <3>2. QED
      BY <2>3, <3>1 DEF TypeOK
  <2>5. login' \in BOOLEAN /\ devices' \subseteq Robots
    BY <1>1 DEF Main, LoadSession, TypeOK
  <2>6. managed' \subseteq Robots /\ cfg' \in Settings /\ process' = "up"
    BY <1>1 DEF Main, LoadConfig, StartBridge, NewDeviceManager, TypeOK
  <2>7. UNCHANGED <<saved, ledger, account, draft, health, beat, link, broker, events>>
    BY <1>1 DEF Main
  <2>8. QED
    BY <2>2, <2>4, <2>5, <2>6, <2>7 DEF TypeOK
<1>2. ASSUME NEW robots \in SUBSET Robots, AccountChanges(robots) PROVE TypeOK'
  BY <1>2, BridgeAssumption DEF AccountChanges, Event, TypeOK
<1>3. ASSUME NEW d \in BOOLEAN, AuthLogin(d) PROVE TypeOK'
  <2>1. job' = job \/ job' = [NoJob EXCEPT !.kind = "start", !.pc = "cleanup"]
    BY <1>3 DEF AuthLogin, StartBridge
  <2>2. job' \in Jobs
    BY <2>1 DEF NoJob, Jobs, JobSteps, TypeOK
  <2>3. /\ devices' \subseteq Robots /\ login' = TRUE
        /\ session' = [login |-> TRUE, robots |-> devices']
        /\ managed' \subseteq Robots
    BY <1>3 DEF AuthLogin, CodeLogin, SaveSession, StartBridge, NewDeviceManager, TypeOK
  <2>4. events' \in 0 .. MaxEvents
    BY <1>3, BridgeAssumption DEF AuthLogin, Event, TypeOK
  <2>5. UNCHANGED <<saved, ledger, account, process, cfg, draft, health, beat, link, broker>>
    BY <1>3 DEF AuthLogin
  <2>6. QED
    BY <2>2, <2>3, <2>4, <2>5 DEF TypeOK
<1>4. CASE ClearSession
  <2>1. /\ session' = [login |-> FALSE, robots |-> {}] /\ login' \in BOOLEAN
        /\ UNCHANGED <<saved, ledger, account, process, cfg, devices, managed, job, draft, health,
                       beat, link, broker>>
    BY <1>4 DEF ClearSession
  <2>2. events' \in 0 .. MaxEvents
    BY <1>4, BridgeAssumption DEF ClearSession, Event, TypeOK
  <2>3. session' \in [login : BOOLEAN, robots : SUBSET Robots]
    <3>1. [login |-> FALSE, robots |-> {}] \in [login : BOOLEAN, robots : SUBSET Robots]
      OBVIOUS
    <3>2. QED
      BY <2>1, <3>1
  <2>4. QED
    BY <2>1, <2>2, <2>3 DEF TypeOK
<1>5. CASE ReadsSettings
  BY <1>5, BridgeAssumption DEF ReadsSettings, Event, RuntimeSettingsSnapshot, TypeOK
<1>6. CASE RequestCodeSaves
  BY <1>6 DEF RequestCodeSaves, SaveRuntimeSettings, TypeOK
<1>7. ASSUME NEW s \in Settings, ApplyRuntimeSettings(s), draft' \in {draft, "none"},
           events' \in 0 .. MaxEvents
    PROVE  TypeOK'
  <2>1. job' \in Jobs /\ saved' = s /\ cfg' = s
    BY <1>7 DEF NoJob, Jobs, ApplyRuntimeSettings, SaveRuntimeSettings, JobSteps
  <2>2. UNCHANGED <<session, ledger, account, process, login, devices, managed, health, beat,
                    link, broker>>
    BY <1>7 DEF ApplyRuntimeSettings
  <2>3. QED
    BY <2>1, <2>2, <1>7 DEF TypeOK
<1>8. CASE RotateDirectToken
  BY <1>8, <1>7 DEF RotateDirectToken, TypeOK
<1>9. ASSUME NEW s \in Settings, SetupSave(s) PROVE TypeOK'
  BY <1>9, <1>7, BridgeAssumption DEF SetupSave, Event, TypeOK
<1>10. CASE Reconcile("cleanup", "sweep") \/ Reconcile("reconcile", "delete")
  <2>1. Enabled => ExpectedRetainedTopics \subseteq Topics
    BY DEF Enabled, ExpectedRetainedTopics, Topics, TypeOK
  <2>2. \E pc \in {"sweep", "delete"} :
           \/ job' = [job EXCEPT !.pc = pc, !.stale = ledger \ ExpectedRetainedTopics]
           \/ job' = [job EXCEPT !.pc = pc]
    BY <1>10 DEF Reconcile, Goto
  <2>3. ledger \ ExpectedRetainedTopics \subseteq Topics
    BY DEF TypeOK
  <2>4. job' \in Jobs
    BY <2>2, <2>3 DEF Jobs, JobSteps, TypeOK
  <2>5. ledger' \subseteq Topics
    BY <1>10, <2>1 DEF Reconcile, TypeOK
  <2>6. UNCHANGED <<saved, session, account, process, memory, draft, health, beat, link, broker,
                    events>>
    BY <1>10 DEF Reconcile
  <2>7. QED
    BY <2>6, <2>4, <2>5 DEF TypeOK
<1>11. CASE DeleteStale("sweep", "stop") \/ DeleteStale("delete", "republish")
  <2>1. \E pc \in {"stop", "republish"} : job' = [job EXCEPT !.pc = pc, !.stale = {}]
    BY <1>11 DEF DeleteStale
  <2>2. job' \in Jobs
    BY <2>1 DEF Jobs, JobSteps, TypeOK
  <2>3. retained' \subseteq Bases \X Robots
    BY <1>11 DEF DeleteStale, TypeOK
  <2>4. \/ marker' = marker
        \/ marker' = [b \in Bases |-> IF <<b, "_bridge">> \in job.stale THEN "absent"
                                      ELSE marker[b]]
    BY <1>11 DEF DeleteStale
  <2>5. marker' \in [Bases -> {"absent", "0", "1"}]
    BY <2>4 DEF TypeOK
  <2>6. UNCHANGED <<files, account, process, memory, draft, health, beat, link, reachable, wills,
                    command, events>>
    BY <1>11 DEF DeleteStale
  <2>7. QED
    BY <2>2, <2>5, <2>6, <2>3 DEF TypeOK
<1>12. CASE StopPublishes
  <2>1. job' \in Jobs /\ marker' \in [Bases -> {"absent", "0", "1"}]
    BY <1>12 DEF Jobs, StopPublishes, Goto, JobSteps, TypeOK
  <2>2. UNCHANGED <<files, account, process, memory, draft, health, beat, link, reachable, wills,
                    retained, command, events>>
    BY <1>12 DEF StopPublishes
  <2>3. QED
    BY <2>1, <2>2 DEF TypeOK
<1>13. CASE StopCloses
  <2>1. \E pc \in {"exit", "connect"} : job' = [job EXCEPT !.pc = pc]
    BY <1>13 DEF StopCloses, Goto
  <2>2. job' \in Jobs
    BY <2>1 DEF Jobs, JobSteps, TypeOK
  <2>3. command' \in [Commands -> Executions]
    BY <1>13, AgedType DEF StopCloses, TypeOK
  <2>4. /\ client' = NoClient /\ subs' = {} /\ handler' = NoHandler
        /\ UNCHANGED <<files, account, process, memory, draft, health, beat, reachable, wills,
                       retained, marker, events>>
    BY <1>13 DEF StopCloses, ClientEnds
  <2>5. QED
    BY <2>2, <2>3, <2>4 DEF TypeOK, NoHandler
<1>14. CASE Connect
  <2>1. \E pc \in {"republish", "set"} : job' = [job EXCEPT !.pc = pc]
    BY <1>14 DEF Connect, Goto
  <2>2. job' \in Jobs
    BY <2>1 DEF Jobs, JobSteps, TypeOK
  <2>3. client' = client \/ client' \in [link : {"up", "retrying"}, base : Bases]
    BY <1>14 DEF Connect, Enabled, TypeOK
  <2>4. handler' = handler \/ handler' = [NoHandler EXCEPT !.state = "started"]
    BY <1>14 DEF Connect
  <2>5. UNCHANGED <<files, account, process, memory, draft, health, beat, subs, broker, events>>
    BY <1>14 DEF Connect
  <2>6. QED
    BY <2>2, <2>3, <2>4, <2>5 DEF NoHandler, TypeOK
<1>15. CASE Clear
  <2>1. job' \in Jobs /\ command' \in [Commands -> Executions]
    BY <1>15 DEF Jobs, Clear, JobSteps, Executions, TypeOK
  <2>2. UNCHANGED <<files, account, process, memory, draft, health, beat, link, reachable, wills,
                    retained, marker, events>>
    BY <1>15 DEF Clear
  <2>3. QED
    BY <2>1, <2>2 DEF TypeOK
<1>16. CASE SubscribeToSet \/ Subscribe
  <2>1. \E pc \in {"clear", "reconcile"} : job' = [job EXCEPT !.pc = pc]
    BY <1>16 DEF SubscribeToSet, Subscribe, Goto
  <2>2. job' \in Jobs
    BY <2>1 DEF Jobs, JobSteps, TypeOK
  <2>3. \E topics \in SUBSET Commands : Subscribes(topics)
    BY <1>16 DEF SubscribeToSet, Subscribe, Commands, Enabled, TypeOK
  <2>4. subs' \subseteq Commands /\ command' \in [Commands -> Executions]
    BY <2>3, SubscribesType
  <2>5. UNCHANGED <<files, account, process, memory, draft, health, beat, client, handler,
                    reachable, wills, retained, marker, events>>
    BY <1>16 DEF SubscribeToSet, Subscribe
  <2>6. QED
    BY <2>2, <2>4, <2>5 DEF TypeOK
<1>17. CASE Republish \/ Seed
  <2>1. job' = NoJob \/ job' = [job EXCEPT !.pc = "seed"]
    BY <1>17 DEF Republish, Seed
  <2>2. job' \in Jobs
    BY <2>1 DEF NoJob, Jobs, JobSteps, TypeOK
  <2>3. retained' \subseteq Bases \X Robots
    BY <1>17 DEF Republish, Seed, PublishAll, Enabled, TypeOK
  <2>4. health' \in BOOLEAN
    BY <1>17 DEF Republish, Seed, startHealthPublisher, TypeOK
  <2>5. UNCHANGED <<files, account, process, memory, draft, beat, link, reachable, wills, marker,
                    command, events>>
    BY <1>17 DEF Republish, Seed
  <2>6. QED
    BY <2>2, <2>3, <2>4, <2>5 DEF TypeOK
<1>18. CASE HealthStops
  <2>1. job' = [job EXCEPT !.pc = "stop"]
    BY <1>18 DEF HealthStops, Goto
  <2>2. job' \in Jobs
    BY <2>1 DEF Jobs, JobSteps, TypeOK
  <2>3. /\ health' \in BOOLEAN
        /\ UNCHANGED <<files, account, process, memory, draft, beat, link, broker, events>>
    BY <1>18 DEF HealthStops
  <2>4. QED
    BY <2>2, <2>3 DEF TypeOK
<1>19. CASE Crash \/ Exit
  <2>1. /\ job' \in Jobs /\ process' = "down" /\ cfg' = "off" /\ login' = FALSE /\ devices' = {}
        /\ managed' = {} /\ draft' = "none" /\ health' = FALSE /\ beat' = "off"
        /\ client' = NoClient /\ subs' = {} /\ handler' = NoHandler
        /\ UNCHANGED <<files, account, reachable, retained, marker>>
    BY <1>19 DEF NoJob, Jobs, JobSteps, Crash, Exit, Forget, ClientEnds
  <2>2. wills' \subseteq Bases /\ events' \in 0 .. MaxEvents
    BY <1>19, BridgeAssumption DEF Crash, Exit, Event, NoClient, TypeOK
  <2>3. command' \in [Commands -> Executions]
    BY <1>19, AgedType DEF Crash, Exit, Forget, TypeOK
  <2>4. QED
    BY <2>1, <2>2, <2>3 DEF TypeOK, NoHandler
<1>20. ASSUME NEW r \in Robots, PublishState(r) PROVE TypeOK'
  BY <1>20 DEF PublishState, Enabled, TypeOK
<1>21. CASE BeatBegins
  BY <1>21 DEF BeatBegins, TypeOK
<1>22. CASE BeatPublishes
  BY <1>22 DEF BeatPublishes, TypeOK
<1>23. ASSUME NEW t \in Commands, PostCommand(t) PROVE TypeOK'
  <2>1. command' \in [Commands -> Executions]
    BY <1>23 DEF PostCommand, Executions, TypeOK
  <2>2. QED
    BY <1>23, <2>1, BridgeAssumption DEF PostCommand, Event, TypeOK
<1>24. ASSUME NEW b \in Bases, FireWill(b) PROVE TypeOK'
  BY <1>24 DEF FireWill, TypeOK
<1>25. CASE OnConnectReads
  <2>1. handler' \in [state : {"none", "started", "read"}, base : Settings,
                      subs : SUBSET Commands]
    BY <1>25 DEF OnConnectReads, NoClient, TypeOK
  <2>2. QED
    BY <1>25, <2>1 DEF OnConnectReads, TypeOK
<1>26. CASE OnConnectActs
  <2>1. /\ marker' \in [Bases -> {"absent", "0", "1"}]
        /\ command' \in [Commands -> Executions]
    BY <1>26, DeliveredType DEF OnConnectActs, TypeOK
  <2>2. QED
    BY <1>26, <2>1 DEF OnConnectActs, NoHandler, TypeOK
<1>27. CASE Outage
  <2>1. events' \in 0 .. MaxEvents
    BY <1>27, BridgeAssumption DEF Outage, Event, TypeOK
  <2>2. reachable' \in BOOLEAN
    BY <1>27 DEF Outage
  <2>3. wills' \subseteq Bases
    BY <1>27 DEF Outage, NoClient, TypeOK
  <2>4. client' = client \/ client' \in [link : {"up", "retrying"}, base : Bases]
    BY <1>27 DEF Outage, NoClient, TypeOK
  <2>5. UNCHANGED <<files, account, process, memory, job, draft, health, beat, subs, handler,
              retained, marker, command>>
    BY <1>27 DEF Outage
  <2>6. QED
    BY <2>2, <2>1, <2>3, <2>4, <2>5 DEF TypeOK
<1>28. CASE OutageEnds
  BY <1>28 DEF OutageEnds, TypeOK
<1>29. CASE LibraryReconnects
  BY <1>29 DEF LibraryReconnects, NoClient, NoHandler, TypeOK
<1>30. CASE Shutdown
  <2>1. job' = [NoJob EXCEPT !.kind = "shutdown", !.pc = "health"]
    BY <1>30 DEF Shutdown
  <2>2. job' \in Jobs
    BY <2>1 DEF NoJob, Jobs, JobSteps
  <2>3. events' \in 0 .. MaxEvents
    BY <1>30, BridgeAssumption DEF Shutdown, Event, TypeOK
  <2>4. QED
    BY <1>30, <2>2, <2>3 DEF Shutdown, TypeOK
<1>31. CASE UNCHANGED vars
  BY <1>31 DEF TypeOK
<1>32. QED
  BY <1>1, <1>2, <1>3, <1>4, <1>5, <1>6, <1>8, <1>9, <1>10, <1>11, <1>12, <1>13, <1>14, <1>15,
     <1>16, <1>17, <1>18, <1>19, <1>20, <1>21, <1>22, <1>23, <1>24, <1>25, <1>26, <1>27, <1>28,
     <1>29, <1>30, <1>31
  DEF Next, Configure

\* Every file, every field of the process and every topic keeps its type, for
\* any bases, robots and settings: no step publishes under, or connects with,
\* the base of a bridge whose local MQTT is off.
THEOREM TypeCorrect == Spec => []TypeOK
BY TypeInit, TypeStep, PTL DEF Spec

-----------------------------------------------------------------------------
(* The retained commands for Loxone *)

Loxone == Bases \X {"loxone"}

\* From the close of the old client to its own subscription a reconfiguration has
\* none for Loxone, and none that onConnect could restore; from the moment it has
\* connected one it has a client.
Unsubscribed ==
    /\ job.pc \in {"connect", "set", "clear", "subscribe"} =>
          (subs \cup handler.subs) \cap Loxone = {}
    /\ job.pc \in {"set", "clear", "subscribe"} => client.link \in {"up", "retrying"}

\* What the topic holds when it is subscribed to was deleted, or sent since, and so is
\* what it holds as long as the client lives.
Cleared ==
    /\ job.pc = "subscribe" /\ job.base \in Bases =>
          command[<<job.base, "loxone">>] \notin {"old", "again"}
    /\ \A t \in (subs \cup handler.subs) \cap Loxone : command[t] \notin {"old", "again"}
    /\ \A t \in Loxone : command[t] # "again"

CommandInv == TypeOK /\ Unsubscribed /\ Cleared

LEMMA OffIsNoBase == "off" \notin Bases
BY BridgeAssumption

LEMMA LoxoneIsCommand ==
  /\ Loxone \subseteq Commands
  /\ \A b \in Bases : <<b, "loxone">> \in Loxone
  /\ \A b : <<b, "set">> \notin Loxone
BY DEF Loxone, Commands

LEMMA CommandsUntouched ==
  ASSUME CommandInv, TypeOK', UNCHANGED <<job, handler, subs, client, command>>
  PROVE  CommandInv'
BY DEF CommandInv, Unsubscribed, Cleared

\* A job that begins, or goes on, away from the subscription
LEMMA AwayFromSubscribing ==
  ASSUME CommandInv, TypeOK', UNCHANGED <<handler, subs, client, command>>,
         job'.pc \notin {"connect", "set", "clear", "subscribe"}
  PROVE  CommandInv'
BY DEF CommandInv, Unsubscribed, Cleared

\* A client that ends leaves no subscription and nothing executed again.
LEMMA EndsKeepCommands ==
  ASSUME CommandInv, TypeOK', ClientEnds, job'.pc \notin {"set", "clear", "subscribe"}
  PROVE  CommandInv'
<1>1. subs' = {} /\ handler'.subs = {}
  BY DEF ClientEnds, NoHandler
<1>2. \A t \in Loxone : command'[t] # "again"
  <2>1. SUFFICES ASSUME NEW t \in Loxone PROVE command'[t] # "again"
    OBVIOUS
  <2>2. command'[t] = Aged(command[t]) /\ command[t] # "again"
    BY LoxoneIsCommand DEF ClientEnds, CommandInv, Cleared
  <2>3. QED
    BY <2>2 DEF Aged
<1>3. QED
  BY <1>1, <1>2 DEF CommandInv, Unsubscribed, Cleared

\* What is delivered of topics that hold nothing old is not executed again.
LEMMA DeliveryIsFresh ==
  ASSUME TypeOK, NEW topics, NEW t \in Commands,
         t \in topics => command[t] \notin {"old", "again"}
  PROVE  /\ command[t] \notin {"old", "again"} => Delivered(topics)[t] \notin {"old", "again"}
         /\ command[t] # "again" => Delivered(topics)[t] # "again"
<1>1. Delivered(topics)[t] =
        IF t \notin topics THEN command[t]
        ELSE CASE command[t] = "new" -> "ran" [] command[t] = "old" -> "again"
               [] OTHER -> command[t]
  BY DEF Delivered
<1>2. QED
  BY <1>1

LEMMA StartsKeepCommands ==
  ASSUME CommandInv, TypeOK',
         \/ \E robots \in SUBSET Robots : Main(robots)
         \/ \E discovered \in BOOLEAN : AuthLogin(discovered)
         \/ \E s \in Settings : SetupSave(s)
         \/ RotateDirectToken \/ Shutdown
  PROVE  CommandInv'
<1>1. UNCHANGED <<handler, subs, client, command>>
  BY DEF Main, AuthLogin, SetupSave, RotateDirectToken, ApplyRuntimeSettings, Shutdown,
     link, broker
<1>2. \/ job' = job
      \/ job' = [NoJob EXCEPT !.kind = "start", !.pc = "cleanup"]
      \/ job' = [NoJob EXCEPT !.kind = "apply", !.pc = "stop"]
      \/ job' = [NoJob EXCEPT !.kind = "shutdown", !.pc = "health"]
  BY DEF Main, AuthLogin, StartBridge, SetupSave, RotateDirectToken, ApplyRuntimeSettings,
     Shutdown
<1>3. job' = job \/ job'.pc \in {"cleanup", "stop", "health"}
  BY <1>2 DEF NoJob
<1>4. QED
  BY <1>1, <1>3, AwayFromSubscribing, CommandsUntouched

\* the step of a job, of which only the name matters here
LEMMA GotoIs ==
  ASSUME TypeOK, NEW pc, Goto(pc)
  PROVE  job'.pc = pc /\ job'.base = job.base
BY DEF Goto, TypeOK, Jobs

\* configureLocalMQTT up to the subscriptions
LEMMA ConfigureKeepsCommands ==
  ASSUME CommandInv, TypeOK',
         StopPublishes \/ StopCloses \/ Connect \/ SubscribeToSet \/ Clear \/ Subscribe
  PROVE  CommandInv'
<1>0. TypeOK /\ command \in [Commands -> Executions]
  BY DEF CommandInv, TypeOK
<1>1. CASE StopPublishes
  <2>1. job'.pc = "close"
    BY <1>0, <1>1, GotoIs DEF StopPublishes
  <2>2. QED
    BY <1>1, <2>1, AwayFromSubscribing DEF StopPublishes, link
<1>2. CASE StopCloses
  <2>1. job'.pc \in {"exit", "connect"}
    BY <1>0, <1>2, GotoIs DEF StopCloses
  <2>2. QED
    BY <1>2, <2>1, EndsKeepCommands DEF StopCloses
<1>3. CASE Connect
  <2>1. /\ job.pc = "connect" /\ subs' = subs /\ command' = command
        /\ \/ /\ client' = [link |-> "up", base |-> cfg]
              /\ handler' = [NoHandler EXCEPT !.state = "started"]
              /\ job'.pc \in {"republish", "set"}
           \/ job'.pc = "republish" /\ UNCHANGED <<client, handler>>
    BY <1>0, <1>3, GotoIs DEF Connect, At, broker
  <2>2. handler'.subs = {} \/ handler' = handler
    BY <2>1 DEF NoHandler
  <2>3. (subs' \cup handler'.subs) \cap Loxone = {}
    BY <2>1, <2>2 DEF CommandInv, Unsubscribed
  <2>4. job'.pc = "set" => client'.link = "up"
    BY <2>1
  <2>5. QED
    BY <2>1, <2>3, <2>4 DEF CommandInv, Unsubscribed, Cleared
<1>4. CASE SubscribeToSet
  <2>1. /\ job.pc = "set" /\ job'.pc = "clear" /\ UNCHANGED <<client, handler>>
    BY <1>0, <1>4, GotoIs DEF SubscribeToSet, At
  <2>2. PICK topics : topics \cap Loxone = {} /\ Subscribes(topics)
    BY <1>4, LoxoneIsCommand DEF SubscribeToSet
  <2>3. (subs' \cup handler'.subs) \cap Loxone = {}
    BY <2>1, <2>2 DEF CommandInv, Unsubscribed, Subscribes
  <2>4. \A t \in Loxone : command'[t] # "again"
    <3>1. SUFFICES ASSUME NEW t \in Loxone PROVE command'[t] # "again"
      OBVIOUS
    <3>2. command[t] # "again" /\ t \notin topics /\ t \in Commands
      BY <2>2, LoxoneIsCommand DEF CommandInv, Cleared
    <3>3. command' \in {command, Delivered(topics)}
      BY <2>2 DEF Subscribes
    <3>4. QED
      BY <1>0, <3>2, <3>3, DeliveryIsFresh
  <2>5. QED
    BY <2>1, <2>3, <2>4 DEF CommandInv, Unsubscribed, Cleared
<1>5. CASE Clear
  <2>1. /\ job.pc = "clear" /\ UNCHANGED <<client, subs, handler>>
        /\ job'.pc = "subscribe" /\ job'.base = cfg
        /\ command' = IF Enabled /\ Connected THEN [command EXCEPT ![<<cfg, "loxone">>] = "none"]
                      ELSE command
    BY <1>0, <1>5 DEF Clear, At, link, TypeOK, Jobs
  <2>2. Connected
    BY <1>5, <2>1 DEF Clear, NotWaiting, Connected, CommandInv, Unsubscribed
  <2>3. cfg \in Bases => command'[<<cfg, "loxone">>] = "none"
    BY <1>0, <2>1, <2>2, OffIsNoBase, LoxoneIsCommand DEF Enabled
  <2>4. \A t \in Loxone : command'[t] \in {command[t], "none"}
    BY <1>0, <2>1, LoxoneIsCommand
  <2>5. QED
    BY <2>1, <2>3, <2>4 DEF CommandInv, Unsubscribed, Cleared
<1>6. CASE Subscribe
  <2> DEFINE topics == {job.base} \X {"loxone"} \cap Commands
  <2>1. /\ job.pc = "subscribe" /\ job'.pc = "reconcile" /\ UNCHANGED <<client, handler>>
        /\ Subscribes(topics)
    BY <1>0, <1>6, GotoIs DEF Subscribe, At
  <2>2. \A t \in topics : job.base \in Bases /\ t = <<job.base, "loxone">>
    BY DEF Commands
  <2>3. \A t \in topics : command[t] \notin {"old", "again"}
    BY <2>1, <2>2 DEF CommandInv, Cleared
  <2>4. subs' = subs \cup topics /\ command' \in {command, Delivered(topics)}
    BY <2>1 DEF Subscribes
  <2>5. \A t \in Loxone : command'[t] # "again"
    BY <1>0, <2>3, <2>4, DeliveryIsFresh, LoxoneIsCommand DEF CommandInv, Cleared
  <2>6. ASSUME NEW t \in (subs' \cup handler'.subs) \cap Loxone
        PROVE  command'[t] \notin {"old", "again"}
    <3>1. t \in topics
      BY <2>1, <2>4 DEF CommandInv, Unsubscribed
    <3>2. QED
      BY <1>0, <2>3, <2>4, <3>1, DeliveryIsFresh, LoxoneIsCommand
  <2>7. QED
    BY <2>1, <2>5, <2>6 DEF CommandInv, Unsubscribed, Cleared
<1>7. QED
  BY <1>1, <1>2, <1>3, <1>4, <1>5, <1>6

\* the rest of a job
LEMMA JobKeepsCommands ==
  ASSUME CommandInv, TypeOK',
         \/ Reconcile("cleanup", "sweep") \/ DeleteStale("sweep", "stop")
         \/ Reconcile("reconcile", "delete") \/ DeleteStale("delete", "republish")
         \/ Republish \/ Seed \/ HealthStops
  PROVE  CommandInv'
<1>0. TypeOK
  BY DEF CommandInv
<1>1. UNCHANGED <<handler, subs, client, command>>
  BY DEF Reconcile, DeleteStale, Republish, Seed, HealthStops, link, broker
<1>2. job'.pc \in {"sweep", "delete", "stop", "republish", "seed", "none"}
  <2>1. CASE Reconcile("cleanup", "sweep") \/ Reconcile("reconcile", "delete")
    BY <1>0, <2>1, GotoIs DEF Reconcile, TypeOK, Jobs
  <2>2. CASE DeleteStale("sweep", "stop") \/ DeleteStale("delete", "republish")
    BY <1>0, <2>2 DEF DeleteStale, TypeOK, Jobs
  <2>3. CASE Republish \/ Seed \/ HealthStops
    BY <1>0, <2>3, GotoIs DEF Republish, Seed, HealthStops, NoJob, TypeOK, Jobs
  <2>4. QED
    BY <2>1, <2>2, <2>3
<1>3. QED
  BY <1>1, <1>2, AwayFromSubscribing

\* the library, its handler, and who posts commands
LEMMA LinkKeepsCommands ==
  ASSUME CommandInv, TypeOK',
         \/ OnConnectReads \/ OnConnectActs \/ Outage \/ LibraryReconnects
         \/ \E t \in Commands : PostCommand(t)
  PROVE  CommandInv'
<1>0. TypeOK /\ command \in [Commands -> Executions]
  BY DEF CommandInv, TypeOK
<1>1. CASE OnConnectReads
  <2>1. UNCHANGED <<job, client, subs, command>> /\ handler'.subs = subs
    BY <1>1 DEF OnConnectReads, broker
  <2>2. QED
    BY <2>1 DEF CommandInv, Unsubscribed, Cleared
<1>2. CASE OnConnectActs
  <2>1. /\ UNCHANGED <<job, client, subs>> /\ handler'.subs = {}
        /\ command' = Delivered(handler.subs)
    BY <1>2 DEF OnConnectActs, NoHandler
  <2>2. \A t \in Loxone : t \in handler.subs => command[t] \notin {"old", "again"}
    BY DEF CommandInv, Cleared
  <2>3. \A t \in Loxone :
           /\ command[t] \notin {"old", "again"} => command'[t] \notin {"old", "again"}
           /\ command[t] # "again" => command'[t] # "again"
    BY <1>0, <2>1, <2>2, DeliveryIsFresh, LoxoneIsCommand
  <2>4. QED
    BY <2>1, <2>3, LoxoneIsCommand DEF CommandInv, Unsubscribed, Cleared
<1>3. CASE Outage \/ LibraryReconnects
  <2>1. /\ UNCHANGED <<job, subs, command>>
        /\ client' = client \/ client'.link \in {"up", "retrying"}
        /\ handler' = handler \/ handler'.subs = {}
    BY <1>0, <1>3 DEF Outage, LibraryReconnects, broker, NoHandler, NoClient, TypeOK
  <2>2. QED
    BY <2>1 DEF CommandInv, Unsubscribed, Cleared
<1>4. ASSUME NEW t \in Commands, PostCommand(t)
      PROVE  CommandInv'
  <2>1. /\ UNCHANGED <<job, client, subs, handler>>
        /\ \A c \in Commands : command'[c] \in {command[c], "ran", "new"}
    BY <1>0, <1>4 DEF PostCommand, link
  <2>2. QED
    BY <2>1, LoxoneIsCommand DEF CommandInv, Unsubscribed, Cleared
<1>5. QED
  BY <1>1, <1>2, <1>3, <1>4

LEMMA CommandInit == Init => CommandInv
<1> SUFFICES ASSUME Init PROVE CommandInv
  OBVIOUS
<1>1. /\ job.pc = "none" /\ subs = {} /\ handler.subs = {}
      /\ \A t \in Commands : command[t] = "none"
  BY DEF Init, NoJob, NoHandler
<1>2. QED
  BY <1>1, TypeInit, LoxoneIsCommand DEF CommandInv, Unsubscribed, Cleared

LEMMA CommandStep ==
  ASSUME CommandInv, [Next]_vars
  PROVE  CommandInv'
<1>0. TypeOK'
  BY TypeStep DEF CommandInv
<1>1. CASE \/ \E robots \in SUBSET Robots : AccountChanges(robots)
           \/ ClearSession \/ ReadsSettings \/ RequestCodeSaves
           \/ \E r \in Robots : PublishState(r)
           \/ BeatBegins \/ BeatPublishes \/ \E b \in Bases : FireWill(b)
           \/ OutageEnds \/ UNCHANGED vars
  <2>1. UNCHANGED <<job, handler, subs, client, command>>
    BY <1>1
    DEF AccountChanges, ClearSession, ReadsSettings, RequestCodeSaves, PublishState,
        BeatBegins, BeatPublishes, FireWill, OutageEnds, vars, link, broker
  <2>2. QED
    BY <1>0, <2>1, CommandsUntouched
<1>2. CASE Crash \/ Exit
  <2>1. ClientEnds /\ job'.pc = "none"
    BY <1>2 DEF Crash, Exit, Forget, NoJob
  <2>2. QED
    BY <1>0, <2>1, EndsKeepCommands
<1>3. QED
  BY <1>0, <1>1, <1>2, StartsKeepCommands, ConfigureKeepsCommands, JobKeepsCommands,
     LinkKeepsCommands DEF Next, Configure

\* No start and no reconfiguration executes a retained command for Loxone again, by
\* its own subscription or by a later one of onConnect, for any number of bases,
\* outages and restarts (subscribeToLoxoneCommands, onConnect).
THEOREM StartsDoNotReplay == Spec => []NoReplayByStart
<1>1. Spec => []CommandInv
  BY CommandInit, CommandStep, PTL DEF Spec
<1>2. CommandInv => NoReplayByStart
  BY LoxoneIsCommand DEF CommandInv, Cleared, NoReplayByStart
<1>3. QED
  BY <1>1, <1>2, PTL
=============================================================================
