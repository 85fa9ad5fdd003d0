------------------------------- MODULE Bridge -------------------------------
(***************************************************************************)
(* The life of the bridge process around the local MQTT broker: the start  *)
(* from a saved session, a login and a logout in the browser, settings     *)
(* saved there, the reconfiguration of the MQTT client step by step, the   *)
(* topics it leaves retained and the ledger that remembers them, the       *)
(* marker bridge_alive with its Last Will and its heartbeat, the commands  *)
(* that are left retained, the shutdown and crashes.                       *)
(*                                                                         *)
(* The settings are the base topic, or "off" when local MQTT is disabled;  *)
(* there is one broker.  The QoS is 1 or 2, as the defaults and the        *)
(* example have it: a publication waits while the library reconnects.  One *)
(* reconfiguration at a time; what the direct integration does in between  *)
(* is in DirectSync.                                                       *)
(***************************************************************************)
EXTENDS Naturals

CONSTANTS Bases, Robots,
          MaxEvents        \* bound: settings saved, robots added or removed, logins,
                           \* logouts, commands, outages, crashes and shutdowns

ASSUME BridgeAssumption == MaxEvents \in Nat /\ "off" \notin Bases /\ "_bridge" \notin Robots

VARIABLES saved, session, ledger,  \* files: settings, session.json, retained topics
          account,                 \* the robots of the account, in the cloud
          process,                 \* down, up
          cfg, login, devices,     \* config.cfg, Client.loginData and devices
          managed,                 \* the robots of deviceManager; {}: there is none
          job,                     \* the reconfiguration, or the shutdown, that runs
          draft,                   \* requestCode or rotateDirectToken, between its snapshot
                                   \* and its save
          health, beat,            \* healthPublisher runs; the base it publishes under
          client,                  \* the MQTT client: link and base of its Last Will
          subs,                    \* the command topics it subscribes to
          handler,                 \* onConnect: none, started, or what it has read
          reachable, wills,        \* the broker can be reached; Last Wills that are due
          retained, marker, command, \* retained at the broker
          events                   \* bound

files == <<saved, session, ledger>>
memory == <<cfg, login, devices, managed>>
link == <<client, subs, handler>>
broker == <<reachable, wills, retained, marker, command>>
vars == <<files, account, process, memory, job, draft, health, beat, link, broker, events>>

Settings == Bases \cup {"off"}
Topics == Bases \X (Robots \cup {"_bridge"})
\* <base>/<slug>/set and <base>/loxone/<slug>/command
Commands == Bases \X {"set", "loxone"}
\* what one holds retained: sent, executed by this client, by one before it, or by both
Executions == {"none", "new", "ran", "old", "again"}
JobSteps == {"none", "cleanup", "sweep", "health", "stop", "close", "connect", "set", "clear",
             "subscribe", "reconcile", "delete", "republish", "seed", "exit"}
Jobs == [kind : {"none", "start", "apply", "shutdown"}, pc : JobSteps,
         base : Settings, stale : SUBSET Topics]
NoJob == [kind |-> "none", pc |-> "none", base |-> "off", stale |-> {}]
NoClient == [link |-> "none", base |-> "off"]
NoHandler == [state |-> "none", base |-> "off", subs |-> {}]

TypeOK ==
    /\ saved \in Settings /\ cfg \in Settings /\ draft \in Settings \cup {"none"}
    /\ session \in [login : BOOLEAN, robots : SUBSET Robots]
    /\ ledger \subseteq Topics
    /\ account \subseteq Robots /\ devices \subseteq Robots /\ managed \subseteq Robots
    /\ login \in BOOLEAN /\ health \in BOOLEAN /\ reachable \in BOOLEAN
    /\ process \in {"down", "up"}
    /\ job \in Jobs
    /\ client \in [link : {"up", "retrying"}, base : Bases] \cup {NoClient}
    /\ handler \in [state : {"none", "started", "read"}, base : Settings, subs : SUBSET Commands]
    /\ subs \subseteq Commands /\ beat \in Settings /\ wills \subseteq Bases
    /\ retained \subseteq Bases \X Robots
    /\ marker \in [Bases -> {"absent", "0", "1"}]
    /\ command \in [Commands -> Executions]
    /\ events \in 0 .. MaxEvents

NewRetainedTopicLedger == ledger = {}

Init ==
    /\ saved \in Settings /\ cfg = saved /\ draft = "none"
    /\ session = [login |-> FALSE, robots |-> {}] /\ NewRetainedTopicLedger
    /\ account = Robots
    /\ process = "up" /\ login = FALSE /\ devices = {} /\ managed = {}
    /\ job = NoJob /\ health = FALSE /\ beat = "off"
    /\ client = NoClient /\ subs = {} /\ handler = NoHandler
    /\ reachable = TRUE /\ wills = {} /\ retained = {}
    /\ marker = [b \in Bases |-> "absent"] /\ command = [t \in Commands |-> "none"]
    /\ events = 0

Event == events < MaxEvents /\ events' = events + 1
Enabled == cfg # "off"
Idle == process = "up" /\ job = NoJob
At(pc) == process = "up" /\ job.pc = pc
Goto(pc) == job' = [job EXCEPT !.pc = pc]
\* a publication waits for a client that retries, and fails without one
NotWaiting == client.link # "retrying"
Connected == client.link = "up" /\ job.pc # "close"

ExpectedRetainedTopics == {<<cfg, r>> : r \in managed \cup {"_bridge"}}

-----------------------------------------------------------------------------
(* Session and settings *)

LoadConfig == cfg' = saved
CodeLogin == login' = TRUE
SaveSession(robots) == session' = [login |-> TRUE, robots |-> robots]
NewDeviceManager(robots) == managed' = robots

\* startBridge, up to the clean up
StartBridge(robots) ==
    /\ NewDeviceManager(robots)
    /\ job' = [NoJob EXCEPT !.kind = "start", !.pc = "cleanup"]

\* DiscoverDevice fails without an answer, and when the account has no robot
Discovers(robots) == robots = account /\ account # {}

\* what session.json has; a discovery that fails keeps its robots
LoadSession(found) ==
    /\ login' = session.login
    /\ devices' = IF session.login THEN found ELSE {}
    /\ Discovers(found) \/ found = session.robots

\* restoreBridgeSession
Main(found) ==
    /\ process = "down"
    /\ process' = "up"
    /\ LoadConfig /\ LoadSession(found)
    /\ IF session.login THEN SaveSession(found) ELSE UNCHANGED session
    /\ IF session.login /\ found # {} THEN StartBridge(found) ELSE UNCHANGED <<managed, job>>
    /\ UNCHANGED <<saved, ledger, account, draft, health, beat, link, broker, events>>

\* authLogin: when the discovery fails the session is saved all the same
AuthLogin(discovered) ==
    /\ Idle /\ Event
    /\ CodeLogin
    /\ devices' = IF discovered THEN account ELSE devices
    /\ SaveSession(devices')
    /\ discovered => Discovers(account)
    /\ IF discovered THEN StartBridge(account) ELSE UNCHANGED <<managed, job>>
    /\ UNCHANGED <<saved, ledger, account, process, cfg, draft, health, beat, link, broker>>

\* authLogout leaves the bridge running
ClearSession ==
    /\ Idle /\ login /\ Event
    /\ session' = [login |-> FALSE, robots |-> {}]
    /\ login' = FALSE
    /\ UNCHANGED <<saved, ledger, account, process, cfg, devices, managed, job, draft, health, beat,
                   link, broker>>

AccountChanges(robots) ==
    /\ robots # account /\ Event
    /\ account' = robots
    /\ UNCHANGED <<files, process, memory, job, draft, health, beat, link, broker>>

SaveRuntimeSettings(s) == saved' = s /\ cfg' = s
RuntimeSettingsSnapshot == cfg

ApplyRuntimeSettings(s) ==
    /\ Idle
    /\ SaveRuntimeSettings(s)
    /\ job' = [NoJob EXCEPT !.kind = "apply", !.pc = "stop"]
    /\ UNCHANGED <<session, ledger, account, process, login, devices, managed, health, beat, link,
                   broker>>

SetupSave(s) == Event /\ ApplyRuntimeSettings(s) /\ UNCHANGED draft

\* requestCode adds the user name, and rotateDirectToken the token, to what it has read
ReadsSettings ==
    /\ process = "up" /\ draft = "none" /\ Event
    /\ draft' = RuntimeSettingsSnapshot
    /\ UNCHANGED <<files, account, process, memory, job, health, beat, link, broker>>

RotateDirectToken ==
    /\ draft # "none" /\ ApplyRuntimeSettings(draft)
    /\ draft' = "none" /\ UNCHANGED events

RequestCodeSaves ==
    /\ process = "up" /\ draft # "none"
    /\ SaveRuntimeSettings(draft)
    /\ draft' = "none"
    /\ UNCHANGED <<session, ledger, account, process, login, devices, managed, job, health, beat,
                   link, broker, events>>

-----------------------------------------------------------------------------
(* cleanupStaleRetainedTopics, at the start and in configureLocalMQTT *)

\* the ledger forgets the stale topics before they are deleted
Reconcile(from, to) ==
    /\ At(from)
    /\ IF Enabled
       THEN /\ ledger' = ExpectedRetainedTopics
            /\ job' = [job EXCEPT !.pc = to, !.stale = ledger \ ExpectedRetainedTopics]
       ELSE Goto(to) /\ UNCHANGED ledger
    /\ UNCHANGED <<saved, session, account, process, memory, draft, health, beat, link, broker, events>>

DeleteStale(from, to) ==
    /\ At(from) /\ NotWaiting
    /\ job' = [job EXCEPT !.pc = to, !.stale = {}]
    /\ IF Connected
       THEN /\ retained' = retained \ job.stale
            /\ marker' = [b \in Bases |-> IF <<b, "_bridge">> \in job.stale THEN "absent" ELSE marker[b]]
       ELSE UNCHANGED <<retained, marker>>
    /\ UNCHANGED <<files, account, process, memory, draft, health, beat, link, reachable, wills,
                   command, events>>

-----------------------------------------------------------------------------
(* configureLocalMQTT *)

\* Stop takes the client away from everybody else, then says offline
StopPublishes ==
    /\ At("stop") /\ NotWaiting
    /\ Goto("close")
    /\ marker' = IF Connected THEN [marker EXCEPT ![client.base] = "0"] ELSE marker
    /\ UNCHANGED <<files, account, process, memory, draft, health, beat, link, reachable, wills,
                   retained, command, events>>

\* what the client has executed is now old
Aged(executed) == IF executed \in {"ran", "again"} THEN "old" ELSE executed
ClientEnds ==
    /\ subs' = {} /\ handler' = NoHandler
    /\ command' = [t \in Commands |-> Aged(command[t])]

\* mutant: the base of the client that was closed stays
Mutant_StopCloses ==
    /\ At("close")
    /\ Goto(IF job.kind = "shutdown" THEN "exit" ELSE "connect")
    /\ client' = [client EXCEPT !.link = "none"] /\ ClientEnds
    /\ UNCHANGED <<files, account, process, memory, draft, health, beat, reachable, wills,
                   retained, marker, events>>

\* Stop's Disconnect, then ClearSubscriptions
StopCloses ==
    /\ At("close")
    /\ Goto(IF job.kind = "shutdown" THEN "exit" ELSE "connect")
    /\ client' = NoClient /\ ClientEnds
    /\ UNCHANGED <<files, account, process, memory, draft, health, beat, reachable, wills,
                   retained, marker, events>>

\* a first connection that fails is not retried
Connect ==
    /\ At("connect")
    /\ IF Enabled /\ reachable
       THEN /\ client' = [link |-> "up", base |-> cfg]
            /\ handler' = [NoHandler EXCEPT !.state = "started"]
            /\ Goto(IF managed = {} THEN "republish" ELSE "set")
       ELSE Goto("republish") /\ UNCHANGED <<client, handler>>
    /\ UNCHANGED <<files, account, process, memory, draft, health, beat, subs, broker, events>>

\* what is retained comes with a new subscription, whoever has executed it before
Delivered(topics) ==
    [t \in Commands |->
        IF t \notin topics THEN command[t]
        ELSE CASE command[t] = "new" -> "ran" [] command[t] = "old" -> "again" [] OTHER -> command[t]]

\* while the library reconnects, a subscription is only noted for onConnect
Subscribes(topics) ==
    /\ subs' = subs \cup topics
    /\ command' = IF Connected THEN Delivered(topics) ELSE command

\* subscribeToCommands deletes nothing
SubscribeToSet ==
    /\ At("set")
    /\ Goto("clear")
    /\ Subscribes(IF Enabled THEN {<<cfg, "set">>} ELSE {})
    /\ UNCHANGED <<files, account, process, memory, draft, health, beat, client, handler, reachable,
                   wills, retained, marker, events>>

\* mutant: the retained command stays
Mutant_Clear ==
    /\ At("clear") /\ NotWaiting
    /\ job' = [job EXCEPT !.pc = "subscribe", !.base = cfg]
    /\ UNCHANGED <<files, account, process, memory, draft, health, beat, link, broker, events>>

\* subscribeToLoxoneCommands deletes the retained command, then subscribes
Clear ==
    /\ At("clear") /\ NotWaiting
    /\ job' = [job EXCEPT !.pc = "subscribe", !.base = cfg]
    /\ command' = IF Enabled /\ Connected THEN [command EXCEPT ![<<cfg, "loxone">>] = "none"]
                  ELSE command
    /\ UNCHANGED <<files, account, process, memory, draft, health, beat, link, reachable, wills,
                   retained, marker, events>>

Subscribe ==
    /\ At("subscribe")
    /\ Goto("reconcile")
    /\ Subscribes({job.base} \X {"loxone"} \cap Commands)
    /\ UNCHANGED <<files, account, process, memory, draft, health, beat, client, handler, reachable,
                   wills, retained, marker, events>>

PublishAll ==
    retained' = IF Enabled /\ Connected THEN retained \cup ({cfg} \X managed) ELSE retained

\* republishLocalSnapshots
Republish ==
    /\ At("republish") /\ NotWaiting
    /\ PublishAll
    /\ job' = IF job.kind = "start" THEN [job EXCEPT !.pc = "seed"] ELSE NoJob
    /\ UNCHANGED <<files, account, process, memory, draft, health, beat, link, reachable, wills, marker,
                   command, events>>

startHealthPublisher == health' = TRUE

\* the rest of startBridge: the offline states, the health publisher, the first poll
Seed ==
    /\ At("seed") /\ NotWaiting
    /\ PublishAll /\ startHealthPublisher
    /\ job' = NoJob
    /\ UNCHANGED <<files, account, process, memory, draft, beat, link, reachable, wills, marker,
                   command, events>>

-----------------------------------------------------------------------------
(* What is published meanwhile *)

\* a status, an availability, a room, a map, scenes or a schedule of a robot
PublishState(r) ==
    /\ process = "up" /\ Enabled /\ Connected
    /\ r \in managed
    /\ retained' = retained \cup {<<cfg, r>>}
    /\ UNCHANGED <<files, account, process, memory, job, draft, health, beat, link, reachable, wills,
                   marker, command, events>>

BeatBegins ==
    /\ process = "up" /\ health /\ Enabled /\ beat = "off"
    /\ beat' = cfg
    /\ UNCHANGED <<files, account, process, memory, job, draft, health, link, broker, events>>

\* mutant: publishBridgeHealth leaves bridge_alive to the Last Will and onConnect
Mutant_BeatPublishes ==
    /\ beat # "off" /\ NotWaiting
    /\ beat' = "off"
    /\ UNCHANGED <<files, account, process, memory, job, draft, health, link, broker, events>>

BeatPublishes ==
    /\ beat # "off" /\ NotWaiting
    /\ beat' = "off"
    /\ marker' = IF Connected THEN [marker EXCEPT ![beat] = "1"] ELSE marker
    /\ UNCHANGED <<files, account, process, memory, job, draft, health, link, reachable, wills,
                   retained, command, events>>

\* somebody publishes a command, retained although it should not be; until onConnect
\* has subscribed again it may not be delivered
PostCommand(t) ==
    /\ Event
    /\ \/ t \in subs /\ client.link = "up" /\ command' = [command EXCEPT ![t] = "ran"]
       \/ /\ t \notin subs \/ client.link # "up" \/ handler.state # "none"
          /\ command' = [command EXCEPT ![t] = "new"]
    /\ UNCHANGED <<files, account, process, memory, job, draft, health, beat, link, reachable, wills,
                   retained, marker>>

-----------------------------------------------------------------------------
(* The library, its handler and the broker *)

OnConnectReads ==
    /\ handler.state = "started"
    /\ handler' = [state |-> "read", subs |-> subs,
                   base |-> IF job.pc = "close" THEN "off" ELSE client.base]
    /\ UNCHANGED <<files, account, process, memory, job, draft, health, beat, client, subs, broker, events>>

\* it subscribes again without deleting what is retained
OnConnectActs ==
    /\ handler.state = "read" /\ client.link = "up"
    /\ handler' = NoHandler
    /\ marker' = IF handler.base = "off" THEN marker ELSE [marker EXCEPT ![handler.base] = "1"]
    /\ command' = Delivered(handler.subs)
    /\ UNCHANGED <<files, account, process, memory, job, draft, health, beat, client, subs, reachable,
                   wills, retained, events>>

Outage ==
    /\ reachable /\ Event
    /\ reachable' = FALSE
    /\ IF client.link = "up"
       THEN /\ client' = [client EXCEPT !.link = "retrying"]
            /\ wills' = wills \cup {client.base}
       ELSE UNCHANGED <<client, wills>>
    /\ UNCHANGED <<files, account, process, memory, job, draft, health, beat, subs, handler, retained,
                   marker, command>>

OutageEnds ==
    /\ ~reachable /\ reachable' = TRUE
    /\ UNCHANGED <<files, account, process, memory, job, draft, health, beat, link, wills, retained,
                   marker, command, events>>

\* the handler of the lost connection, if it still waits, does nothing more than the new one
LibraryReconnects ==
    /\ client.link = "retrying" /\ reachable
    /\ client' = [client EXCEPT !.link = "up"]
    /\ handler' = [NoHandler EXCEPT !.state = "started"]
    /\ UNCHANGED <<files, account, process, memory, job, draft, health, beat, subs, broker, events>>

\* the broker notices a dead connection some time later
FireWill(b) ==
    /\ b \in wills
    /\ wills' = wills \ {b}
    /\ marker' = [marker EXCEPT ![b] = "0"]
    /\ UNCHANGED <<files, account, process, memory, job, draft, health, beat, link, reachable, retained,
                   command, events>>

(* The end of the process *)

Forget ==
    /\ process' = "down"
    /\ cfg' = "off" /\ login' = FALSE /\ devices' = {} /\ managed' = {}
    /\ job' = NoJob /\ draft' = "none" /\ health' = FALSE /\ beat' = "off"
    /\ client' = NoClient /\ ClientEnds
    /\ UNCHANGED <<files, account, reachable, retained, marker>>

Crash ==
    /\ process = "up" /\ Event
    /\ Forget
    /\ wills' = IF client.link = "up" THEN wills \cup {client.base} ELSE wills

Shutdown ==
    /\ Idle /\ Event
    /\ job' = [NoJob EXCEPT !.kind = "shutdown", !.pc = "health"]
    /\ UNCHANGED <<files, account, process, memory, draft, health, beat, link, broker>>

\* healthPublisher.Stop waits for the beat; localBroker.Stop follows
HealthStops ==
    /\ At("health") /\ beat = "off"
    /\ health' = FALSE
    /\ Goto("stop")
    /\ UNCHANGED <<files, account, process, memory, draft, beat, link, broker, events>>

Exit == At("exit") /\ Forget /\ UNCHANGED <<wills, events>>

-----------------------------------------------------------------------------
Configure ==
    \/ Reconcile("cleanup", "sweep") \/ DeleteStale("sweep", "stop")
    \/ StopPublishes \/ StopCloses \/ Connect
    \/ SubscribeToSet \/ Clear \/ Subscribe
    \/ Reconcile("reconcile", "delete") \/ DeleteStale("delete", "republish")
    \/ Republish \/ Seed \/ HealthStops \/ Exit

Next ==
    \/ \E robots \in SUBSET Robots : Main(robots) \/ AccountChanges(robots)
    \/ \E discovered \in BOOLEAN : AuthLogin(discovered)
    \/ ClearSession \/ ReadsSettings \/ RequestCodeSaves \/ RotateDirectToken
    \/ \E s \in Settings : SetupSave(s)
    \/ Configure
    \/ \E r \in Robots : PublishState(r)
    \/ BeatBegins \/ BeatPublishes
    \/ \E t \in Commands : PostCommand(t)
    \/ \E b \in Bases : FireWill(b)
    \/ OnConnectReads \/ OnConnectActs \/ Outage \/ OutageEnds \/ LibraryReconnects
    \/ Crash \/ Shutdown

Fairness ==
    /\ WF_vars(Configure) /\ WF_vars(BeatBegins) /\ WF_vars(BeatPublishes)
    /\ WF_vars(LibraryReconnects) /\ WF_vars(OnConnectReads) /\ WF_vars(OnConnectActs)
    /\ \A b \in Bases : WF_vars(FireWill(b))

Spec == Init /\ [][Next]_vars /\ Fairness

-----------------------------------------------------------------------------
Serving == Idle /\ health /\ Connected /\ cfg = client.base

(* A bridge that stays connected is shown alive, although the Last Will of  *)
(* a connection it has lost, or of the process before it, may overwrite    *)
(* the marker after onConnect has set it.                                  *)
AliveIsSeen ==
    <>[]Serving => <>[](client.base \in Bases /\ marker[client.base] = "1")

(* A command for Loxone that is left retained, and that was executed, is    *)
(* not executed again by the client of a later start or reconfiguration,    *)
(* neither by its subscription nor by onConnect, through any outages        *)
(* (main.go:1024).                                                          *)
NoReplayByStart == \A b \in Bases : command[<<b, "loxone">>] # "again"

(* The same of a command that is published to /set. README promises it only *)
(* of /command, and subscribeToCommands deletes nothing (main.go:984).      *)
NoSetReplayByStart == \A b \in Bases : command[<<b, "set">>] # "again"

(* The same of a client that connects again: onConnect subscribes without   *)
(* deleting what is retained, and the broker sends it once more.            *)
NoReplayByReconnect == [][OnConnectActs => \A t \in handler.subs : command[t] # "ran"]_vars

(* README, Direct Loxone integration: with the broker running, the bridge   *)
(* deletes the topics of robots that were removed.                          *)
StaleTopicsDeleted ==
    <>[]Serving => <>[](\A t \in retained : t \in ExpectedRetainedTopics)

(* README, Bridge and robot health: the marker is 1 while the client is     *)
(* connected; a bridge that is gone is not shown alive for ever.            *)
DeadIsSeen ==
    <>[](process = "down") => <>[](\A b \in Bases : marker[b] # "1")

(* The client runs with the settings that are saved. *)
SavedIsApplied == Idle /\ Connected => client.base = cfg
=============================================================================
