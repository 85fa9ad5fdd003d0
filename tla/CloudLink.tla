----------------------------- MODULE CloudLink -----------------------------
(***************************************************************************)
(* The cloud link of one robot (CloudMQTT and its RequestTracker): requests *)
(* that wait for an answer, the count of consecutive timeouts and the      *)
(* reconnect it forces, the clean up and the proactive reconnect of        *)
(* cleanupLoop, the handlers that the MQTT library starts in goroutines of *)
(* their own, and Disconnect.                                              *)
(*                                                                         *)
(* Request ids are drawn at random from 22767 values; a request here has   *)
(* an id of its own.  Time is left out: a timeout may strike any request   *)
(* that waits, and any entry of the tracker may have grown old.            *)
(***************************************************************************)
EXTENDS Integers, FiniteSets

CONSTANTS Requests,         \* the calls of SendCommand
          MaxTimeouts,      \* maxConsecutiveTimeouts
          MaxLosses,        \* bound: losses of the connection, refused subscriptions
          MaxHandlers,      \* bound: handlers of one kind that have not run yet
          Forced            \* bound: concurrent reconnects forced by timeouts

ASSUME LinkAssumption ==
    /\ MaxTimeouts \in Nat \ {0} /\ MaxLosses \in Nat /\ MaxHandlers \in Nat \ {0}
    /\ "ticker" \notin Forced

VARIABLES pc,            \* of each request: idle, added, waiting, done
          channel,       \* PendingRequest.Response: empty, data, closed
          tracker,       \* RequestTracker.pending
          unsolicited,   \* answers that processIPCResult took for a status
          timeouts,      \* consecutiveTimeouts
          reconnect,     \* forceReconnect: none, launched, sleeping
          link,          \* of the MQTT library: off, up, retrying
          reachable,     \* the broker can be reached
          connected,     \* CloudMQTT.connected
          available,     \* CloudMQTT.available, availKnown
          handlers,      \* handlers on their way
          loop,          \* cleanupLoop runs
          closed,        \* stopCh is closed
          losses         \* bound

requestVars == <<pc, channel, tracker, unsolicited>>
handlerVars == <<connected, available, handlers>>
linkVars    == <<link, reachable, loop, closed, losses>>
cloudVars == <<requestVars, handlerVars, linkVars, timeouts, reconnect>>

Reconnectors == Forced \cup {"ticker"}
Handlers == {"onConnect", "subscribe", "onConnectionLost"}

\* the requests that are over
Over == {r \in Requests : pc[r] = "done"}

RequestTypes ==
    /\ pc \in [Requests -> {"idle", "added", "waiting", "done"}]
    /\ channel \in [Requests -> {"empty", "data", "closed"}]
    /\ tracker \subseteq Requests /\ unsolicited \subseteq Requests

LinkTypes ==
    /\ reconnect \in [Reconnectors -> {"none", "launched", "sleeping"}]
    /\ link \in {"off", "up", "retrying"}
    /\ available \in {"unknown", "online", "offline"}
    /\ handlers \in [Handlers -> 0 .. MaxHandlers]
    /\ reachable \in BOOLEAN /\ connected \in BOOLEAN
    /\ loop \in BOOLEAN /\ closed \in BOOLEAN
    /\ losses \in 0 .. MaxLosses

(* The types of the variables; every timeout that is counted is the end of *)
(* a request of its own.                                                   *)
CloudTypeOK == RequestTypes /\ LinkTypes /\ timeouts \in 0 .. Cardinality(Over)

NewRequestTracker == tracker = {} /\ channel = [r \in Requests |-> "empty"]

(***************************************************************************)
(* Connect has returned: the library starts onConnect in a goroutine.      *)
(***************************************************************************)
CloudInit ==
    /\ pc = [r \in Requests |-> "idle"] /\ NewRequestTracker /\ unsolicited = {}
    /\ timeouts = 0 /\ reconnect = [g \in Reconnectors |-> "none"]
    /\ link = "up" /\ reachable = TRUE
    /\ connected = FALSE /\ available = "unknown"
    /\ handlers = [h \in Handlers |-> IF h = "onConnect" THEN 1 ELSE 0]
    /\ loop = TRUE /\ closed = FALSE /\ losses = 0

\* its callback runs after the unlock, in the handler's goroutine
setAvailability(state) == available' = state

Room(hs) == \A h \in hs : handlers[h] < MaxHandlers
Started(hs, h) == [hs EXCEPT ![h] = @ + 1]
Ended(hs, h)   == [hs EXCEPT ![h] = @ - 1]

-----------------------------------------------------------------------------
(* SendCommand *)

\* mutant: the request is sent without an entry in the tracker
Mutant_Add(r) ==
    /\ pc[r] = "idle"
    /\ pc' = [pc EXCEPT ![r] = "added"]
    /\ UNCHANGED <<tracker, channel, unsolicited, timeouts, reconnect, handlerVars,
                   linkVars>>

Add(r) ==
    /\ pc[r] = "idle"
    /\ pc' = [pc EXCEPT ![r] = "added"]
    /\ tracker' = tracker \cup {r}
    /\ UNCHANGED <<channel, unsolicited, timeouts, reconnect, handlerVars, linkVars>>

\* while the library is retrying, a publish with QoS 0 succeeds and is dropped
Publish(r) ==
    /\ pc[r] = "added"
    /\ pc' = [pc EXCEPT ![r] = IF link = "off" THEN "done" ELSE "waiting"]
    /\ UNCHANGED <<channel, tracker, unsolicited, timeouts, reconnect, handlerVars,
                   linkVars>>

Receive(r) ==
    /\ pc[r] = "waiting" /\ channel[r] = "data"
    /\ pc' = [pc EXCEPT ![r] = "done"]
    /\ timeouts' = 0
    /\ UNCHANGED <<channel, tracker, unsolicited, reconnect, handlerVars, linkVars>>

\* mutant: the request waits on after its timeout
Mutant_Timeout(r) ==
    /\ pc[r] = "waiting"
    /\ timeouts' = timeouts + 1
    /\ UNCHANGED <<requestVars, reconnect, handlerVars, linkVars>>

\* recordTimeout: the reconnect starts in a goroutine, which resets the count later
Launches(count) == count >= MaxTimeouts

Timeout(r) ==
    /\ pc[r] = "waiting"
    /\ pc' = [pc EXCEPT ![r] = "done"]
    /\ timeouts' = timeouts + 1
    /\ IF Launches(timeouts + 1)
       THEN \E g \in Forced : /\ reconnect[g] = "none"
                              /\ reconnect' = [reconnect EXCEPT ![g] = "launched"]
       ELSE UNCHANGED reconnect
    /\ UNCHANGED <<channel, tracker, unsolicited, handlerVars, linkVars>>

-----------------------------------------------------------------------------
(* handleMessage *)

Complete(r) ==
    /\ tracker' = tracker \ {r}
    /\ channel' = [channel EXCEPT ![r] = "data"]

\* the callback is the one of Upkeep and Schedules
processIPCResult(r) == unsolicited' = unsolicited \cup {r}

\* an answer completes the entry of its request, or is taken for a status
HandleAnswer(r) ==
    /\ link = "up"
    /\ pc[r] \in {"waiting", "done"} /\ channel[r] # "data" /\ r \notin unsolicited
    /\ timeouts' = 0
    /\ IF r \in tracker
       THEN Complete(r) /\ UNCHANGED unsolicited
       ELSE processIPCResult(r) /\ UNCHANGED <<tracker, channel>>
    /\ UNCHANGED <<pc, reconnect, handlerVars, linkVars>>

\* a message the robot sends by itself
HandlePush ==
    /\ link = "up" /\ timeouts > 0
    /\ timeouts' = 0
    /\ UNCHANGED <<requestVars, reconnect, handlerVars, linkVars>>

-----------------------------------------------------------------------------
(* cleanupLoop; a proactive reconnect keeps it busy *)

LoopIdle == loop /\ reconnect["ticker"] = "none"

\* mutant: the entries are closed and kept
Mutant_Cleanup(old) ==
    /\ LoopIdle
    /\ channel' = [r \in Requests |-> IF r \in old THEN "closed" ELSE channel[r]]
    /\ UNCHANGED <<pc, tracker, unsolicited, timeouts, reconnect, handlerVars, linkVars>>

\* Cleanup closes and forgets the entries that are older than a minute
Cleanup(old) ==
    /\ LoopIdle
    /\ tracker' = tracker \ old
    /\ channel' = [r \in Requests |-> IF r \in old THEN "closed" ELSE channel[r]]
    /\ UNCHANGED <<pc, unsolicited, timeouts, reconnect, handlerVars, linkVars>>

\* mutant: only a link that is up has its session renewed
Mutant_ReconnectTick ==
    /\ LoopIdle /\ link = "up"
    /\ reconnect' = [reconnect EXCEPT !["ticker"] = "launched"]
    /\ UNCHANGED <<requestVars, timeouts, handlerVars, linkVars>>

ReconnectTick ==
    /\ LoopIdle
    /\ reconnect' = [reconnect EXCEPT !["ticker"] = "launched"]
    /\ UNCHANGED <<requestVars, timeouts, handlerVars, linkVars>>

LoopStops ==
    /\ LoopIdle /\ closed
    /\ loop' = FALSE
    /\ UNCHANGED <<requestVars, timeouts, reconnect, handlerVars, link, reachable, closed, losses>>

(* forceReconnect *)

ForceDisconnect(g) ==
    /\ reconnect[g] = "launched"
    /\ timeouts' = 0
    /\ connected' = FALSE
    /\ link' = "off"
    /\ reconnect' = [reconnect EXCEPT ![g] = "sleeping"]
    /\ UNCHANGED <<requestVars, available, handlers, reachable, loop, closed, losses>>

\* after two seconds; Connect on a link that is up again does nothing
ForceConnect(g) ==
    /\ reconnect[g] = "sleeping"
    /\ reconnect' = [reconnect EXCEPT ![g] = "none"]
    /\ \/ link # "off" /\ UNCHANGED <<link, handlers, available>>
       \/ /\ link = "off" /\ reachable /\ Room({"onConnect"})
          /\ link' = "up"
          /\ handlers' = Started(handlers, "onConnect")
          /\ UNCHANGED available
       \/ /\ link = "off" /\ ~reachable
          /\ setAvailability("offline")
          /\ UNCHANGED <<link, handlers>>
    /\ UNCHANGED <<requestVars, timeouts, connected, reachable, loop, closed, losses>>

-----------------------------------------------------------------------------
(* The library and its handlers *)

Outage ==
    /\ reachable /\ losses < MaxLosses
    /\ losses' = losses + 1
    /\ reachable' = FALSE
    /\ IF link = "up"
       THEN /\ Room({"onConnectionLost"})
            /\ link' = "retrying"
            /\ handlers' = Started(handlers, "onConnectionLost")
       ELSE UNCHANGED <<link, handlers>>
    /\ UNCHANGED <<requestVars, timeouts, reconnect, connected, available, loop, closed>>

OutageEnds ==
    /\ ~reachable
    /\ reachable' = TRUE
    /\ UNCHANGED <<requestVars, timeouts, reconnect, handlerVars, link, loop, closed, losses>>

LibraryReconnects ==
    /\ link = "retrying" /\ reachable /\ Room({"onConnect"})
    /\ link' = "up"
    /\ handlers' = Started(handlers, "onConnect")
    /\ UNCHANGED <<requestVars, timeouts, reconnect, connected, available, reachable, loop,
                   closed, losses>>

OnConnect ==
    /\ handlers["onConnect"] > 0 /\ Room({"subscribe"})
    /\ connected' = TRUE
    /\ handlers' = Started(Ended(handlers, "onConnect"), "subscribe")
    /\ UNCHANGED <<requestVars, timeouts, reconnect, available, linkVars>>

\* a subscription that fails ends the handler; it can fail with the link only
Subscribe ==
    /\ handlers["subscribe"] > 0
    /\ handlers' = Ended(handlers, "subscribe")
    /\ setAvailability("online") \/ (link # "up" /\ UNCHANGED available)
    /\ UNCHANGED <<requestVars, timeouts, reconnect, connected, linkVars>>

OnConnectionLost ==
    /\ handlers["onConnectionLost"] > 0
    /\ connected' = FALSE
    /\ setAvailability("offline")
    /\ handlers' = Ended(handlers, "onConnectionLost")
    /\ UNCHANGED <<requestVars, timeouts, reconnect, linkVars>>

(* The shutdown and the watchdog's repair call it once. *)
Disconnect ==
    /\ ~closed
    /\ closed' = TRUE
    /\ link' = "off"
    /\ setAvailability("offline")
    /\ UNCHANGED <<requestVars, timeouts, reconnect, connected, handlers, reachable, loop, losses>>

-----------------------------------------------------------------------------
RequestStep(r) == Publish(r) \/ Receive(r) \/ Timeout(r)
HandlerStep == OnConnect \/ Subscribe \/ OnConnectionLost
CleanupTick == \E old \in SUBSET tracker \ {{}} : Cleanup(old)

CloudNext ==
    \/ \E r \in Requests : Add(r) \/ RequestStep(r) \/ HandleAnswer(r)
    \/ HandlePush \/ CleanupTick \/ ReconnectTick \/ LoopStops
    \/ \E g \in Reconnectors : ForceDisconnect(g) \/ ForceConnect(g)
    \/ Outage \/ OutageEnds \/ LibraryReconnects \/ HandlerStep \/ Disconnect

Fairness ==
    /\ \A r \in Requests : WF_cloudVars(RequestStep(r))
    /\ \A g \in Reconnectors : WF_cloudVars(ForceDisconnect(g)) /\ WF_cloudVars(ForceConnect(g))
    /\ SF_cloudVars(CleanupTick) /\ WF_cloudVars(ReconnectTick) /\ WF_cloudVars(LoopStops)
    /\ WF_cloudVars(LibraryReconnects)
    /\ WF_cloudVars(OnConnect) /\ WF_cloudVars(Subscribe) /\ WF_cloudVars(OnConnectionLost)

CloudSpec == CloudInit /\ [][CloudNext]_cloudVars /\ Fairness

-----------------------------------------------------------------------------
(* Somebody who waits gets the answer: it is taken for a status only when   *)
(* the request is over or the clean up has closed its channel.             *)
AnswerReachesRequest ==
    \A r \in unsolicited : pc[r] = "done" \/ channel[r] = "closed"

(* A request that failed, or gave up, does not stay in the tracker of an    *)
(* open link: not when its publish failed, not when nobody answers.        *)
EntriesForgotten ==
    \A r \in Requests : (pc[r] = "done" /\ r \in tracker) ~> (r \notin tracker \/ closed)

(* The link comes back by itself: when the broker stays reachable and       *)
(* nobody closes the link, it is up and known to be connected again and    *)
(* again, whatever was lost, forced or refused before, and however the     *)
(* handlers of the library were delayed.                                   *)
LinkHeals ==
    <>[](reachable /\ ~closed) => []<>(link = "up" /\ connected)

(* mqtt.go calls it a clean disconnect: the link of a client that was       *)
(* closed never comes up again.                                            *)
ClosedStaysClosed == closed => link = "off"
=============================================================================
