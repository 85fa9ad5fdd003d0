----------------------------- MODULE LinkProofs -----------------------------
(***************************************************************************)
(* What TLAPS proves of the links of the bridge to the outside: CloudLink, *)
(* for any number of requests, timeouts, losses and concurrent reconnects, *)
(* and DirectSync, for any keys, values, retries, failures and resenders.  *)
(***************************************************************************)
EXTENDS CloudLink, DirectSync, FiniteSetTheorems, TLAPS

-----------------------------------------------------------------------------
(* CloudLink: the fate of an answer *)

\* An entry is taken out of the tracker only with an answer or a closed channel
\* for its request, and a closed channel is in no entry.
EntriesAnswered ==
    \A r \in Requests :
        /\ pc[r] = "idle" => channel[r] = "empty" /\ r \notin tracker
        /\ pc[r] \in {"added", "waiting"} /\ r \notin tracker => channel[r] \in {"data", "closed"}
        /\ channel[r] = "closed" => r \notin tracker

AnswerInv == RequestTypes /\ EntriesAnswered /\ AnswerReachesRequest

LEMMA AnswerInit == CloudInit => AnswerInv
BY DEF CloudInit, NewRequestTracker, AnswerInv, RequestTypes, EntriesAnswered,
   AnswerReachesRequest

\* SendCommand and the wait for its answer
LEMMA RequestKeepsAnswers ==
  ASSUME AnswerInv, NEW r \in Requests, Add(r) \/ RequestStep(r)
  PROVE  AnswerInv'
<1> USE DEF AnswerInv, RequestTypes
<1>1. CASE Add(r)
  <2>1. /\ pc[r] = "idle" /\ pc' = [pc EXCEPT ![r] = "added"] /\ tracker' = tracker \cup {r}
        /\ UNCHANGED <<channel, unsolicited>>
    BY <1>1 DEF Add
  <2>2. QED
    BY <2>1 DEF EntriesAnswered, AnswerReachesRequest
<1>2. CASE RequestStep(r)
  <2>1. /\ pc[r] \in {"added", "waiting"} /\ UNCHANGED <<channel, tracker, unsolicited>>
        /\ pc' = [pc EXCEPT ![r] = "done"] \/ pc' = [pc EXCEPT ![r] = "waiting"]
    BY <1>2 DEF RequestStep, Publish, Receive, Timeout
  <2>2. QED
    BY <2>1 DEF EntriesAnswered, AnswerReachesRequest
<1>3. QED
  BY <1>1, <1>2

\* handleMessage
LEMMA HandlerKeepsAnswers ==
  ASSUME AnswerInv, NEW r \in Requests, HandleAnswer(r)
  PROVE  AnswerInv'
<1> USE DEF AnswerInv, RequestTypes
<1>1. /\ pc' = pc /\ pc[r] \in {"waiting", "done"} /\ channel[r] # "data" /\ r \notin unsolicited
  BY DEF HandleAnswer
<1>2. CASE r \in tracker
  <2>1. /\ tracker' = tracker \ {r} /\ channel' = [channel EXCEPT ![r] = "data"]
        /\ unsolicited' = unsolicited
    BY <1>2 DEF HandleAnswer, Complete
  <2>2. QED
    BY <1>1, <2>1 DEF EntriesAnswered, AnswerReachesRequest
<1>3. CASE r \notin tracker
  <2>1. unsolicited' = unsolicited \cup {r} /\ UNCHANGED <<tracker, channel>>
    BY <1>3 DEF HandleAnswer, processIPCResult
  <2>2. QED
    BY <1>1, <1>3, <2>1 DEF EntriesAnswered, AnswerReachesRequest
<1>4. QED
  BY <1>2, <1>3

LEMMA CleanupKeepsAnswers ==
  ASSUME AnswerInv, CleanupTick
  PROVE  AnswerInv'
<1>1. PICK old \in SUBSET tracker : Cleanup(old)
  BY DEF CleanupTick
<1>2. /\ tracker' = tracker \ old /\ UNCHANGED <<pc, unsolicited>>
      /\ channel' = [r \in Requests |-> IF r \in old THEN "closed" ELSE channel[r]]
  BY <1>1 DEF Cleanup
<1>3. \A r \in Requests : channel'[r] = IF r \in old THEN "closed" ELSE channel[r]
  BY <1>2
<1>4. RequestTypes'
  BY <1>2 DEF AnswerInv, RequestTypes
<1>5. EntriesAnswered'
  <2> SUFFICES ASSUME NEW r \in Requests
               PROVE  /\ pc[r] = "idle" => channel'[r] = "empty" /\ r \notin tracker'
                      /\ pc[r] \in {"added", "waiting"} /\ r \notin tracker' =>
                            channel'[r] \in {"data", "closed"}
                      /\ channel'[r] = "closed" => r \notin tracker'
    BY <1>2 DEF EntriesAnswered
  <2>1. CASE r \in old
    BY <1>2, <1>3, <2>1 DEF AnswerInv, EntriesAnswered
  <2>2. CASE r \notin old
    BY <1>2, <1>3, <2>2 DEF AnswerInv, EntriesAnswered
  <2>3. QED
    BY <2>1, <2>2
<1>6. AnswerReachesRequest'
  BY <1>2, <1>3 DEF AnswerInv, RequestTypes, AnswerReachesRequest
<1>7. QED
  BY <1>4, <1>5, <1>6 DEF AnswerInv

LEMMA AnswerStep ==
  ASSUME AnswerInv, [CloudNext]_cloudVars
  PROVE  AnswerInv'
<1>1. CASE \/ HandlePush \/ ReconnectTick \/ LoopStops
           \/ \E g \in Reconnectors : ForceDisconnect(g) \/ ForceConnect(g)
           \/ Outage \/ OutageEnds \/ LibraryReconnects \/ HandlerStep \/ Disconnect
           \/ UNCHANGED cloudVars
  <2>1. UNCHANGED requestVars
    BY <1>1
    DEF HandlePush, ReconnectTick, LoopStops, ForceDisconnect, ForceConnect, Outage,
        OutageEnds, LibraryReconnects, HandlerStep, OnConnect, Subscribe, OnConnectionLost,
        Disconnect, cloudVars
  <2>2. QED
    BY <2>1
    DEF requestVars, AnswerInv, RequestTypes, EntriesAnswered, AnswerReachesRequest
<1>2. QED
  BY <1>1, RequestKeepsAnswers, HandlerKeepsAnswers, CleanupKeepsAnswers DEF CloudNext

\* An answer passes by its request only when the request is over or its channel
\* was closed, for any number of requests and whatever the link does
\* (RequestTracker.Add, Complete, Cleanup; handleMessage).
THEOREM AnswersReachRequests == CloudSpec => []AnswerReachesRequest
<1>1. CloudSpec => []AnswerInv
  BY AnswerInit, AnswerStep, PTL DEF CloudSpec
<1>2. AnswerInv => AnswerReachesRequest
  BY DEF AnswerInv
<1>3. QED
  BY <1>1, <1>2, PTL

-----------------------------------------------------------------------------
(* CloudLink: types, and the count of timeouts *)

\* The requests that are over are finitely many, and a timeout that is counted
\* is the end of one of them.
TimeoutsCounted == IsFiniteSet(Over) /\ timeouts \in 0 .. Cardinality(Over)

LEMMA CountStays ==
  ASSUME TimeoutsCounted, Over' = Over, timeouts' \in {0, timeouts}
  PROVE  TimeoutsCounted'
<1>1. Cardinality(Over) \in Nat
  BY FS_CardinalityType DEF TimeoutsCounted
<1>2. QED
  BY <1>1 DEF TimeoutsCounted

\* one more request is over
LEMMA CountGrows ==
  ASSUME TimeoutsCounted, NEW r, r \notin Over, Over' = Over \cup {r},
         timeouts' \in {0, timeouts, timeouts + 1}
  PROVE  TimeoutsCounted'
<1>1. Cardinality(Over) \in Nat
  BY FS_CardinalityType DEF TimeoutsCounted
<1>2. IsFiniteSet(Over') /\ Cardinality(Over') = Cardinality(Over) + 1
  BY FS_AddElement DEF TimeoutsCounted
<1>3. QED
  BY <1>1, <1>2 DEF TimeoutsCounted

LEMMA CountInit == CloudInit => TimeoutsCounted
<1> SUFFICES ASSUME CloudInit PROVE TimeoutsCounted
  OBVIOUS
<1>1. Over = {}
  BY DEF CloudInit, Over
<1>2. QED
  BY <1>1, FS_EmptySet DEF CloudInit, TimeoutsCounted

LEMMA CountStep ==
  ASSUME RequestTypes, TimeoutsCounted, [CloudNext]_cloudVars
  PROVE  TimeoutsCounted'
<1>1. ASSUME NEW r \in Requests, Add(r) \/ RequestStep(r)
      PROVE  TimeoutsCounted'
  <2>1. /\ pc[r] \in {"idle", "added", "waiting"}
        /\ pc' \in {[pc EXCEPT ![r] = "added"], [pc EXCEPT ![r] = "waiting"],
                    [pc EXCEPT ![r] = "done"]}
    BY <1>1 DEF Add, RequestStep, Publish, Receive, Timeout
  <2>2. \/ timeouts' \in {0, timeouts}
        \/ pc' = [pc EXCEPT ![r] = "done"] /\ timeouts' = timeouts + 1
    BY <1>1 DEF Add, RequestStep, Publish, Receive, Timeout
  <2>3. CASE pc' = [pc EXCEPT ![r] = "done"]
    <3>1. r \notin Over /\ Over' = Over \cup {r}
      BY <2>1, <2>3 DEF Over, RequestTypes
    <3>2. QED
      BY <2>2, <3>1, CountGrows
  <2>4. CASE pc' # [pc EXCEPT ![r] = "done"]
    <3>1. Over' = Over
      BY <2>1, <2>4 DEF Over, RequestTypes
    <3>2. QED
      BY <2>2, <2>4, <3>1, CountStays
  <2>5. QED
    BY <2>3, <2>4
<1>2. CASE \/ \E r \in Requests : HandleAnswer(r)
           \/ HandlePush \/ CleanupTick \/ ReconnectTick \/ LoopStops
           \/ \E g \in Reconnectors : ForceDisconnect(g) \/ ForceConnect(g)
           \/ Outage \/ OutageEnds \/ LibraryReconnects \/ HandlerStep \/ Disconnect
           \/ UNCHANGED cloudVars
  <2>1. pc' = pc /\ timeouts' \in {0, timeouts}
    BY <1>2
    DEF HandleAnswer, HandlePush, CleanupTick, Cleanup, ReconnectTick, LoopStops, ForceDisconnect,
        ForceConnect, Outage, OutageEnds, LibraryReconnects, HandlerStep, OnConnect, Subscribe,
        OnConnectionLost, Disconnect, cloudVars, requestVars
  <2>2. QED
    BY <2>1, CountStays DEF Over
<1>3. QED
  BY <1>1, <1>2 DEF CloudNext

LEMMA HandlersCounted ==
  ASSUME NEW hs \in [Handlers -> 0 .. MaxHandlers], NEW h \in Handlers
  PROVE  /\ hs[h] < MaxHandlers => Started(hs, h) \in [Handlers -> 0 .. MaxHandlers]
         /\ hs[h] > 0 => Ended(hs, h) \in [Handlers -> 0 .. MaxHandlers]
BY LinkAssumption DEF Started, Ended

LEMMA LinkTypesInit == CloudInit => LinkTypes
<1> SUFFICES ASSUME CloudInit PROVE LinkTypes
  OBVIOUS
<1>1. handlers \in [Handlers -> 0 .. MaxHandlers] /\ losses \in 0 .. MaxLosses
  BY LinkAssumption DEF CloudInit
<1>2. QED
  BY <1>1 DEF CloudInit, LinkTypes

LEMMA LinkTypesStep ==
  ASSUME LinkTypes, [CloudNext]_cloudVars
  PROVE  LinkTypes'
<1> USE DEF requestVars, handlerVars, linkVars
<1>1. ASSUME NEW r \in Requests, Add(r) \/ RequestStep(r)
      PROVE  LinkTypes'
  <2>1. /\ \/ reconnect' = reconnect
           \/ \E g \in Forced : reconnect' = [reconnect EXCEPT ![g] = "launched"]
        /\ UNCHANGED <<handlerVars, linkVars>>
    BY <1>1 DEF Add, RequestStep, Publish, Receive, Timeout
  <2>2. reconnect' \in [Reconnectors -> {"none", "launched", "sleeping"}]
    BY <2>1 DEF LinkTypes, Reconnectors
  <2>3. QED
    BY <2>1, <2>2 DEF LinkTypes
<1>2. CASE (\E r \in Requests : HandleAnswer(r)) \/ CleanupTick \/ UNCHANGED cloudVars
  <2>1. UNCHANGED <<reconnect, handlerVars, linkVars>>
    BY <1>2 DEF HandleAnswer, CleanupTick, Cleanup, cloudVars
  <2>2. QED
    BY <2>1 DEF LinkTypes
<1>3. CASE HandlePush \/ ReconnectTick \/ LoopStops \/ Disconnect \/ OutageEnds
  <2>1. /\ reconnect' = reconnect \/ reconnect' = [reconnect EXCEPT !["ticker"] = "launched"]
        /\ loop' \in BOOLEAN /\ closed' \in BOOLEAN /\ reachable' \in BOOLEAN
        /\ link' \in {link, "off"} /\ available' \in {available, "offline"}
        /\ UNCHANGED <<connected, handlers, losses>>
    BY <1>3
    DEF HandlePush, ReconnectTick, LoopStops, Disconnect, OutageEnds, setAvailability, LinkTypes
  <2>2. reconnect' \in [Reconnectors -> {"none", "launched", "sleeping"}]
    BY <2>1 DEF LinkTypes, Reconnectors
  <2>3. QED
    BY <2>1, <2>2 DEF LinkTypes
<1>4. ASSUME NEW g \in Reconnectors, ForceDisconnect(g) \/ ForceConnect(g)
      PROVE  LinkTypes'
  <2>1. \E s \in {"sleeping", "none"} : reconnect' = [reconnect EXCEPT ![g] = s]
    BY <1>4 DEF ForceDisconnect, ForceConnect
  <2>2. reconnect' \in [Reconnectors -> {"none", "launched", "sleeping"}]
    BY <2>1 DEF LinkTypes
  <2>3. \/ handlers' = handlers
        \/ Room({"onConnect"}) /\ handlers' = Started(handlers, "onConnect")
    BY <1>4 DEF ForceDisconnect, ForceConnect
  <2>4. handlers' \in [Handlers -> 0 .. MaxHandlers]
    BY <2>3, HandlersCounted DEF Room, Handlers, LinkTypes
  <2>5. connected' \in BOOLEAN
    BY <1>4 DEF ForceDisconnect, ForceConnect, LinkTypes
  <2>6. /\ link' \in {link, "off", "up"} /\ available' \in {available, "offline"}
        /\ UNCHANGED <<reachable, loop, closed, losses>>
    BY <1>4 DEF ForceDisconnect, ForceConnect, setAvailability
  <2>7. QED
    BY <2>2, <2>4, <2>5, <2>6 DEF LinkTypes
<1>5. CASE Outage \/ LibraryReconnects
  <2>1. \/ handlers' = handlers
        \/ \E h \in {"onConnect", "onConnectionLost"} :
              Room({h}) /\ handlers' = Started(handlers, h)
    BY <1>5 DEF Outage, LibraryReconnects
  <2>2. handlers' \in [Handlers -> 0 .. MaxHandlers]
    BY <2>1, HandlersCounted DEF Room, Handlers, LinkTypes
  <2>3. losses' \in 0 .. MaxLosses
    BY <1>5, LinkAssumption DEF Outage, LibraryReconnects, LinkTypes
  <2>4. reachable' \in BOOLEAN
    BY <1>5 DEF Outage, LibraryReconnects, LinkTypes
  <2>5. /\ link' \in {link, "retrying", "up"}
        /\ UNCHANGED <<reconnect, connected, available, loop, closed>>
    BY <1>5 DEF Outage, LibraryReconnects
  <2>6. QED
    BY <2>2, <2>3, <2>4, <2>5 DEF LinkTypes
<1>6. CASE HandlerStep
  <2>1. \/ /\ handlers["onConnect"] > 0 /\ Room({"subscribe"})
           /\ handlers' = Started(Ended(handlers, "onConnect"), "subscribe")
        \/ \E h \in {"subscribe", "onConnectionLost"} :
              handlers[h] > 0 /\ handlers' = Ended(handlers, h)
    BY <1>6 DEF HandlerStep, OnConnect, Subscribe, OnConnectionLost
  <2>2. handlers' \in [Handlers -> 0 .. MaxHandlers]
    <3>1. CASE \E h \in {"subscribe", "onConnectionLost"} :
                  handlers[h] > 0 /\ handlers' = Ended(handlers, h)
      BY <3>1, HandlersCounted DEF Handlers, LinkTypes
    <3>2. CASE /\ handlers["onConnect"] > 0 /\ Room({"subscribe"})
               /\ handlers' = Started(Ended(handlers, "onConnect"), "subscribe")
      <4>1. Ended(handlers, "onConnect") \in [Handlers -> 0 .. MaxHandlers]
        BY <3>2, HandlersCounted DEF Handlers, LinkTypes
      <4>2. Ended(handlers, "onConnect")["subscribe"] < MaxHandlers
        BY <3>2 DEF Ended, Room, Handlers, LinkTypes
      <4>3. QED
        BY <3>2, <4>1, <4>2, HandlersCounted DEF Handlers
    <3>3. QED
      BY <2>1, <3>1, <3>2
  <2>3. connected' \in BOOLEAN
    BY <1>6 DEF HandlerStep, OnConnect, Subscribe, OnConnectionLost, LinkTypes
  <2>4. /\ available' \in {available, "online", "offline"}
        /\ UNCHANGED <<reconnect, linkVars>>
    BY <1>6 DEF HandlerStep, OnConnect, Subscribe, OnConnectionLost, setAvailability
  <2>5. QED
    BY <2>2, <2>3, <2>4 DEF LinkTypes
<1>7. QED
  BY <1>1, <1>2, <1>3, <1>4, <1>5, <1>6 DEF CloudNext

\* The types of the cloud link; no timeout is counted twice, and none without a
\* request that gave up, whatever answers and reconnects reset meanwhile
\* (recordTimeout, resetTimeouts, forceReconnect).
THEOREM CloudTypeCorrect == CloudSpec => []CloudTypeOK
<1>1. RequestTypes /\ LinkTypes /\ TimeoutsCounted => CloudTypeOK
  BY DEF TimeoutsCounted, CloudTypeOK
<1>2. QED
  BY <1>1, AnswerInit, AnswerStep, CountInit, CountStep, LinkTypesInit, LinkTypesStep, PTL
  DEF CloudSpec, AnswerInv

-----------------------------------------------------------------------------
(* DirectSync *)

\* An item is being pushed whenever the sender is in Push.
TypeInv == TypeOK /\ (sender = "pushing" => sending # Nothing)

LEMMA OrderIsKey == \A i \in DOMAIN Order : Order[i] \in Key
BY DEF Key

LEMMA FieldIsKey == \A k \in Field : k \in Key
BY DEF Field

\* enqueue puts the item there and says so, or leaves everything as it was.
LEMMA EnqueueEffects ==
  ASSUME TypeOK, NEW k \in Key, NEW item \in Item, enqueue(k, item)
  PROVE  /\ pending' \in [Key -> Item \cup {Nothing}] /\ signalling' \in BOOLEAN
         /\ \/ UNCHANGED <<pending, signalling>>
            \/ signalling' = TRUE /\ pending' = [pending EXCEPT ![k] = item]
         /\ \A j \in Key : pending[j] # Nothing => pending'[j] # Nothing
         /\ item.force /\ item.attempts = 0 => pending'[k] # Nothing
<1>0. item # Nothing /\ pending \in [Key -> Item \cup {Nothing}] /\ signalling \in BOOLEAN
  BY NothingAssumption DEF TypeOK
<1>1. CASE Redundant(k, item)
  <2>1. UNCHANGED <<pending, signalling>>
    BY <1>1, Zenon DEF enqueue
  <2>2. item.force /\ item.attempts = 0 => pending[k] # Nothing
    BY <1>1 DEF Redundant
  <2>3. QED
    BY <1>0, <2>1, <2>2, Zenon
<1>2. CASE ~Redundant(k, item)
  <2>1. signalling' = TRUE /\ pending' = [pending EXCEPT ![k] = item]
    BY <1>2, Zenon DEF enqueue
  <2>2. pending' \in [Key -> Item \cup {Nothing}]
    BY <1>0, <2>1
  <2>3. (\A j \in Key : pending[j] # Nothing => pending'[j] # Nothing) /\ pending'[k] # Nothing
    BY <1>0, <2>1
  <2>4. QED
    BY <2>1, <2>2, <2>3, Zenon
<1>3. QED
  BY <1>1, <1>2

LEMMA FreshIsItem ==
  /\ \A v \in Value : fresh(v) \in Item
  /\ \A v \in Value, b \in BOOLEAN : [value |-> v, attempts |-> 0, force |-> b] \in Item
BY RetryAssumption DEF fresh, Item

-----------------------------------------------------------------------------
(* Types *)

LEMMA TypeInit == Init => TypeInv
<1> SUFFICES ASSUME Init PROVE TypeInv
  OBVIOUS
<1>1. /\ truth \in [Key -> Value] /\ pending \in [Key -> Item \cup {Nothing}]
      /\ acked \in [Key -> Value \cup {Nothing}] /\ remote \in [Key -> Value \cup {Nothing}]
  BY KeyAssumption DEF Init
<1>2. resend \in [Resender -> [phase : {"idle", "reading", "enqueuing"},
                               todo : SUBSET (Key \X Value)]]
  BY DEF Init, Idle
<1>3. QED
  BY <1>1, <1>2 DEF Init, TypeInv, TypeOK

LEMMA EnqueuersKeepTypes ==
  ASSUME TypeInv,
         \/ \E k \in Field, v \in Value : Update(k, v)
         \/ UpdateInstallation
         \/ \E r \in Resender : ResendEnqueue(r)
         \/ \E t \in timers : RetryDue(t[1], t[2])
  PROVE  TypeInv'
<1> USE DEF TypeInv
<1>1. ASSUME NEW k \in Field, NEW v \in Value, Update(k, v)
      PROVE  TypeInv'
  <2>1. pending' \in [Key -> Item \cup {Nothing}] /\ signalling' \in BOOLEAN
    BY <1>1, EnqueueEffects, FreshIsItem, FieldIsKey DEF Update
  <2>2. QED
    BY <1>1, <2>1 DEF Update, TypeOK, channels, bounds
<1>2. CASE UpdateInstallation
  <2>1. Heartbeat \in Key /\ truth[Heartbeat] \in Value
    BY KeyAssumption DEF TypeOK
  <2>2. pending' \in [Key -> Item \cup {Nothing}] /\ signalling' \in BOOLEAN
    BY <1>2, <2>1, EnqueueEffects, FreshIsItem DEF UpdateInstallation
  <2>3. QED
    BY <1>2, <2>2 DEF UpdateInstallation, TypeOK, store, channels, bounds
<1>3. ASSUME NEW r \in Resender, ResendEnqueue(r)
      PROVE  TypeInv'
  <2>1. PICK t \in resend[r].todo :
           /\ enqueue(t[1], [value |-> t[2], attempts |-> 0, force |-> TRUE])
           /\ resend' = [resend EXCEPT ![r].todo = @ \ {t}]
    BY <1>3 DEF ResendEnqueue
  <2>2. t[1] \in Key /\ t[2] \in Value
    BY <2>1 DEF TypeOK
  <2>3. pending' \in [Key -> Item \cup {Nothing}] /\ signalling' \in BOOLEAN
    BY <2>1, <2>2, EnqueueEffects, FreshIsItem
  <2>4. resend' \in [Resender -> [phase : {"idle", "reading", "enqueuing"},
                                  todo : SUBSET (Key \X Value)]]
    BY <2>1 DEF TypeOK
  <2>5. QED
    BY <1>3, <2>3, <2>4 DEF ResendEnqueue, TypeOK, store, channels, bounds
<1>4. ASSUME NEW t \in timers, RetryDue(t[1], t[2])
      PROVE  TypeInv'
  <2>1. t[1] \in Key /\ t[2] \in Item
    BY DEF TypeOK
  <2>2. pending' \in [Key -> Item \cup {Nothing}] /\ signalling' \in BOOLEAN
    BY <1>4, <2>1, EnqueueEffects DEF RetryDue
  <2>3. QED
    BY <1>4, <2>2 DEF RetryDue, TypeOK, store, channels, bounds
<1>5. QED
  BY <1>1, <1>2, <1>3, <1>4

LEMMA PushesKeepTypes ==
  ASSUME TypeInv, PushSucceeds \/ PushFails
  PROVE  TypeInv'
<1> USE DEF TypeInv
<1>1. sending[1] \in Key /\ sending[2] \in Item /\ sending[2].value \in Value
  BY DEF PushSucceeds, PushFails, TypeOK, Item
<1>2. /\ sender' = "draining" /\ sending' = Nothing
      /\ UNCHANGED <<truth, notices, pending, signalling, wake, stop, lock, events>>
  BY DEF PushSucceeds, PushFails, NextItem, store, channels, bounds
<1>3. remote' \in [Key -> Value \cup {Nothing}]
  BY <1>1 DEF PushSucceeds, PushFails, TypeOK
<1>4. acked' \in [Key -> Value \cup {Nothing}]
  BY <1>1 DEF PushSucceeds, PushFails, TypeOK
<1>5. disconnected' \in BOOLEAN
  BY DEF PushSucceeds, PushFails, Failed, TypeOK
<1>6. failures' \in Nat
  BY DEF PushSucceeds, PushFails, bounds, TypeOK
<1>7. timers' \subseteq Key \X Item
  <2>1. sending[2].attempts < MaxRetries => Counted(sending[2]) \in Item
    BY <1>1, RetryAssumption DEF Counted, Item
  <2>2. QED
    BY <1>1, <2>1 DEF PushSucceeds, PushFails, TypeOK
<1>8. resend' \in [Resender -> [phase : {"idle", "reading", "enqueuing"},
                                todo : SUBSET (Key \X Value)]]
  BY DEF PushSucceeds, PushFails, Reconnect, TypeOK
<1>9. QED
  BY <1>2, <1>3, <1>4, <1>5, <1>6, <1>7, <1>8 DEF TypeOK

LEMMA TypeStep ==
  ASSUME TypeInv, [Next]_vars
  PROVE  TypeInv'
<1> USE DEF TypeInv
<1>1. ASSUME NEW k \in Field, NEW v \in Value, Poll(k) \/ Observe(k, v)
      PROVE  TypeInv'
  <2>1. truth' \in [Key -> Value] /\ notices' \subseteq Key \X Value
    BY <1>1, FieldIsKey DEF Poll, Observe, update, TypeOK
  <2>2. events' \in Nat
    BY <1>1 DEF Poll, Observe, TypeOK
  <2>3. QED
    BY <1>1, <2>1, <2>2 DEF Poll, Observe, update, TypeOK, channels
<1>2. CASE \/ \E k \in Field, v \in Value : Update(k, v)
           \/ UpdateInstallation
           \/ \E r \in Resender : ResendEnqueue(r)
           \/ \E t \in timers : RetryDue(t[1], t[2])
  BY <1>2, EnqueuersKeepTypes
<1>3. CASE ResendDirectSnapshots
  <2>1. resend' \in [Resender -> [phase : {"idle", "reading", "enqueuing"},
                                  todo : SUBSET (Key \X Value)]]
    BY <1>3, ResenderAssumption DEF ResendDirectSnapshots, TypeOK
  <2>2. QED
    BY <1>3, <2>1 DEF ResendDirectSnapshots, TypeOK, store, channels
<1>4. ASSUME NEW r \in Resender, ResendRead(r) \/ ResendDone(r)
      PROVE  TypeInv'
  <2>1. resend' \in [Resender -> [phase : {"idle", "reading", "enqueuing"},
                                  todo : SUBSET (Key \X Value)]]
    BY <1>4 DEF ResendRead, ResendDone, Idle, TypeOK
  <2>2. lock' \in {"free", "resend", "close"}
    BY <1>4 DEF ResendRead, ResendDone, TypeOK
  <2>3. QED
    BY <1>4, <2>1, <2>2 DEF ResendRead, ResendDone, TypeOK, store, channels, bounds
<1>5. CASE TakeNext
  <2>1. PICK k \in Key : /\ First(k) /\ sending' = <<k, pending[k]>>
                         /\ pending' = [pending EXCEPT ![k] = Nothing]
    BY <1>5 DEF TakeNext
  <2>2. sending' \in Key \X Item /\ pending' \in [Key -> Item \cup {Nothing}]
    BY <2>1 DEF First, TypeOK
  <2>3. QED
    BY <1>5, <2>2, NothingAssumption DEF TakeNext, TypeOK, store, channels, bounds
<1>6. CASE PushSucceeds \/ PushFails
  BY <1>6, PushesKeepTypes
<1>7. CASE Signal \/ Woken \/ Stopped \/ NothingLeft \/ Close \/ CloseReturns \/ UNCHANGED vars
  BY <1>7
  DEF Signal, Woken, Stopped, NothingLeft, Close, CloseReturns, TypeOK, vars, store, channels,
      bounds
<1>8. QED
  <2>1. ASSUME NEW k \in Field, Poll(k)
        PROVE  TypeInv'
    BY <1>1, <2>1, KeyAssumption
  <2>2. QED
    BY <1>1, <1>2, <1>3, <1>4, <1>5, <1>6, <1>7, <2>1 DEF Next, Resend, Sender

\* The types of the state, for any keys, values and bounds.
THEOREM TypeCorrect == Spec => []TypeOK
<1>1. Spec => []TypeInv
  BY TypeInit, TypeStep, PTL DEF Spec
<1>2. TypeInv => TypeOK
  BY DEF TypeInv
<1>3. QED
  BY <1>1, <1>2, PTL

-----------------------------------------------------------------------------
(* Wake ups *)

\* Whoever makes a key pending announces it, and the sender goes to sleep
\* only when nothing is pending.
LEMMA WakeStep ==
  ASSUME TypeInv, NoLostWake, [Next]_vars
  PROVE  NoLostWake'
<1> USE DEF TypeInv, NoLostWake
<1>1. ASSUME NEW k \in Field, NEW v \in Value, Update(k, v)
      PROVE  NoLostWake'
  <2>1. UNCHANGED <<pending, signalling>> \/ signalling' = TRUE
    BY <1>1, EnqueueEffects, FreshIsItem, FieldIsKey DEF Update
  <2>2. UNCHANGED <<sender, wake>>
    BY <1>1 DEF Update, channels
  <2>3. QED
    BY <2>1, <2>2
<1>2. CASE UpdateInstallation
  <2>1. Heartbeat \in Key /\ truth[Heartbeat] \in Value
    BY KeyAssumption DEF TypeOK
  <2>2. UNCHANGED <<pending, signalling>> \/ signalling' = TRUE
    BY <1>2, <2>1, EnqueueEffects, FreshIsItem DEF UpdateInstallation
  <2>3. UNCHANGED <<sender, wake>>
    BY <1>2 DEF UpdateInstallation, channels
  <2>4. QED
    BY <2>2, <2>3
<1>3. ASSUME NEW r \in Resender, ResendEnqueue(r)
      PROVE  NoLostWake'
  <2>1. PICK t \in resend[r].todo :
           enqueue(t[1], [value |-> t[2], attempts |-> 0, force |-> TRUE])
    BY <1>3 DEF ResendEnqueue
  <2>2. t[1] \in Key /\ t[2] \in Value
    BY <2>1 DEF TypeOK
  <2>3. UNCHANGED <<pending, signalling>> \/ signalling' = TRUE
    BY <2>1, <2>2, EnqueueEffects, FreshIsItem
  <2>4. UNCHANGED <<sender, wake>>
    BY <1>3 DEF ResendEnqueue, channels
  <2>5. QED
    BY <2>3, <2>4
<1>4. ASSUME NEW t \in timers, RetryDue(t[1], t[2])
      PROVE  NoLostWake'
  <2>1. t[1] \in Key /\ t[2] \in Item
    BY DEF TypeOK
  <2>2. UNCHANGED <<pending, signalling>> \/ signalling' = TRUE
    BY <1>4, <2>1, EnqueueEffects DEF RetryDue
  <2>3. UNCHANGED <<sender, wake>>
    BY <1>4 DEF RetryDue, channels
  <2>4. QED
    BY <2>2, <2>3
<1>5. CASE Woken \/ Stopped \/ TakeNext \/ PushSucceeds \/ PushFails
  <2>1. sender' # "waiting"
    BY <1>5 DEF Woken, Stopped, TakeNext, PushSucceeds, PushFails, NextItem
  <2>2. QED
    BY <2>1
<1>6. CASE Signal \/ NothingLeft
  <2>1. wake' \/ \A k \in Key : pending'[k] = Nothing
    BY <1>6 DEF Signal, NothingLeft
  <2>2. QED
    BY <2>1
<1>7. CASE UNCHANGED <<sender, pending, wake, signalling>>
  BY <1>7
<1>8. QED
  BY <1>1, <1>2, <1>3, <1>4, <1>5, <1>6, <1>7, KeyAssumption
  DEF Next, Resend, Sender, Poll, Observe, update, ResendDirectSnapshots, ResendRead, ResendDone,
      Close, CloseReturns, vars, channels

\* The sender goroutine never sleeps on a pending value.
THEOREM NoWakeIsLost == Spec => []NoLostWake
<1>1. Init => TypeInv /\ NoLostWake
  BY TypeInit DEF Init, NoLostWake
<1>2. TypeInv /\ NoLostWake /\ [Next]_vars => (TypeInv /\ NoLostWake)'
  BY TypeStep, WakeStep
<1>3. QED
  BY <1>1, <1>2, PTL DEF Spec

-----------------------------------------------------------------------------
(* Close *)

\* integrationMu is held by the request to resend until it is through and by
\* Close until the sender has left run; a closed synchronizer whose lock is
\* free has no sender.
CloseInv ==
  /\ lock = "resend" => ~stop
  /\ resend[OnRequest].phase # "idle" => lock = "resend"
  /\ lock = "free" /\ stop => sender = "done"

LEMMA CloseInit == Init => CloseInv
BY ResenderAssumption DEF Init, CloseInv

LEMMA CloseStep ==
  ASSUME TypeInv, CloseInv, [Next]_vars
  PROVE  CloseInv'
<1> USE ResenderAssumption DEF TypeInv, CloseInv
<1>1. CASE UNCHANGED <<lock, stop, sender, resend>>
  BY <1>1
<1>2. CASE Woken \/ Stopped \/ TakeNext \/ NothingLeft
  BY <1>2 DEF Woken, Stopped, TakeNext, NothingLeft, channels
<1>3. CASE PushSucceeds \/ PushFails
  <2>1. sender # "done" /\ UNCHANGED <<lock, stop>>
    BY <1>3 DEF PushSucceeds, PushFails, channels
  <2>2. resend'[OnRequest] = resend[OnRequest]
    BY <1>3 DEF PushSucceeds, PushFails, Reconnect, TypeOK
  <2>3. QED
    BY <2>1, <2>2
<1>4. ASSUME NEW r \in Resender, Resend(r)
      PROVE  CloseInv'
  <2>1. UNCHANGED <<stop, sender>>
    BY <1>4 DEF Resend, ResendRead, ResendEnqueue, ResendDone, channels
  <2>2. CASE ResendRead(r) \/ ResendEnqueue(r)
    <3>1. UNCHANGED lock
      BY <2>2 DEF ResendRead, ResendEnqueue
    <3>2. resend'[OnRequest].phase # "idle" => resend[OnRequest].phase # "idle"
      <4>1. CASE ResendRead(r)
        BY <4>1 DEF ResendRead, TypeOK
      <4>2. CASE ResendEnqueue(r)
        <5>1. PICK t \in resend[r].todo : resend' = [resend EXCEPT ![r].todo = @ \ {t}]
          BY <4>2 DEF ResendEnqueue
        <5>2. resend'[OnRequest].phase = resend[OnRequest].phase
          BY <5>1 DEF TypeOK
        <5>3. QED
          BY <5>2
      <4>3. QED
        BY <2>2, <4>1, <4>2
    <3>3. QED
      BY <2>1, <3>1, <3>2
  <2>3. CASE ResendDone(r)
    BY <2>1, <2>3 DEF ResendDone, Idle, TypeOK
  <2>4. QED
    BY <1>4, <2>2, <2>3 DEF Resend
<1>5. CASE ResendDirectSnapshots
  BY <1>5 DEF ResendDirectSnapshots, TypeOK, channels
<1>6. CASE Close \/ CloseReturns
  BY <1>6 DEF Close, CloseReturns, channels
<1>7. QED
  BY <1>1, <1>2, <1>3, <1>4, <1>5, <1>6
  DEF Next, Sender, Poll, Observe, update, Update, UpdateInstallation, RetryDue, Signal,
      vars, channels

\* A closed synchronizer changes no Virtual Input.
THEOREM ClosedPushesNothing == Spec => NoPushAfterClose
<1>1. Init => TypeInv /\ CloseInv
  BY TypeInit, CloseInit
<1>2. TypeInv /\ CloseInv /\ [Next]_vars => (TypeInv /\ CloseInv)'
  BY TypeStep, CloseStep
<1>3. CloseInv /\ [Next]_vars => [(stop /\ lock = "free") => UNCHANGED remote]_vars
  <2> SUFFICES ASSUME CloseInv, [Next]_vars, stop, lock = "free"
               PROVE  UNCHANGED remote
    OBVIOUS
  <2>1. sender # "pushing"
    BY DEF CloseInv
  <2>2. QED
    BY <2>1
    DEF Next, Resend, Sender, Poll, Observe, update, Update, UpdateInstallation, RetryDue, Signal,
        ResendDirectSnapshots, ResendRead, ResendEnqueue, ResendDone, Woken, Stopped, TakeNext,
        NothingLeft, PushSucceeds, PushFails, Close, CloseReturns, vars
<1>4. QED
  BY <1>1, <1>2, <1>3, PTL DEF Spec, NoPushAfterClose

-----------------------------------------------------------------------------
(* Doubts *)

\* Nothing is being pushed outside of Push.
SendInv == sender # "pushing" => sending = Nothing

DoubtInv == TypeInv /\ SendInv /\ DoubtIsResolved

LEMMA SendStep ==
  ASSUME SendInv, [Next]_vars
  PROVE  SendInv'
BY DEF SendInv, Next, Resend, Sender, Poll, Observe, update, Update, UpdateInstallation, RetryDue,
       Signal, ResendDirectSnapshots, ResendRead, ResendEnqueue, ResendDone, Woken, Stopped,
       TakeNext, NothingLeft, PushSucceeds, PushFails, Close, CloseReturns, vars

\* What is enqueued stays pending, and nothing else a doubt rests on changes.
LEMMA EnqueuersKeepDoubts ==
  ASSUME DoubtInv,
         UNCHANGED <<remote, acked, disconnected, sending>>,
         \A k \in Key : pending[k] # Nothing => pending'[k] # Nothing,
         \A k \in Field : WillResend(k) => WillResend(k)' \/ pending'[k] # Nothing
  PROVE  DoubtIsResolved'
BY FieldIsKey DEF DoubtInv, DoubtIsResolved

LEMMA UpdatesKeepDoubts ==
  ASSUME DoubtInv,
         \/ \E k \in Field, v \in Value : Update(k, v)
         \/ UpdateInstallation
         \/ \E t \in timers : RetryDue(t[1], t[2])
  PROVE  DoubtIsResolved'
<1> USE DEF DoubtInv, TypeInv
<1>1. UNCHANGED <<remote, acked, disconnected, sending, resend>>
  BY DEF Update, UpdateInstallation, RetryDue
<1>2. \A k \in Key : pending[k] # Nothing => pending'[k] # Nothing
  <2>1. CASE \E k \in Field, v \in Value : Update(k, v)
    BY <2>1, EnqueueEffects, FreshIsItem, FieldIsKey DEF Update
  <2>2. CASE UpdateInstallation
    <3>1. Heartbeat \in Key /\ truth[Heartbeat] \in Value
      BY KeyAssumption DEF TypeOK
    <3>2. QED
      BY <2>2, <3>1, EnqueueEffects, FreshIsItem DEF UpdateInstallation
  <2>3. ASSUME NEW t \in timers, RetryDue(t[1], t[2])
        PROVE  \A k \in Key : pending[k] # Nothing => pending'[k] # Nothing
    <3>1. t[1] \in Key /\ t[2] \in Item
      BY DEF TypeOK
    <3>2. QED
      BY <2>3, <3>1, EnqueueEffects DEF RetryDue
  <2>4. QED
    BY <2>1, <2>2, <2>3
<1>3. \A k \in Field : WillResend(k) => WillResend(k)'
  BY <1>1 DEF WillResend
<1>4. QED
  BY <1>1, <1>2, <1>3, EnqueuersKeepDoubts

LEMMA ResendsKeepDoubts ==
  ASSUME DoubtInv, NEW r \in Resender, Resend(r)
  PROVE  DoubtIsResolved'
<1> USE DEF DoubtInv, TypeInv
<1>1. UNCHANGED <<remote, acked, disconnected, sending>>
  BY DEF Resend, ResendRead, ResendEnqueue, ResendDone
<1>2. CASE ResendRead(r)
  <2>1. UNCHANGED pending
    BY <1>2 DEF ResendRead
  <2>2. \A k \in Field : <<k, truth[k]>> \in resend'[r].todo /\ truth[k] \in Value
    BY <1>2, FieldIsKey DEF ResendRead, TypeOK
  <2>3. \A k \in Field : WillResend(k)'
    BY <2>2 DEF WillResend
  <2>4. QED
    BY <1>1, <2>1, <2>3, EnqueuersKeepDoubts
<1>3. CASE ResendEnqueue(r)
  <2>1. PICK t \in resend[r].todo :
           /\ enqueue(t[1], [value |-> t[2], attempts |-> 0, force |-> TRUE])
           /\ resend' = [resend EXCEPT ![r].todo = @ \ {t}]
    BY <1>3 DEF ResendEnqueue
  <2>2. t[1] \in Key /\ t[2] \in Value /\ t = <<t[1], t[2]>>
    BY <2>1 DEF TypeOK
  <2>3. /\ \A k \in Key : pending[k] # Nothing => pending'[k] # Nothing
        /\ pending'[t[1]] # Nothing
    BY <2>1, <2>2, EnqueueEffects, FreshIsItem
  <2>4. ASSUME NEW k \in Field, WillResend(k), k # t[1]
        PROVE  WillResend(k)'
    <3>1. PICK s \in Resender : \/ resend[s].phase = "reading"
                                \/ \E v \in Value : <<k, v>> \in resend[s].todo
      BY <2>4 DEF WillResend
    <3>2. resend'[s].phase = resend[s].phase
      BY <2>1 DEF TypeOK
    <3>3. \A v \in Value : <<k, v>> \in resend[s].todo => <<k, v>> \in resend'[s].todo
      BY <2>1, <2>2, <2>4 DEF TypeOK
    <3>4. QED
      BY <3>1, <3>2, <3>3 DEF WillResend
  <2>5. QED
    BY <1>1, <2>3, <2>4, EnqueuersKeepDoubts
<1>4. CASE ResendDone(r)
  <2>1. UNCHANGED pending
    BY <1>4 DEF ResendDone
  <2>2. ASSUME NEW k \in Field, WillResend(k)
        PROVE  WillResend(k)'
    <3>1. PICK s \in Resender : \/ resend[s].phase = "reading"
                                \/ \E v \in Value : <<k, v>> \in resend[s].todo
      BY <2>2 DEF WillResend
    <3>2. s # r
      BY <1>4, <3>1 DEF ResendDone
    <3>3. resend'[s] = resend[s]
      BY <1>4, <3>2 DEF ResendDone, TypeOK
    <3>4. QED
      BY <3>1, <3>3 DEF WillResend
  <2>3. QED
    BY <1>1, <2>1, <2>2, EnqueuersKeepDoubts
<1>5. QED
  BY <1>2, <1>3, <1>4 DEF Resend

LEMMA PushesKeepDoubts ==
  ASSUME DoubtInv, TakeNext \/ PushSucceeds \/ PushFails
  PROVE  DoubtIsResolved'
<1> USE DEF DoubtInv, TypeInv
<1>1. CASE TakeNext
  <2>1. PICK j \in Key : /\ First(j) /\ sending' = <<j, pending[j]>>
                         /\ pending' = [pending EXCEPT ![j] = Nothing]
    BY <1>1 DEF TakeNext
  <2>2. sending = Nothing /\ UNCHANGED <<remote, acked, disconnected, resend>>
    BY <1>1 DEF TakeNext, SendInv
  <2>3. sending' # Nothing /\ sending'[1] = j
    BY <2>1, NothingAssumption DEF First, TypeOK
  <2>4. \A k \in Field : k # j => pending'[k] = pending[k]
    BY <2>1, FieldIsKey DEF TypeOK
  <2>5. \A k \in Field : WillResend(k) => WillResend(k)'
    BY <2>2 DEF WillResend
  <2>6. QED
    BY <2>2, <2>3, <2>4, <2>5 DEF DoubtIsResolved
<1>2. CASE PushSucceeds
  <2>1. sending # Nothing /\ sending[1] \in Key
    BY <1>2 DEF PushSucceeds, TypeOK
  <2>2. /\ \A k \in Field : k # sending[1] => remote'[k] = remote[k] /\ acked'[k] = acked[k]
        /\ remote'[sending[1]] = acked'[sending[1]]
    BY <1>2, <2>1, FieldIsKey DEF PushSucceeds, TypeOK
  <2>3. UNCHANGED pending
    BY <1>2 DEF PushSucceeds
  <2>4. CASE disconnected
    <3>1. PICK r \in Resender : resend' = [resend EXCEPT ![r].phase = "reading"]
      BY <1>2, <2>4 DEF PushSucceeds, Reconnect
    <3>2. resend'[r].phase = "reading"
      BY <3>1 DEF TypeOK
    <3>3. QED
      BY <3>2 DEF DoubtIsResolved, WillResend
  <2>5. CASE ~disconnected
    <3>1. UNCHANGED resend
      BY <1>2, <2>5 DEF PushSucceeds
    <3>2. \A k \in Field : WillResend(k) => WillResend(k)'
      BY <3>1 DEF WillResend
    <3>3. QED
      BY <2>2, <2>3, <2>5, <3>2 DEF DoubtIsResolved
  <2>6. QED
    BY <2>4, <2>5
<1>3. CASE PushFails
  <2>1. disconnected'
    BY <1>3 DEF PushFails, Failed
  <2>2. QED
    BY <2>1 DEF DoubtIsResolved
<1>4. QED
  BY <1>1, <1>2, <1>3

LEMMA DoubtStep ==
  ASSUME DoubtInv, [Next]_vars
  PROVE  DoubtInv'
<1>1. TypeInv' /\ SendInv'
  BY TypeStep, SendStep DEF DoubtInv
<1>2. DoubtIsResolved'
  <2>1. CASE UNCHANGED <<remote, acked, disconnected, sending, pending, resend>>
    BY <2>1 DEF DoubtInv, DoubtIsResolved, WillResend
  <2>2. CASE ResendDirectSnapshots
    <3>1. UNCHANGED <<remote, acked, disconnected, sending, pending>>
      BY <2>2 DEF ResendDirectSnapshots
    <3>2. resend'[OnRequest].phase = "reading"
      BY <2>2, ResenderAssumption DEF ResendDirectSnapshots, DoubtInv, TypeInv, TypeOK
    <3>3. \A k \in Field : WillResend(k)'
      BY <3>2, ResenderAssumption DEF WillResend
    <3>4. QED
      BY <3>1, <3>3, EnqueuersKeepDoubts
  <2>3. QED
    BY <2>1, <2>2, UpdatesKeepDoubts, ResendsKeepDoubts, PushesKeepDoubts, KeyAssumption
    DEF Next, Sender, Poll, Observe, update, Signal, Woken, Stopped, NothingLeft, Close,
        CloseReturns, vars
<1>3. QED
  BY <1>1, <1>2 DEF DoubtInv

\* Whenever an input may differ from what the synchronizer believes it holds,
\* something under way or due will push it again.
THEOREM DoubtsGetResolved == Spec => []DoubtIsResolved
<1>1. Init => DoubtInv
  BY TypeInit DEF Init, DoubtInv, SendInv, DoubtIsResolved, Field
<1>2. DoubtInv /\ [Next]_vars => DoubtInv'
  BY DoubtStep
<1>3. DoubtInv => DoubtIsResolved
  BY DEF DoubtInv
<1>4. QED
  BY <1>1, <1>2, <1>3, PTL DEF Spec
=============================================================================
