-------------------------- MODULE CommandLifecycle --------------------------
(***************************************************************************)
(* Commands to one robot and what its activity stream says of them: the    *)
(* CommandCoordinator (roborock/command_coordinator.go) and the            *)
(* LoxoneActivityTracker (roborock/loxone_activity.go) it shares with the  *)
(* status and availability callbacks.                                      *)
(*                                                                         *)
(* Every goroutine changes the tracker under its lock, but publishes the   *)
(* activities it got after unlocking: outbox holds what each goroutine has *)
(* yet to publish.  Time is abstract: a debounce window may end, a timeout *)
(* expire and a call return at any moment.                                 *)
(***************************************************************************)
EXTENDS Naturals, Sequences, FiniteSets, SequencesExt

CONSTANTS MaxCommands, \* bound: commands submitted, with ids 1..MaxCommands
          Command,     \* commands that may be submitted, by their action
          Status,      \* statuses the robot may report
          Reporter,    \* goroutines that report statuses: poll and push
          Room,        \* room ids above 0
          NoStatus     \* no status (yet)

Id == 1..MaxCommands

Action == {"start", "segment_clean", "scene", "pause", "dock", "stop",
           "locate", "set_fan_speed", "set_mop_mode", "set_water_box",
           "empty_dustbin", "stop_emptying", "wash_mop", "stop_washing",
           "dry_mop", "stop_drying"}

(* NormalizeLoxoneState's range.                                           *)
State == {"starting", "idle", "manual", "cleaning", "returning", "charging",
          "docked", "paused", "error", "shutting_down", "updating",
          "going_to_target", "emptying_dustbin", "washing_mop",
          "servicing_dock", "mapping", "unknown"}

(* Of a PublishedStatus: the normalized state, InCleaning, the error code, *)
(* and the commands whose effect one of its other fields shows (fan_speed, *)
(* dust_collection_status, ...).                                           *)
ASSUME CommandAssumption == MaxCommands \in Nat /\ Command \subseteq Action
ASSUME StatusAssumption ==
  /\ \A s \in Status : /\ s.state \in State
                       /\ s.inCleaning \in BOOLEAN
                       /\ s.error \in Nat
                       /\ s.shows \subseteq Action
  /\ NoStatus \notin Status
ASSUME RoomAssumption == Room \subseteq Nat \ {0}

Thread == ({"submit", "dispatch", "expire"} \X Id) \cup ({"report"} \X Reporter)

VARIABLES
  status,      \* device.status, NoStatus while hasStatus is false
  cycleActive, \* device.cycleActive
  room,        \* device.room's ID, 0 if it is nil
  pending,     \* the ids in device.pending
  recent,      \* device.lastCommands: commands within their debounce window
  command,     \* the command of each id
  submit,      \* where SubmitParsed is: "unused", "begun", "returned"
  dispatching, \* where its dispatch goroutine is
  armed,       \* ids whose timeout is running
  inFlight,    \* CommandCoordinator.inFlight
  sample,      \* the status each reporter has read and not yet delivered
  outbox,      \* the activities each goroutine has yet to publish
  last,        \* what FindCommand answers for each id
  mission,     \* what the published events make of the robot's mission
  ended        \* history: terminal activities published for each id

device      == <<status, cycleActive, room, pending, recent>>
coordinator == <<submit, dispatching, armed, inFlight, command>>
published   == <<last, mission, ended>>
vars == <<device, coordinator, sample, outbox, published>>

terminal(state) == state \in {"completed", "failed"}

Activity(id, state) == [id |-> id, state |-> state]
Event(name)         == [id |-> 0, state |-> name]

Init ==
  /\ status = NoStatus
  /\ cycleActive = FALSE
  /\ room = 0
  /\ pending = {}
  /\ recent = {}
  /\ command \in [Id -> Command]
  /\ submit = [i \in Id |-> "unused"]
  /\ dispatching = [i \in Id |-> "none"]
  /\ armed = {}
  /\ inFlight = {}
  /\ sample = [r \in Reporter |-> NoStatus]
  /\ outbox = [t \in Thread |-> <<>>]
  /\ last = [i \in Id |-> "none"]
  /\ mission = "unknown"
  /\ ended = [i \in Id |-> 0]

-----------------------------------------------------------------------------
(* What a status says about a command                                      *)

isLoxoneCleaningState(s) == s.inCleaning \/ s.state = "cleaning"

(* confirmPending's switch; no status confirms "locate".                   *)
Confirms(s, action) ==
  CASE action \in {"start", "segment_clean", "scene"} ->
         isLoxoneCleaningState(s)
    [] action = "pause" -> s.state = "paused"
    [] action = "dock" -> s.state \in {"charging", "docked"}
    [] action = "stop" -> s.state = "idle"
    [] action = "wash_mop" -> s.state = "washing_mop" \/ action \in s.shows
    [] action = "stop_washing" -> s.state # "washing_mop" /\ action \in s.shows
    [] action = "locate" -> FALSE
    [] OTHER -> action \in s.shows

loxoneCommandAlreadySatisfied(action) ==
  action \notin {"segment_clean", "scene"} /\ Confirms(status, action)

(* Without a status every command is incompatible.                         *)
incompatibleLoxoneCommand(action) ==
  LET state    == status.state
      cleaning == isLoxoneCleaningState(status)
      busy     == {"returning", "washing_mop", "servicing_dock",
                   "emptying_dustbin", "updating", "mapping"}
  IN  status # NoStatus =>
        \/ action = "pause" /\ state # "paused" /\ ~cleaning
        \/ /\ action \in {"segment_clean", "scene"}
           /\ cleaning \/ state \in busy \cup {"paused"}
        \/ action = "start" /\ state \in busy \cup {"error", "shutting_down"}
        \/ /\ action = "dock"
           /\ state \in {"updating", "mapping", "error", "shutting_down"}
        \/ /\ action \in {"empty_dustbin", "wash_mop", "dry_mop"}
           /\ state \notin {"charging", "docked", "servicing_dock",
                            "washing_mop", "emptying_dustbin"}

-----------------------------------------------------------------------------
(* SubmitParsed                                                            *)

(* BeginCommand.  The caller is offline, or the command does not parse or  *)
(* name anything of this robot (invalid), or it is accepted or refused on  *)
(* what the tracker knows.                                                 *)
Reject(id, invalid) ==
  /\ \/ invalid
     \/ command[id] \in recent
     \/ incompatibleLoxoneCommand(command[id])
  /\ outbox' = [outbox EXCEPT ![<<"submit", id>>] = <<Activity(id, "failed")>>]
  /\ submit' = [submit EXCEPT ![id] = "returned"]
  /\ UNCHANGED <<pending, recent>>

Accept(id, invalid) ==
  /\ ~invalid
  /\ command[id] \notin recent
  /\ ~incompatibleLoxoneCommand(command[id])
  /\ recent' = recent \cup {command[id]}
  /\ IF loxoneCommandAlreadySatisfied(command[id])
     THEN /\ outbox' = [outbox EXCEPT ![<<"submit", id>>] =
                          <<Activity(id, "accepted"),
                            Activity(id, "completed")>>]
          /\ submit' = [submit EXCEPT ![id] = "returned"]
          /\ UNCHANGED <<pending>>
     ELSE /\ outbox' = [outbox EXCEPT ![<<"submit", id>>] =
                          <<Activity(id, "accepted")>>]
          /\ submit' = [submit EXCEPT ![id] = "begun"]
          /\ pending' = pending \cup {id}

BeginCommand(id) ==
  /\ submit[id] = "unused"
  /\ \A i \in 1..(id - 1) : submit[i] # "unused"
  /\ \E invalid \in BOOLEAN : Reject(id, invalid) \/ Accept(id, invalid)
  /\ UNCHANGED <<status, cycleActive, room, command, dispatching, armed,
                 inFlight, sample, published>>

(* Mutant: the timeout is armed only once the dispatch has succeeded.      *)
Mutant_Launch(id) ==
  /\ submit[id] = "begun"
  /\ outbox[<<"submit", id>>] = <<>>
  /\ submit' = [submit EXCEPT ![id] = "returned"]
  /\ inFlight' = inFlight \cup {id}
  /\ dispatching' = [dispatching EXCEPT ![id] = "calling"]
  /\ UNCHANGED <<device, command, armed, sample, outbox, published>>

(* The rest of SubmitParsed, once "accepted" is published.                 *)
Launch(id) ==
  /\ submit[id] = "begun"
  /\ outbox[<<"submit", id>>] = <<>>
  /\ submit' = [submit EXCEPT ![id] = "returned"]
  /\ inFlight' = inFlight \cup {id}
  /\ armed' = armed \cup {id}
  /\ dispatching' = [dispatching EXCEPT ![id] = "calling"]
  /\ UNCHANGED <<device, command, sample, outbox, published>>

(* Mutant: a command that ended stays in pending.                          *)
Mutant_Mark(id, thread, state) ==
  /\ outbox' = [outbox EXCEPT ![<<thread, id>>] =
                  IF id \in pending THEN <<Activity(id, state)>> ELSE <<>>]
  /\ UNCHANGED pending

(* MarkRunning, MarkFailed and MarkCompleted: silent when the command is   *)
(* not pending any more.                                                   *)
Mark(id, thread, state) ==
  /\ outbox' = [outbox EXCEPT ![<<thread, id>>] =
                  IF id \in pending THEN <<Activity(id, state)>> ELSE <<>>]
  /\ pending' = IF terminal(state) THEN pending \ {id} ELSE pending

goesTo(id, step) == dispatching' = [dispatching EXCEPT ![id] = step]

(* Mutant: completeDispatch is not deferred and misses the early return.   *)
Mutant_DispatchFails(id) ==
  /\ dispatching[id] = "calling"
  /\ Mark(id, "dispatch", "failed")
  /\ goesTo(id, "done")
  /\ UNCHANGED <<status, cycleActive, room, recent, command, submit, armed,
                 inFlight, sample, published>>

DispatchFails(id) ==
  /\ dispatching[id] = "calling"
  /\ Mark(id, "dispatch", "failed")
  /\ goesTo(id, "finishing")
  /\ UNCHANGED <<status, cycleActive, room, recent, command, submit, armed,
                 inFlight, sample, published>>

DispatchSucceeds(id) ==
  /\ dispatching[id] = "calling"
  /\ Mark(id, "dispatch", "running")
  /\ goesTo(id, IF command[id] = "locate" THEN "located" ELSE "finishing")
  /\ UNCHANGED <<status, cycleActive, room, recent, command, submit, armed,
                 inFlight, sample, published>>

Located(id) ==
  /\ dispatching[id] = "located"
  /\ outbox[<<"dispatch", id>>] = <<>>
  /\ Mark(id, "dispatch", "completed")
  /\ goesTo(id, "finishing")
  /\ UNCHANGED <<status, cycleActive, room, recent, command, submit, armed,
                 inFlight, sample, published>>

completeDispatch(id) ==
  /\ dispatching[id] = "finishing"
  /\ outbox[<<"dispatch", id>>] = <<>>
  /\ inFlight' = inFlight \ {id}
  /\ goesTo(id, "done")
  /\ UNCHANGED <<device, submit, armed, command, sample, outbox, published>>

ExpireCommand(id) ==
  /\ id \in armed
  /\ armed' = armed \ {id}
  /\ Mark(id, "expire", "failed")
  /\ UNCHANGED <<status, cycleActive, room, recent, command, submit,
                 dispatching, inFlight, sample, published>>

(* The debounce window of a command ends.                                  *)
Elapse(c) ==
  /\ c \in recent
  /\ recent' = recent \ {c}
  /\ UNCHANGED <<status, cycleActive, room, pending, coordinator, sample,
                 outbox, published>>

-----------------------------------------------------------------------------
(* The callbacks of a reporter                                             *)

free(r) == sample[r] = NoStatus /\ outbox[<<"report", r>>] = <<>>

(* A poll or a push has the robot's status; the callbacks run later, after *)
(* other requests of the poll and the earlier subscribers of the store.    *)
Read(r) ==
  /\ free(r)
  /\ \E s \in Status : sample' = [sample EXCEPT ![r] = s]
  /\ UNCHANGED <<device, coordinator, outbox, published>>

If(condition, e) == IF condition THEN <<Event(e)>> ELSE <<>>

(* Mutant: an error leaves the cycle open.                                 *)
Mutant_StillActive(active, completed, failed) == active /\ ~completed

StillActive(active, completed, failed) == active /\ ~completed /\ ~failed

(* UpdateStatus after the baseline: the transitions, in the order in which *)
(* it appends them.                                                        *)
Transitions(r, s, confirmations) ==
  LET begins    == /\ ~isLoxoneCleaningState(status)
                   /\ isLoxoneCleaningState(s)
      resumed   == begins /\ status.state = "paused"
      started   == begins /\ status.state # "paused" /\ ~cycleActive
      paused    == status.state # "paused" /\ s.state = "paused"
      active    == cycleActive \/ begins \/ paused
      completed == /\ active
                   /\ s.error = 0
                   /\ s.state \in {"returning", "idle", "charging", "docked"}
      returned  == /\ status.state = "returning"
                   /\ s.state \in {"charging", "docked"}
      failed    == \/ s.error # 0 /\ status.error # s.error
                   \/ status.state # "error" /\ s.state = "error"
  IN  /\ cycleActive' = StillActive(active, completed, failed)
      /\ room' = IF started THEN 0 ELSE room
      /\ outbox' = [outbox EXCEPT ![<<"report", r>>] =
                      If(resumed, "resumed") \o If(started, "cleaning_started")
                      \o If(paused, "paused")
                      \o If(completed, "cleaning_completed")
                      \o If(returned, "returned_to_dock")
                      \o If(failed, "error") \o confirmations]

UpdateStatus(r) ==
  /\ sample[r] # NoStatus
  /\ LET s == sample[r]
         confirmed == {id \in pending : Confirms(s, command[id])}
         confirmations == SetToSeq({Activity(id, "completed") :
                                      id \in confirmed})
     IN  /\ IF status = NoStatus
            THEN /\ cycleActive' = \/ isLoxoneCleaningState(s)
                                   \/ s.state = "paused"
                 /\ outbox' = [outbox EXCEPT ![<<"report", r>>] = confirmations]
                 /\ UNCHANGED room
            ELSE Transitions(r, s, confirmations)
         /\ status' = s
         /\ pending' = pending \ confirmed
  /\ sample' = [sample EXCEPT ![r] = NoStatus]
  /\ UNCHANGED <<recent, coordinator, published>>

(* Mutant: the commands failed for being offline stay in pending.          *)
Mutant_UpdateAvailability(r) ==
  /\ free(r)
  /\ pending # {}
  /\ outbox' = [outbox EXCEPT ![<<"report", r>>] =
                  SetToSeq({Activity(id, "failed") : id \in pending})]
  /\ UNCHANGED <<device, coordinator, sample, published>>

(* The robot is offline; that it is online changes nothing here.           *)
UpdateAvailability(r) ==
  /\ free(r)
  /\ pending # {}
  /\ pending' = {}
  /\ outbox' = [outbox EXCEPT ![<<"report", r>>] =
                  SetToSeq({Activity(id, "failed") : id \in pending})]
  /\ UNCHANGED <<status, cycleActive, room, recent, coordinator, sample,
                 published>>

(* The map shows the robot in a room, in one without an id, or nowhere;    *)
(* the last two leave the same for the next comparison.                    *)
UpdateRoom(r) ==
  /\ free(r)
  /\ \E new \in Room \cup {0} :
       /\ new # room
       /\ room' = new
       /\ outbox' = [outbox EXCEPT ![<<"report", r>>] =
                       If(/\ status # NoStatus
                          /\ isLoxoneCleaningState(status)
                          /\ new # 0, "room_entered")]
  /\ UNCHANGED <<status, cycleActive, pending, recent, coordinator, sample,
                 published>>

-----------------------------------------------------------------------------
(* emit and publishLoxoneActivities: one activity after the other          *)

Publish(t) ==
  /\ outbox[t] # <<>>
  /\ outbox' = [outbox EXCEPT ![t] = Tail(@)]
  /\ LET a == Head(outbox[t])
     IN  \/ /\ a.id # 0
            /\ last' = [last EXCEPT ![a.id] = a.state]
            /\ ended' = IF terminal(a.state) THEN [ended EXCEPT ![a.id] = @ + 1]
                                             ELSE ended
            /\ UNCHANGED mission
         \/ /\ a.id = 0
            /\ mission' =
                 CASE a.state \in {"cleaning_started", "resumed", "paused"} ->
                        "on"
                   [] a.state \in {"cleaning_completed", "error"} -> "over"
                   [] OTHER -> mission
            /\ UNCHANGED <<last, ended>>
  /\ UNCHANGED <<device, coordinator, sample>>

Lifecycle(id) == \/ BeginCommand(id) \/ Launch(id) \/ completeDispatch(id)
                 \/ DispatchFails(id) \/ DispatchSucceeds(id) \/ Located(id)
                 \/ ExpireCommand(id)

Report(r) == Read(r) \/ UpdateStatus(r) \/ UpdateAvailability(r) \/ UpdateRoom(r)

Next == \/ \E id \in Id : Lifecycle(id)
        \/ \E c \in Command : Elapse(c)
        \/ \E r \in Reporter : Report(r)
        \/ \E t \in Thread : Publish(t)

Spec == Init /\ [][Next]_vars

(* Goroutines run, timers fire and calls to the robot time out; the robot  *)
(* need not report anything and nobody has to submit a command.            *)
FairSpec ==
  /\ Spec
  /\ \A t \in Thread : WF_vars(Publish(t))
  /\ \A id \in Id : /\ WF_vars(Launch(id))
                    /\ WF_vars(ExpireCommand(id))
                    /\ WF_vars(DispatchFails(id) \/ DispatchSucceeds(id))
                    /\ WF_vars(Located(id))
                    /\ WF_vars(completeDispatch(id))

-----------------------------------------------------------------------------
(* Properties                                                              *)

Lifetime == {"accepted", "running", "completed", "failed"}
EventName == {"cleaning_started", "room_entered", "cleaning_completed",
              "returned_to_dock", "paused", "resumed", "error"}

(* The type of every variable.                                             *)
TypeOK ==
  /\ status \in Status \cup {NoStatus}
  /\ cycleActive \in BOOLEAN
  /\ room \in Room \cup {0}
  /\ pending \subseteq Id
  /\ recent \subseteq Command
  /\ command \in [Id -> Command]
  /\ submit \in [Id -> {"unused", "begun", "returned"}]
  /\ dispatching \in [Id -> {"none", "calling", "located", "finishing", "done"}]
  /\ armed \subseteq Id
  /\ inFlight \subseteq Id
  /\ sample \in [Reporter -> Status \cup {NoStatus}]
  /\ DOMAIN outbox = Thread
  /\ \A t \in Thread :
       outbox[t] \in Seq([id : Id, state : Lifetime]
                         \cup [id : {0}, state : EventName])
  /\ last \in [Id -> Lifetime \cup {"none"}]
  /\ mission \in {"unknown", "on", "over"}
  /\ ended \in [Id -> 0..1]

(* A command that is still pending will be ended by its timeout, unless    *)
(* SubmitParsed has yet to arm it: no lost status and no lost answer       *)
(* leaves it pending for good.                                             *)
NoForgottenCommand ==
  \A id \in pending : id \in armed \/ submit[id] = "begun"

(* However a status, a failed dispatch, going offline and the timeout race *)
(* for a command, exactly one of them ends it: once it is submitted and no *)
(* longer pending, a single terminal activity is published or on its way   *)
(* to be, and none before.                                                 *)
OneTerminalActivity ==
  \A id \in Id :
    LET queued == {t \in Thread : \E i \in DOMAIN outbox[t] :
                     outbox[t][i].id = id /\ terminal(outbox[t][i].state)}
    IN  ended[id] + Cardinality(queued) =
          IF submit[id] = "unused" \/ id \in pending THEN 0 ELSE 1

(* README.md:649: the activity stream carries "reliable robot              *)
(* transitions".  Whoever follows the published events knows, when none is *)
(* on its way, whether the robot has a mission open, as the tracker does.  *)
(* It takes a single goroutine reporting.                                  *)
EventsFollowMission ==
  (/\ mission # "unknown"
   /\ \A r \in Reporter : outbox[<<"report", r>>] = <<>>)
     => (mission = "on" <=> cycleActive)

(* Every submitted command comes to a published end.                       *)
CommandEnds ==
  \A id \in Id : (submit[id] # "unused") ~> (ended[id] > 0)

(* What the watchdog and the update guard take for a busy dispatcher       *)
(* always clears.                                                          *)
InFlightClears == \A id \in Id : (id \in inFlight) ~> (id \notin inFlight)

(* README.md:633: "Command progress uses the same ID from acceptance       *)
(* through completion or failure": what is published for a command after   *)
(* that, and what FindCommand answers, stays.                              *)
TerminalIsLast ==
  [][\A id \in Id : terminal(last[id]) => last'[id] = last[id]]_vars
=============================================================================
