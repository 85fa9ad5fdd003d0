----------------------------- MODULE DirectSync -----------------------------
(***************************************************************************)
(* One Synchronizer of the Direct Loxone integration                       *)
(* (loxone/direct/synchronizer.go) between the DeviceStateStore it         *)
(* mirrors and the Miniserver it pushes Virtual Inputs to: the store's     *)
(* observers, the health publisher's heartbeat, timers that retry failed   *)
(* pushes, ResendAll after a reconnect or on request, the single sender    *)
(* goroutine, and Close when the integration is reconfigured.              *)
(*                                                                         *)
(* A key is a field of a robot.  Heartbeat stands for bridge_heartbeat,    *)
(* whose value is a Unix time and so differs from every earlier one.       *)
(***************************************************************************)
EXTENDS Integers, Sequences, FiniteSets

CONSTANTS Order,       \* the keys, in the order sort.Strings gives them
          Heartbeat,   \* the key of bridge_heartbeat
          Value,       \* values of a Virtual Input
          Seed,        \* the value every field has at first
          Nothing,     \* no value, no item
          MaxRetries,  \* loxone.direct.max_retries
          Resender,    \* goroutines that may be inside ResendAll
          OnRequest,   \* the one of them that holds integrationMu
          BeatsPaced,  \* a heartbeat interval outlasts the queue
          MaxEvents,   \* bound: changes of the truth and requests to resend
          MaxFailures, \* bound: failed pushes
          MaxNotices   \* bound: store updates not yet passed on

Key == {Order[i] : i \in DOMAIN Order}
Field == Key \ {Heartbeat}

ASSUME KeyAssumption ==
  /\ Order \in Seq(Key)
  /\ \A i, j \in DOMAIN Order : Order[i] = Order[j] => i = j
  /\ Heartbeat \in Key
  /\ Seed \in Value
  /\ Nothing \notin Value
ASSUME RetryAssumption == MaxRetries \in Nat
ASSUME ResenderAssumption ==
  /\ OnRequest \in Resender
  /\ IsFiniteSet(Resender)
  /\ Cardinality(Resender) > MaxFailures
ASSUME BoundAssumption ==
  /\ MaxEvents \in Nat
  /\ MaxFailures \in Nat
  /\ MaxNotices \in Nat
  /\ BeatsPaced \in BOOLEAN

Item == [value : Value, attempts : 0..MaxRetries, force : BOOLEAN]

ASSUME NothingAssumption == Nothing \notin Item \cup (Key \X Item)

VARIABLES
  truth,        \* DeviceStateStore: the value each field has
  notices,      \* store updates whose subscribers have not run yet
  pending,      \* Synchronizer.pending
  acked,        \* Synchronizer.lastSuccess
  disconnected, \* Synchronizer.disconnected
  signalling,   \* an enqueuer has unlocked and has yet to send on wake
  wake,         \* the buffered channel wake holds a token
  stop,         \* the channel stop is closed
  sender,       \* where the goroutine of run is
  sending,      \* the key and item processNext took, while in Push
  timers,       \* retries scheduled with time.AfterFunc
  resend,       \* the ResendAll calls under way
  lock,         \* integrationMu: "free", or held by "resend" or "close"
  remote,       \* the Virtual Inputs of the Miniserver
  events, failures

store    == <<truth, notices>>
channels == <<wake, stop>>
bounds   == <<events, failures>>
vars == <<store, pending, acked, disconnected, signalling, channels, sender,
          sending, timers, resend, lock, remote, bounds>>

Idle == [phase |-> "idle", todo |-> {}]

Same(k, v, w) == k # Heartbeat /\ v = w

(* configureDirectLoxone has just created the synchronizer and calls       *)
(* ResendAll; nothing has been pushed.                                     *)
Init ==
  /\ truth = [k \in Key |-> Seed]
  /\ notices = {}
  /\ pending = [k \in Key |-> Nothing]
  /\ acked = [k \in Key |-> Nothing]
  /\ disconnected = FALSE
  /\ signalling = FALSE
  /\ wake = FALSE
  /\ stop = FALSE
  /\ sender = "waiting"
  /\ sending = Nothing
  /\ timers = {}
  /\ resend = [r \in Resender |-> IF r = OnRequest
                                  THEN [phase |-> "reading", todo |-> {}]
                                  ELSE Idle]
  /\ lock = "resend"
  /\ remote = [k \in Key |-> Nothing]
  /\ events = 0
  /\ failures = 0

-----------------------------------------------------------------------------
(* enqueue                                                                 *)

(* The value is what the Miniserver last acknowledged, a retry meets a     *)
(* newer pending value, or the value is pending already.                   *)
Redundant(k, item) ==
  \/ ~item.force /\ Same(k, acked[k], item.value)
  \/ /\ pending[k] # Nothing
     /\ \/ item.attempts > 0 /\ ~Same(k, pending[k].value, item.value)
        \/ ~item.force /\ Same(k, pending[k].value, item.value)

enqueue(k, item) ==
  \/ /\ Redundant(k, item)
     /\ UNCHANGED <<pending, signalling>>
  \/ /\ ~Redundant(k, item)
     /\ pending' = [pending EXCEPT ![k] = item]
     /\ signalling' = TRUE

(* The send on wake, which is buffered and never blocks; enqueuers that    *)
(* overlap send once.                                                      *)
Signal ==
  /\ signalling
  /\ signalling' = FALSE
  /\ wake' = TRUE
  /\ UNCHANGED <<store, pending, acked, disconnected, stop, sender, sending,
                 timers, resend, lock, remote, bounds>>

fresh(v) == [value |-> v, attempts |-> 0, force |-> FALSE]

-----------------------------------------------------------------------------
(* DeviceStateStore.update and its subscriber updateDirectState            *)

(* The store changes, or a poll finds it unchanged.  Its subscribers run   *)
(* after it is unlocked, so two updates may reach them in either order.    *)
update(k, v) ==
  /\ truth' = [truth EXCEPT ![k] = v]
  /\ notices' = notices \cup {<<k, v>>}
  /\ UNCHANGED <<pending, acked, disconnected, signalling, channels, sender,
                 sending, timers, resend, lock, remote, failures>>

Observe(k, v) ==
  /\ v # truth[k]
  /\ events < MaxEvents
  /\ Cardinality(notices) < MaxNotices
  /\ events' = events + 1
  /\ update(k, v)

Poll(k) ==
  /\ Cardinality(notices) < MaxNotices
  /\ update(k, truth[k])
  /\ UNCHANGED events

(* updateDirectState and Update.                                           *)
Update(k, v) ==
  /\ <<k, v>> \in notices
  /\ lock = "free"
  /\ ~stop
  /\ notices' = notices \ {<<k, v>>}
  /\ enqueue(k, fresh(v))
  /\ UNCHANGED <<truth, acked, disconnected, channels, sender, sending,
                 timers, resend, lock, remote, bounds>>

(* Nothing is left of the heartbeat before.                                *)
Quiet == /\ \A k \in Key : pending[k] = Nothing
         /\ \A r \in Resender : resend[r].phase = "idle"
         /\ ~signalling

(* Mutant: the health publisher does not take integrationMu.               *)
Mutant_UpdateInstallation ==
  /\ (BeatsPaced => Quiet)
  /\ enqueue(Heartbeat, fresh(truth[Heartbeat]))
  /\ UNCHANGED <<store, acked, disconnected, channels, sender, sending,
                 timers, resend, lock, remote, bounds>>

(* The heartbeat publishBridgeHealth passes on every 30 seconds.           *)
UpdateInstallation ==
  /\ lock = "free"
  /\ ~stop
  /\ (BeatsPaced => Quiet)
  /\ enqueue(Heartbeat, fresh(truth[Heartbeat]))
  /\ UNCHANGED <<store, acked, disconnected, channels, sender, sending,
                 timers, resend, lock, remote, bounds>>

-----------------------------------------------------------------------------
(* ResendAll                                                               *)

(* resendDirectSnapshots, which keeps integrationMu until it is through.   *)
ResendDirectSnapshots ==
  /\ lock = "free"
  /\ ~stop
  /\ events < MaxEvents
  /\ events' = events + 1
  /\ lock' = "resend"
  /\ resend' = [resend EXCEPT ![OnRequest].phase = "reading"]
  /\ UNCHANGED <<store, pending, acked, disconnected, signalling, channels,
                 sender, sending, timers, remote, failures>>

(* stateAll copies the store: what follows uses that copy.                 *)
ResendRead(r) ==
  /\ resend[r].phase = "reading"
  /\ resend' = [resend EXCEPT
                  ![r] = [phase |-> "enqueuing",
                          todo |-> {<<k, truth[k]>> : k \in Key}]]
  /\ UNCHANGED <<store, pending, acked, disconnected, signalling, channels,
                 sender, sending, timers, lock, remote, bounds>>

ResendEnqueue(r) ==
  /\ \E t \in resend[r].todo :
       /\ enqueue(t[1], [value |-> t[2], attempts |-> 0, force |-> TRUE])
       /\ resend' = [resend EXCEPT ![r].todo = @ \ {t}]
  /\ UNCHANGED <<store, acked, disconnected, channels, sender, sending,
                 timers, lock, remote, bounds>>

ResendDone(r) ==
  /\ resend[r].phase = "enqueuing"
  /\ resend[r].todo = {}
  /\ resend' = [resend EXCEPT ![r] = Idle]
  /\ lock' = IF r = OnRequest THEN "free" ELSE lock
  /\ UNCHANGED <<store, pending, acked, disconnected, signalling, channels,
                 sender, sending, timers, remote, bounds>>

-----------------------------------------------------------------------------
(* run and processNext                                                     *)

Woken ==
  /\ sender = "waiting"
  /\ wake
  /\ wake' = FALSE
  /\ sender' = "draining"
  /\ UNCHANGED <<store, pending, acked, disconnected, signalling, stop, sending,
                 timers, resend, lock, remote, bounds>>

Stopped ==
  /\ sender = "waiting"
  /\ stop
  /\ sender' = "done"
  /\ UNCHANGED <<store, pending, acked, disconnected, signalling, channels,
                 sending, timers, resend, lock, remote, bounds>>

First(k) == \E i \in DOMAIN Order :
              /\ Order[i] = k
              /\ pending[k] # Nothing
              /\ \A j \in 1..(i - 1) : pending[Order[j]] = Nothing

TakeNext ==
  /\ sender = "draining"
  /\ \E k \in Key : /\ First(k)
                    /\ sending' = <<k, pending[k]>>
                    /\ pending' = [pending EXCEPT ![k] = Nothing]
  /\ sender' = "pushing"
  /\ UNCHANGED <<store, acked, disconnected, signalling, channels, timers,
                 resend, lock, remote, bounds>>

NothingLeft ==
  /\ sender = "draining"
  /\ \A k \in Key : pending[k] = Nothing
  /\ sender' = "waiting"
  /\ UNCHANGED <<store, pending, acked, disconnected, signalling, channels,
                 sending, timers, resend, lock, remote, bounds>>

(* Mutant: run processes one item per wake.                                *)
Mutant_NextItem == "waiting"

(* Where run goes on after a push.                                         *)
NextItem == "draining"

(* Mutant: a reconnect does not resend.                                    *)
Mutant_Reconnect == UNCHANGED resend

(* go s.ResendAll()                                                        *)
Reconnect ==
  \E r \in Resender \ {OnRequest} :
    /\ resend[r].phase = "idle"
    /\ resend' = [resend EXCEPT ![r].phase = "reading"]

PushSucceeds ==
  /\ sender = "pushing"
  /\ LET k == sending[1]
         item == sending[2]
     IN  /\ remote' = [remote EXCEPT ![k] = item.value]
         /\ acked' = [acked EXCEPT ![k] = item.value]
  /\ IF disconnected THEN Reconnect ELSE UNCHANGED resend
  /\ disconnected' = FALSE
  /\ sending' = Nothing
  /\ sender' = NextItem
  /\ UNCHANGED <<store, pending, signalling, channels, timers, lock, bounds>>

(* Mutant: attempts counts down.                                           *)
Mutant_Counted(item) == [item EXCEPT !.attempts = @ - 1]

Counted(item) == [item EXCEPT !.attempts = @ + 1]

(* Mutant: only a push that is out of retries counts as a disconnect.      *)
Mutant_Failed(item) == item.attempts = MaxRetries

(* A failed push makes the connection suspect.                             *)
Failed(item) == TRUE

(* The request or its answer is lost: the input may have changed or not.   *)
PushFails ==
  /\ sender = "pushing"
  /\ failures < MaxFailures
  /\ failures' = failures + 1
  /\ LET k == sending[1]
         item == sending[2]
     IN  /\ \/ remote' = [remote EXCEPT ![k] = item.value]
            \/ UNCHANGED remote
         /\ disconnected' = (disconnected \/ Failed(item))
         /\ timers' = IF item.attempts < MaxRetries
                      THEN timers \cup {<<k, Counted(item)>>}
                      ELSE timers
  /\ sending' = Nothing
  /\ sender' = NextItem
  /\ UNCHANGED <<store, pending, acked, signalling, channels, resend, lock,
                 events>>

(* The timer of a retry calls enqueue, closed synchronizer or not.         *)
RetryDue(k, item) ==
  /\ <<k, item>> \in timers
  /\ timers' = timers \ {<<k, item>>}
  /\ enqueue(k, item)
  /\ UNCHANGED <<store, acked, disconnected, channels, sender, sending,
                 resend, lock, remote, bounds>>

-----------------------------------------------------------------------------
(* Close, by a configuration change that holds integrationMu               *)

Close ==
  /\ lock = "free"
  /\ ~stop
  /\ stop' = TRUE
  /\ lock' = "close"
  /\ UNCHANGED <<store, pending, acked, disconnected, signalling, wake, sender,
                 sending, timers, resend, remote, bounds>>

(* Mutant: Close does not wait for done.                                   *)
Mutant_CloseReturns ==
  /\ lock = "close"
  /\ lock' = "free"
  /\ UNCHANGED <<store, pending, acked, disconnected, signalling, channels,
                 sender, sending, timers, resend, remote, bounds>>

CloseReturns ==
  /\ lock = "close"
  /\ sender = "done"
  /\ lock' = "free"
  /\ UNCHANGED <<store, pending, acked, disconnected, signalling, channels,
                 sender, sending, timers, resend, remote, bounds>>

-----------------------------------------------------------------------------
Sender == \/ Woken \/ Stopped \/ TakeNext \/ NothingLeft
          \/ PushSucceeds \/ PushFails

Resend(r) == ResendRead(r) \/ ResendEnqueue(r) \/ ResendDone(r)

Next ==
  \/ \E k \in Field : \/ Poll(k)
                      \/ \E v \in Value : Observe(k, v) \/ Update(k, v)
  \/ UpdateInstallation
  \/ ResendDirectSnapshots
  \/ \E r \in Resender : Resend(r)
  \/ \E t \in timers : RetryDue(t[1], t[2])
  \/ Signal \/ Sender \/ Close \/ CloseReturns

Spec == Init /\ [][Next]_vars

(* Goroutines run, timers fire, polls and heartbeats recur.  run prefers   *)
(* neither channel when both are ready.  Nothing has to fail, change, be   *)
(* resent on request or be closed.                                         *)
FairSpec ==
  /\ Spec
  /\ WF_vars(Signal)
  /\ WF_vars(Sender)
  /\ WF_vars(CloseReturns)
  /\ WF_vars(UpdateInstallation)
  /\ WF_vars(\E r \in Resender : Resend(r))
  /\ WF_vars(\E t \in timers : RetryDue(t[1], t[2]))
  /\ \A k \in Field : \A v \in Value : WF_vars(Update(k, v))
  /\ \A k \in Field : WF_vars(Poll(k))

-----------------------------------------------------------------------------
(* Properties                                                              *)

(* The type of every variable.                                             *)
TypeOK ==
  /\ truth \in [Key -> Value]
  /\ notices \subseteq Key \X Value
  /\ pending \in [Key -> Item \cup {Nothing}]
  /\ acked \in [Key -> Value \cup {Nothing}]
  /\ remote \in [Key -> Value \cup {Nothing}]
  /\ disconnected \in BOOLEAN
  /\ signalling \in BOOLEAN
  /\ wake \in BOOLEAN
  /\ stop \in BOOLEAN
  /\ sender \in {"waiting", "draining", "pushing", "done"}
  /\ sending \in (Key \X Item) \cup {Nothing}
  /\ timers \subseteq Key \X Item
  /\ resend \in [Resender -> [phase : {"idle", "reading", "enqueuing"},
                              todo : SUBSET (Key \X Value)]]
  /\ lock \in {"free", "resend", "close"}
  /\ events \in Nat
  /\ failures \in Nat

(* A ResendAll under way that will still enqueue k.                        *)
WillResend(k) ==
  \E r \in Resender : \/ resend[r].phase = "reading"
                      \/ \E v \in Value : <<k, v>> \in resend[r].todo

(* When an input may hold something else than lastSuccess says, that is    *)
(* what the comparison in enqueue must not be trusted for, and something   *)
(* will put it right: the next successful push resends everything, or the  *)
(* input is pending, being pushed, or part of a ResendAll under way.       *)
DoubtIsResolved ==
  (\A k \in Field :
     remote[k] # acked[k]
       => \/ disconnected
          \/ pending[k] # Nothing
          \/ sending # Nothing /\ sending[1] = k
          \/ WillResend(k))

(* The sender never sleeps on a value: the token in wake, or an enqueuer   *)
(* about to send one, is there whenever something is pending.              *)
NoLostWake ==
  (sender = "waiting" /\ \E k \in Key : pending[k] # Nothing)
    => wake \/ signalling

(* Once Close has returned, the old synchronizer changes no input, its     *)
(* retries and a ResendAll still running included: the next one owns them. *)
NoPushAfterClose == [][(stop /\ lock = "free") => UNCHANGED remote]_vars

(* Once the robots stop changing and pushes stop failing, every input      *)
(* comes to hold the robot's value and keeps it, unless the integration is *)
(* closed; failed pushes that did change the input included.               *)
Converges == <>[](stop \/ \A k \in Field : remote[k] = truth[k])

(* Close returns, however many values and retries are still queued.        *)
CloseEnds == (lock = "close") ~> (lock = "free")
=============================================================================
