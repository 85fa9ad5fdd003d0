----------------------- MODULE CommandLifecycleProofs -----------------------
(***************************************************************************)
(* Proofs about CommandLifecycle, for any commands, statuses and reporters. *)
(*                                                                         *)
(* CommandInv has the types of the state and says that a pending command   *)
(* was submitted and has a timeout running or about to be armed.  EndInv   *)
(* follows the terminal activities: an open command (not submitted, or     *)
(* pending) has none published and none queued, of any other command one   *)
(* is published, or one is queued by all goroutines together.  BoxesFree   *)
(* says that nobody takes new activities with some left to publish, so     *)
(* that none is lost.  MissionInv is about one reporter: what the          *)
(* activities it has yet to publish leave its reader with (Leaves) agrees  *)
(* with the cycle of the tracker.                                          *)
(***************************************************************************)
EXTENDS CommandLifecycle, SequenceTheorems, FiniteSetTheorems, TLAPS

\* what is published of a command, and of the robot
Progress == [id : Id, state : Lifetime]
Happening == [id : {0}, state : EventName]
Message == Progress \cup Happening

-----------------------------------------------------------------------------
(* Sequences of activities *)

LEMMA IdIsPositive == 0 \notin Id /\ IsFiniteSet(Id)
BY CommandAssumption, FS_Interval DEF Id

\* SetToSeq lists a finite set, every element once.
LEMMA Listed ==
  ASSUME NEW S, IsFiniteSet(S)
  PROVE  /\ SetToSeq(S) \in Seq(S)
         /\ \A i, j \in DOMAIN SetToSeq(S) : SetToSeq(S)[i] = SetToSeq(S)[j] => i = j
         /\ \A x \in S : \E i \in DOMAIN SetToSeq(S) : SetToSeq(S)[i] = x
<1> DEFINE n == Cardinality(S)
<1>1. n \in Nat /\ ExistsBijection(1..n, S)
  BY FS_CardinalityType
<1>2. \E f \in [1..n -> S] : IsInjective(f)
  BY <1>1 DEF ExistsBijection, Bijection, Injection
<1>3. SetToSeq(S) \in [1..n -> S] /\ IsInjective(SetToSeq(S))
  BY <1>2 DEF SetToSeq
<1>4. SetToSeq(S) \in Seq(S)
  BY <1>1, <1>3
<1>5. \A x \in S : \E i \in DOMAIN SetToSeq(S) : SetToSeq(S)[i] = x
  <2>1. SetToSeq(S) \in Injection(1..n, S)
    BY <1>3 DEF IsInjective, Injection
  <2>2. Cardinality(1..n) = n
    BY <1>1, FS_Interval
  <2>3. SetToSeq(S) \in Surjection(1..n, S)
    BY <2>1, <2>2, FS_Injection
  <2>4. QED
    BY <2>3, <1>3 DEF Surjection
<1>6. QED
  BY <1>3, <1>4, <1>5 DEF IsInjective

\* The activities that end some pending commands, in any order
EndsOf(C, state) == SetToSeq({Activity(id, state) : id \in C})

LEMMA Endings ==
  ASSUME NEW C \in SUBSET Id, NEW state \in Lifetime
  PROVE  LET s == EndsOf(C, state)
         IN  /\ s \in Seq(Progress)
             /\ \A i \in DOMAIN s : s[i].id \in C /\ s[i].state = state
             /\ \A i, j \in DOMAIN s : s[i].id = s[j].id => i = j
             /\ \A id \in C : \E i \in DOMAIN s : s[i].id = id
<1> DEFINE A == {Activity(id, state) : id \in C}
           s == EndsOf(C, state)
<1>1. IsFiniteSet(C)
  BY IdIsPositive, FS_Subset
<1>2. IsFiniteSet(A)
  <2> DEFINE f == [id \in C |-> Activity(id, state)]
  <2>1. f \in Surjection(C, A)
    BY DEF Surjection
  <2>2. QED
    BY <1>1, <2>1, FS_Surjection
<1>3. /\ s \in Seq(A)
      /\ \A i, j \in DOMAIN s : s[i] = s[j] => i = j
      /\ \A x \in A : \E i \in DOMAIN s : s[i] = x
  BY <1>2, Listed DEF EndsOf
<1>4. A \subseteq Progress
  BY DEF Activity, Progress
<1>5. s \in Seq(Progress)
  BY <1>3, <1>4
<1>6. \A i \in DOMAIN s : s[i] \in A
  BY <1>3, ElementOfSeq, LenProperties
<1>7. \A a \in A : a.id \in C /\ a.state = state /\ a = Activity(a.id, state)
  BY DEF Activity
<1>8. \A id \in C : Activity(id, state) \in A /\ Activity(id, state).id = id
  BY DEF Activity
<1>9. QED
  <2> HIDE DEF s, A
  <2>1. /\ \A i \in DOMAIN s : s[i].id \in C /\ s[i].state = state
        /\ \A i, j \in DOMAIN s : s[i].id = s[j].id => i = j
    BY <1>3, <1>6, <1>7
  <2>2. \A id \in C : \E i \in DOMAIN s : s[i].id = id
    BY <1>3, <1>8
  <2>3. QED
    BY <1>5, <2>1, <2>2 DEF s, A

-----------------------------------------------------------------------------
(* Commands *)

Steps == {"none", "calling", "located", "finishing", "done"}

DeviceTypes ==
  /\ status \in Status \cup {NoStatus}
  /\ cycleActive \in BOOLEAN
  /\ room \in Room \cup {0}
  /\ pending \subseteq Id
  /\ recent \subseteq Command
  /\ sample \in [Reporter -> Status \cup {NoStatus}]

CommandTypes ==
  /\ command \in [Id -> Command]
  /\ submit \in [Id -> {"unused", "begun", "returned"}]
  /\ dispatching \in [Id -> Steps]
  /\ armed \subseteq Id
  /\ inFlight \subseteq Id

PendingSubmitted == \A id \in pending : submit[id] # "unused"

CommandInv == DeviceTypes /\ CommandTypes /\ PendingSubmitted /\ NoForgottenCommand

LEMMA CommandInit == Init => CommandInv
BY DEF Init, CommandInv, DeviceTypes, CommandTypes, PendingSubmitted, NoForgottenCommand, Steps

\* SubmitParsed
LEMMA SubmitKeepsCommands ==
  ASSUME CommandInv, NEW id \in Id, BeginCommand(id) \/ Launch(id)
  PROVE  CommandInv'
<1> USE DEF CommandInv, DeviceTypes, CommandTypes
<1>1. CASE BeginCommand(id)
  <2>1. /\ submit[id] = "unused" /\ id \notin pending
        /\ submit' \in {[submit EXCEPT ![id] = "returned"], [submit EXCEPT ![id] = "begun"]}
        /\ \/ pending' = pending
           \/ pending' = pending \cup {id} /\ submit' = [submit EXCEPT ![id] = "begun"]
        /\ recent' \subseteq Command
        /\ UNCHANGED <<status, cycleActive, room, sample, command, dispatching, armed, inFlight>>
    BY <1>1 DEF BeginCommand, Reject, Accept, PendingSubmitted
  <2>2. submit' \in [Id -> {"unused", "begun", "returned"}]
    BY <2>1
  <2>3. PendingSubmitted' /\ NoForgottenCommand'
    BY <2>1 DEF PendingSubmitted, NoForgottenCommand
  <2>4. QED
    BY <2>1, <2>2, <2>3
<1>2. CASE Launch(id)
  <2>1. /\ submit' = [submit EXCEPT ![id] = "returned"] /\ armed' = armed \cup {id}
        /\ inFlight' = inFlight \cup {id} /\ dispatching' = [dispatching EXCEPT ![id] = "calling"]
        /\ UNCHANGED <<device, command, sample>>
    BY <1>2 DEF Launch
  <2>2. PendingSubmitted' /\ NoForgottenCommand'
    BY <2>1 DEF PendingSubmitted, NoForgottenCommand, device
  <2>3. CommandTypes'
    BY <2>1 DEF Steps, device
  <2>4. QED
    BY <2>1, <2>2, <2>3 DEF device
<1>3. QED
  BY <1>1, <1>2

\* the dispatch goroutine and the timeout
LEMMA DispatchKeepsCommands ==
  ASSUME CommandInv, NEW id \in Id,
         \/ DispatchFails(id) \/ DispatchSucceeds(id) \/ Located(id) \/ completeDispatch(id)
         \/ ExpireCommand(id)
  PROVE  CommandInv'
<1> USE DEF CommandInv, DeviceTypes, CommandTypes
<1>1. CASE \/ DispatchFails(id) \/ DispatchSucceeds(id) \/ Located(id) \/ completeDispatch(id)
  <2>1. /\ pending' \subseteq pending /\ inFlight' \subseteq inFlight
        /\ UNCHANGED <<status, cycleActive, room, recent, command, submit, armed, sample>>
    BY <1>1
    DEF DispatchFails, DispatchSucceeds, Located, completeDispatch, Mark, terminal, device
  <2>2. \E step \in Steps : dispatching' = [dispatching EXCEPT ![id] = step]
    BY <1>1 DEF DispatchFails, DispatchSucceeds, Located, completeDispatch, goesTo, Steps
  <2>3. dispatching' \in [Id -> Steps]
    BY <2>2
  <2>4. QED
    BY <2>1, <2>3 DEF PendingSubmitted, NoForgottenCommand
<1>2. CASE ExpireCommand(id)
  <2>1. /\ pending' = pending \ {id} /\ armed' = armed \ {id}
        /\ UNCHANGED <<status, cycleActive, room, recent, command, submit, dispatching, inFlight,
                       sample>>
    BY <1>2 DEF ExpireCommand, Mark, terminal
  <2>2. QED
    BY <2>1 DEF PendingSubmitted, NoForgottenCommand
<1>3. QED
  BY <1>1, <1>2

\* the callbacks of a reporter
LEMMA ReportKeepsCommands ==
  ASSUME CommandInv, NEW r \in Reporter, Report(r)
  PROVE  CommandInv'
<1> USE DEF CommandInv, DeviceTypes
<1>1. pending' \subseteq pending /\ recent' = recent /\ UNCHANGED coordinator
  BY DEF Report, Read, UpdateStatus, UpdateAvailability, UpdateRoom, device
<1>2. sample' \in [Reporter -> Status \cup {NoStatus}]
  BY DEF Report, Read, UpdateStatus, UpdateAvailability, UpdateRoom
<1>3. status' \in Status \cup {NoStatus}
  BY DEF Report, Read, UpdateStatus, UpdateAvailability, UpdateRoom, device
<1>4. room' \in Room \cup {0}
  BY DEF Report, Read, UpdateStatus, Transitions, UpdateAvailability, UpdateRoom, device
<1>5. cycleActive' \in BOOLEAN
  BY DEF Report, Read, UpdateStatus, Transitions, StillActive, UpdateAvailability, UpdateRoom, device
<1>6. PendingSubmitted' /\ NoForgottenCommand' /\ CommandTypes'
  BY <1>1 DEF PendingSubmitted, NoForgottenCommand, CommandTypes, coordinator
<1>7. QED
  BY <1>1, <1>2, <1>3, <1>4, <1>5, <1>6

LEMMA CommandStep ==
  ASSUME CommandInv, [Next]_vars
  PROVE  CommandInv'
<1>1. CASE \/ \E c \in Command : Elapse(c)
           \/ \E t \in Thread : Publish(t)
           \/ UNCHANGED vars
  <2>1. recent' \subseteq recent /\ UNCHANGED <<status, cycleActive, room, pending, coordinator, sample>>
    BY <1>1 DEF Elapse, Publish, vars, device
  <2>2. QED
    BY <2>1
    DEF CommandInv, DeviceTypes, CommandTypes, PendingSubmitted, NoForgottenCommand, coordinator
<1>2. QED
  BY <1>1, SubmitKeepsCommands, DispatchKeepsCommands, ReportKeepsCommands DEF Next, Lifecycle

\* No command stays pending for good: one that is pending has its timeout armed,
\* or SubmitParsed is about to arm it, for any number of commands and reporters.
THEOREM NoneForgotten == Spec => []NoForgottenCommand
<1>1. CommandInv => NoForgottenCommand
  BY DEF CommandInv
<1>2. QED
  BY <1>1, CommandInit, CommandStep, PTL DEF Spec

-----------------------------------------------------------------------------
(* Terminal activities *)

\* a command that can still end: not submitted yet, or pending
Open(id) == submit[id] = "unused" \/ id \in pending

\* an activity that ends a command
Ends(a, id) == a.id = id /\ terminal(a.state)

BoxTypes ==
  /\ outbox \in [Thread -> Seq(Message)]
  /\ last \in [Id -> Lifetime \cup {"none"}]
  /\ mission \in {"unknown", "on", "over"}
  /\ ended \in [Id -> 0 .. 1]

EndedIsClosed == \A id \in Id : Open(id) => ended[id] = 0

QueuedIsClosed ==
  \A id \in Id, t \in Thread : \A i \in DOMAIN outbox[t] :
    Ends(outbox[t][i], id) => ~Open(id) /\ ended[id] = 0

QueuedOnce ==
  \A id \in Id, t \in Thread, u \in Thread :
    \A i \in DOMAIN outbox[t], j \in DOMAIN outbox[u] :
      Ends(outbox[t][i], id) /\ Ends(outbox[u][j], id) => t = u /\ i = j

ClosedHasEnd ==
  \A id \in Id :
    \/ Open(id) \/ ended[id] = 1
    \/ \E t \in Thread : \E i \in DOMAIN outbox[t] : Ends(outbox[t][i], id)

EndInv == BoxTypes /\ EndedIsClosed /\ QueuedIsClosed /\ QueuedOnce /\ ClosedHasEnd

\* a goroutine that takes activities has published all it took before
BoxesFree ==
  /\ \A id \in Id :
       /\ submit[id] = "unused" => outbox[<<"submit", id>>] = <<>>
       /\ submit[id] # "returned" => dispatching[id] = "none" /\ id \notin armed
       /\ dispatching[id] \in {"none", "calling"} => outbox[<<"dispatch", id>>] = <<>>
       /\ submit[id] # "returned" \/ id \in armed => outbox[<<"expire", id>>] = <<>>
  /\ \A r \in Reporter : sample[r] # NoStatus => outbox[<<"report", r>>] = <<>>

Inv == CommandInv /\ EndInv /\ BoxesFree

LEMMA Threads ==
  /\ \A id \in Id : /\ <<"submit", id>> \in Thread /\ <<"dispatch", id>> \in Thread
                    /\ <<"expire", id>> \in Thread
  /\ \A r \in Reporter : <<"report", r>> \in Thread
BY DEF Thread

LEMMA Positions ==
  ASSUME NEW S, NEW q \in Seq(S), NEW i \in DOMAIN q
  PROVE  i \in Nat \ {0} /\ i <= Len(q) /\ q[i] \in S
OBVIOUS

LEMMA EndInit == Init => EndInv
<1> SUFFICES ASSUME Init PROVE EndInv
  OBVIOUS
<1>1. \A t \in Thread : outbox[t] = <<>> /\ DOMAIN outbox[t] = {}
  BY DEF Init
<1>2. BoxTypes
  BY DEF Init, BoxTypes
<1>3. EndedIsClosed
  BY DEF Init, EndedIsClosed
<1>4. ClosedHasEnd
  BY DEF Init, ClosedHasEnd, Open
<1>5. QED
  BY <1>1, <1>2, <1>3, <1>4 DEF EndInv, QueuedIsClosed, QueuedOnce

\* A goroutine with nothing left to publish takes activities: they end the
\* commands that were open and no longer are, each once.
LEMMA TakingKeepsEnds ==
  ASSUME EndInv, NEW t \in Thread, outbox[t] = <<>>, NEW s \in Seq(Message),
         outbox' = [outbox EXCEPT ![t] = s], UNCHANGED published,
         \A id \in Id : Open(id)' => Open(id),
         \A id \in Id : \A i \in DOMAIN s : Ends(s[i], id) => Open(id) /\ ~Open(id)',
         \A id \in Id : \A i, j \in DOMAIN s : Ends(s[i], id) /\ Ends(s[j], id) => i = j,
         \A id \in Id : Open(id) /\ ~Open(id)' => \E i \in DOMAIN s : Ends(s[i], id)
  PROVE  EndInv'
<1>1. /\ outbox' \in [Thread -> Seq(Message)]
      /\ outbox'[t] = s /\ \A u \in Thread : u # t => outbox'[u] = outbox[u]
  BY DEF EndInv, BoxTypes
<1>2. BoxTypes'
  BY <1>1 DEF EndInv, BoxTypes, published
<1>3. EndedIsClosed'
  BY DEF EndInv, EndedIsClosed, published
<1>4. QueuedIsClosed'
  <2> SUFFICES ASSUME NEW id \in Id, NEW u \in Thread, NEW i \in DOMAIN outbox'[u],
                      Ends(outbox'[u][i], id)
               PROVE  ~Open(id)' /\ ended'[id] = 0
    BY DEF QueuedIsClosed, Ends
  <2>1. CASE u = t
    BY <2>1, <1>1 DEF EndInv, EndedIsClosed, published
  <2>2. CASE u # t
    BY <2>2, <1>1 DEF EndInv, QueuedIsClosed, published
  <2>3. QED
    BY <2>1, <2>2
<1>5. QueuedOnce'
  <2> SUFFICES ASSUME NEW id \in Id, NEW u \in Thread, NEW v \in Thread,
                      NEW i \in DOMAIN outbox'[u], NEW j \in DOMAIN outbox'[v],
                      Ends(outbox'[u][i], id), Ends(outbox'[v][j], id)
               PROVE  u = v /\ i = j
    BY DEF QueuedOnce, Ends
  <2>1. CASE u # t /\ v # t
    BY <2>1, <1>1 DEF EndInv, QueuedOnce
  <2>2. CASE u = t /\ v = t
    BY <2>2, <1>1
  <2>3. CASE \/ u = t /\ v # t
             \/ u # t /\ v = t
    <3>1. Open(id)
      BY <2>3, <1>1
    <3>2. ~Open(id)
      BY <2>3, <1>1 DEF EndInv, QueuedIsClosed
    <3>3. QED
      BY <3>1, <3>2
  <2>4. QED
    BY <2>1, <2>2, <2>3
<1>6. ClosedHasEnd'
  <2> SUFFICES ASSUME NEW id \in Id, ~Open(id)', ended'[id] # 1
               PROVE  \E u \in Thread : \E i \in DOMAIN outbox'[u] : Ends(outbox'[u][i], id)
    BY DEF ClosedHasEnd, Ends
  <2>1. CASE Open(id)
    BY <2>1, <1>1
  <2>2. CASE ~Open(id)
    <3>1. PICK u \in Thread : \E i \in DOMAIN outbox[u] : Ends(outbox[u][i], id)
      BY <2>2 DEF EndInv, ClosedHasEnd, published
    <3>2. u # t
      BY <3>1
    <3>3. QED
      BY <3>1, <3>2, <1>1
  <2>3. QED
    BY <2>1, <2>2
<1>7. QED
  BY <1>2, <1>3, <1>4, <1>5, <1>6 DEF EndInv

\* A step that publishes nothing and takes nothing
LEMMA IdleKeepsEnds ==
  ASSUME EndInv, UNCHANGED <<outbox, published>>, \A id \in Id : Open(id)' <=> Open(id)
  PROVE  EndInv'
<1>1. BoxTypes'
  BY DEF EndInv, BoxTypes, published
<1>2. EndedIsClosed' /\ QueuedIsClosed' /\ QueuedOnce'
  BY DEF EndInv, EndedIsClosed, QueuedIsClosed, QueuedOnce, Ends, published
<1>3. ClosedHasEnd'
  BY DEF EndInv, ClosedHasEnd, Ends, published
<1>4. QED
  BY <1>1, <1>2, <1>3 DEF EndInv

\* Publishing takes the first activity of a goroutine's.
LEMMA PublishKeepsEnds ==
  ASSUME EndInv, NEW t \in Thread, Publish(t)
  PROVE  EndInv'
<1> DEFINE q == outbox[t]
           a == Head(q)
<1>1. /\ q \in Seq(Message) /\ q # <<>> /\ a = q[1] /\ 1 \in DOMAIN q
      /\ a \in Message /\ Tail(q) \in Seq(Message)
      /\ \A i \in DOMAIN Tail(q) : /\ i + 1 \in DOMAIN q /\ i + 1 # 1 /\ i \in Nat
                                   /\ Tail(q)[i] = q[i + 1]
      /\ \A i \in DOMAIN q : i # 1 => i - 1 \in DOMAIN Tail(q) /\ Tail(q)[i - 1] = q[i]
  <2>1. q \in Seq(Message) /\ q # <<>>
    BY DEF Publish, EndInv, BoxTypes
  <2>2. QED
    BY <2>1
<1>2. /\ outbox' = [outbox EXCEPT ![t] = Tail(q)]
      /\ UNCHANGED <<submit, pending>>
  BY DEF Publish, device, coordinator
<1>3. /\ outbox' \in [Thread -> Seq(Message)]
      /\ outbox'[t] = Tail(q) /\ \A u \in Thread : u # t => outbox'[u] = outbox[u]
  BY <1>1, <1>2 DEF EndInv, BoxTypes
<1>4. \A id \in Id : Open(id)' <=> Open(id)
  BY <1>2 DEF Open
<1>5. PICK before \in [Thread -> [Nat -> Nat]] :
        /\ \A u \in Thread : \A i \in DOMAIN outbox'[u] :
             /\ before[u][i] \in DOMAIN outbox[u]
             /\ outbox'[u][i] = outbox[u][before[u][i]]
             /\ u = t => before[u][i] = i + 1
             /\ u # t => before[u][i] = i
  <2> DEFINE b == [u \in Thread |-> [i \in Nat |-> IF u = t THEN i + 1 ELSE i]]
  <2>1. b \in [Thread -> [Nat -> Nat]]
    OBVIOUS
  <2>2. ASSUME NEW u \in Thread, NEW i \in DOMAIN outbox'[u]
        PROVE  /\ b[u][i] \in DOMAIN outbox[u]
               /\ outbox'[u][i] = outbox[u][b[u][i]]
               /\ u = t => b[u][i] = i + 1
               /\ u # t => b[u][i] = i
    <3>1. i \in Nat
      BY <1>3, Positions
    <3>2. b[u][i] = IF u = t THEN i + 1 ELSE i
      BY <3>1
    <3>3. QED
      BY <1>1, <1>3, <3>1, <3>2
  <2>3. QED
    BY <2>1, <2>2
<1>6. QueuedOnce'
  <2> SUFFICES ASSUME NEW id \in Id, NEW u \in Thread, NEW v \in Thread,
                      NEW i \in DOMAIN outbox'[u], NEW j \in DOMAIN outbox'[v],
                      Ends(outbox'[u][i], id), Ends(outbox'[v][j], id)
               PROVE  u = v /\ i = j
    BY DEF QueuedOnce, Ends
  <2>1. /\ before[u][i] \in DOMAIN outbox[u] /\ Ends(outbox[u][before[u][i]], id)
        /\ before[v][j] \in DOMAIN outbox[v] /\ Ends(outbox[v][before[v][j]], id)
    BY <1>5
  <2>2. u = v /\ before[u][i] = before[v][j]
    BY <2>1 DEF EndInv, QueuedOnce
  <2>3. i \in Nat /\ j \in Nat
    BY <1>3, Positions
  <2>4. QED
    BY <2>2, <2>3, <1>5
<1>7. \A id \in Id : Ends(a, id) =>
        \A u \in Thread : \A i \in DOMAIN outbox'[u] : ~Ends(outbox'[u][i], id)
  <2> SUFFICES ASSUME NEW id \in Id, Ends(a, id), NEW u \in Thread, NEW i \in DOMAIN outbox'[u],
                      Ends(outbox'[u][i], id)
               PROVE  FALSE
    OBVIOUS
  <2>1. /\ before[u][i] \in DOMAIN outbox[u] /\ Ends(outbox[u][before[u][i]], id)
        /\ 1 \in DOMAIN outbox[t] /\ Ends(outbox[t][1], id)
    BY <1>1, <1>5
  <2>2. u = t /\ before[u][i] = 1
    BY <2>1 DEF EndInv, QueuedOnce
  <2>3. i \in Nat \ {0}
    BY <1>3, Positions
  <2>4. QED
    BY <2>2, <2>3, <1>5
<1> DEFINE Queued(id) ==
             \E u \in Thread : \E i \in DOMAIN outbox[u] : Ends(outbox[u][i], id)
<1>8. \A id \in Id : Queued(id) /\ ~Ends(a, id) =>
         \E u \in Thread : \E i \in DOMAIN outbox'[u] : Ends(outbox'[u][i], id)
  <2> SUFFICES ASSUME NEW id \in Id, ~Ends(a, id), NEW u \in Thread, NEW i \in DOMAIN outbox[u],
                      Ends(outbox[u][i], id)
               PROVE  \E j \in DOMAIN outbox'[u] : Ends(outbox'[u][j], id)
    OBVIOUS
  <2>1. CASE u # t
    BY <2>1, <1>3
  <2>2. CASE u = t
    <3>1. i # 1
      BY <2>2, <1>1
    <3>2. i - 1 \in DOMAIN Tail(q) /\ Tail(q)[i - 1] = q[i]
      BY <2>2, <3>1, <1>1
    <3>3. QED
      BY <2>2, <3>2, <1>3
  <2>3. QED
    BY <2>1, <2>2
<1>9. CASE \E id \in Id : Ends(a, id)
  <2>1. PICK id \in Id : Ends(a, id)
    BY <1>9
  <2>2. ~Open(id) /\ ended[id] = 0
    BY <1>1, <2>1 DEF EndInv, QueuedIsClosed
  <2>3. a.id = id /\ id # 0
    BY <2>1, IdIsPositive DEF Ends
  <2>4. /\ ended' = [ended EXCEPT ![id] = @ + 1] /\ last' = [last EXCEPT ![id] = a.state]
        /\ mission' = mission
    BY <2>1, <2>3 DEF Publish, Ends
  <2>5. a.state \in Lifetime
    BY <1>1, <2>3 DEF Message, Progress, Happening
  <2>6. ended'[id] = 1 /\ \A k \in Id : k # id => ended'[k] = ended[k]
    BY <2>2, <2>4 DEF EndInv, BoxTypes
  <2>7. BoxTypes'
    <3>1. ended' \in [Id -> 0 .. 1]
      BY <2>2, <2>4 DEF EndInv, BoxTypes
    <3>2. last' \in [Id -> Lifetime \cup {"none"}] /\ mission' \in {"unknown", "on", "over"}
      BY <2>4, <2>5 DEF EndInv, BoxTypes
    <3>3. QED
      BY <1>3, <3>1, <3>2 DEF BoxTypes
  <2>8. EndedIsClosed'
    BY <1>4, <2>2, <2>6 DEF EndInv, EndedIsClosed
  <2>9. QueuedIsClosed'
    <3> SUFFICES ASSUME NEW k \in Id, NEW u \in Thread, NEW i \in DOMAIN outbox'[u],
                        Ends(outbox'[u][i], k)
                 PROVE  ~Open(k)' /\ ended'[k] = 0
      BY DEF QueuedIsClosed, Ends
    <3>1. k # id
      BY <1>7, <2>1
    <3>2. ~Open(k) /\ ended[k] = 0
      BY <1>5 DEF EndInv, QueuedIsClosed
    <3>3. QED
      BY <3>1, <3>2, <2>6, <1>4
  <2>10. ClosedHasEnd'
    <3> SUFFICES ASSUME NEW k \in Id, ~Open(k)', ended'[k] # 1
                 PROVE  \E u \in Thread : \E i \in DOMAIN outbox'[u] : Ends(outbox'[u][i], k)
      BY DEF ClosedHasEnd, Ends
    <3>1. k # id /\ ended[k] # 1 /\ ~Open(k)
      BY <2>6, <1>4
    <3>2. Queued(k) /\ ~Ends(a, k)
      BY <3>1, <2>1 DEF EndInv, ClosedHasEnd, Ends
    <3>3. QED
      BY <3>2, <1>8
  <2>11. QED
    BY <2>7, <2>8, <2>9, <2>10, <1>6 DEF EndInv
<1>10. CASE ~\E id \in Id : Ends(a, id)
  <2>1. /\ ended' = ended
        /\ last' \in [Id -> Lifetime \cup {"none"}]
        /\ mission' \in {"unknown", "on", "over"}
    <3>1. CASE a.id # 0
      <4>1. a.id \in Id /\ a.state \in Lifetime
        BY <1>1, <3>1 DEF Message, Progress, Happening
      <4>2. ~terminal(a.state)
        BY <1>10, <4>1 DEF Ends
      <4>3. ended' = ended /\ last' = [last EXCEPT ![a.id] = a.state] /\ mission' = mission
        BY <3>1, <4>2 DEF Publish
      <4>4. QED
        BY <4>1, <4>3 DEF EndInv, BoxTypes
    <3>2. CASE a.id = 0
      BY <3>2 DEF Publish, EndInv, BoxTypes
    <3>3. QED
      BY <3>1, <3>2
  <2>2. BoxTypes'
    BY <1>3, <2>1 DEF EndInv, BoxTypes
  <2>3. EndedIsClosed'
    BY <1>4, <2>1 DEF EndInv, EndedIsClosed
  <2>4. QueuedIsClosed'
    <3> SUFFICES ASSUME NEW k \in Id, NEW u \in Thread, NEW i \in DOMAIN outbox'[u],
                        Ends(outbox'[u][i], k)
                 PROVE  ~Open(k)' /\ ended'[k] = 0
      BY DEF QueuedIsClosed, Ends
    <3>1. ~Open(k) /\ ended[k] = 0
      BY <1>5 DEF EndInv, QueuedIsClosed
    <3>2. QED
      BY <3>1, <2>1, <1>4
  <2>5. ClosedHasEnd'
    <3> SUFFICES ASSUME NEW k \in Id, ~Open(k)', ended'[k] # 1
                 PROVE  \E u \in Thread : \E i \in DOMAIN outbox'[u] : Ends(outbox'[u][i], k)
      BY DEF ClosedHasEnd, Ends
    <3>1. Queued(k) /\ ~Ends(a, k)
      BY <1>4, <1>10, <2>1 DEF EndInv, ClosedHasEnd
    <3>2. QED
      BY <3>1, <1>8
  <2>6. QED
    BY <2>2, <2>3, <2>4, <2>5, <1>6 DEF EndInv
<1>11. QED
  BY <1>9, <1>10

\* SubmitParsed
LEMMA SubmitKeepsEnds ==
  ASSUME Inv, NEW id \in Id, BeginCommand(id) \/ Launch(id)
  PROVE  EndInv'
<1> USE DEF Inv
<1> DEFINE t == <<"submit", id>>
<1>1. CASE BeginCommand(id)
  <2>1. /\ submit[id] = "unused" /\ id \notin pending /\ submit \in [Id -> {"unused", "begun", "returned"}]
        /\ UNCHANGED published
    BY <1>1 DEF BeginCommand, CommandInv, PendingSubmitted, CommandTypes
  <2>2. t \in Thread /\ outbox[t] = <<>>
    BY <2>1, Threads DEF BoxesFree
  <2>3. ASSUME NEW state \in Lifetime
        PROVE  Activity(id, state) \in Message
    BY DEF Activity, Message, Progress
  <2>4. CASE /\ outbox' = [outbox EXCEPT ![t] = <<Activity(id, "accepted")>>]
             /\ submit' = [submit EXCEPT ![id] = "begun"]
             /\ pending' = pending \cup {id}
    <3> DEFINE s == <<Activity(id, "accepted")>>
    <3>1. s \in Seq(Message)
      BY <2>3 DEF Lifetime
    <3>2. \A k \in Id : Open(k)' <=> Open(k)
      BY <2>1, <2>4 DEF Open
    <3>3. \A k \in Id : \A i \in DOMAIN s : ~Ends(s[i], k)
      BY DEF Ends, Activity, terminal
    <3> HIDE DEF s
    <3>4. QED
      BY <2>1, <2>2, <2>4, <3>1, <3>2, <3>3, TakingKeepsEnds DEF s
  <2>5. CASE /\ \/ outbox' = [outbox EXCEPT ![t] = <<Activity(id, "failed")>>]
                \/ outbox' = [outbox EXCEPT ![t] =
                                <<Activity(id, "accepted"), Activity(id, "completed")>>]
             /\ submit' = [submit EXCEPT ![id] = "returned"]
             /\ pending' = pending
    <3>1. Open(id) /\ ~Open(id)' /\ \A k \in Id : k # id => (Open(k)' <=> Open(k))
      BY <2>1, <2>5 DEF Open
    <3>2. ASSUME NEW s \in Seq(Message), outbox' = [outbox EXCEPT ![t] = s],
                 \/ s = <<Activity(id, "failed")>>
                 \/ s = <<Activity(id, "accepted"), Activity(id, "completed")>>
          PROVE  EndInv'
      <4>1. /\ \A k \in Id : \A i \in DOMAIN s : Ends(s[i], k) => k = id /\ i = Len(s)
            /\ \E i \in DOMAIN s : Ends(s[i], id)
        <5>1. CASE s = <<Activity(id, "failed")>>
          <6>1. Len(s) = 1 /\ DOMAIN s = {1} /\ s[1] = Activity(id, "failed")
            BY <5>1
          <6>2. QED
            BY <6>1 DEF Ends, Activity, terminal
        <5>2. CASE s = <<Activity(id, "accepted"), Activity(id, "completed")>>
          <6>1. /\ Len(s) = 2 /\ DOMAIN s = {1, 2}
                /\ s[1] = Activity(id, "accepted") /\ s[2] = Activity(id, "completed")
            BY <5>2
          <6>2. QED
            BY <6>1 DEF Ends, Activity, terminal
        <5>3. QED
          BY <3>2, <5>1, <5>2
      <4>2. QED
        BY <2>1, <2>2, <3>1, <3>2, <4>1, TakingKeepsEnds
    <3>3. /\ <<Activity(id, "failed")>> \in Seq(Message)
          /\ <<Activity(id, "accepted"), Activity(id, "completed")>> \in Seq(Message)
      BY <2>3 DEF Lifetime
    <3>4. QED
      BY <2>5, <3>2, <3>3
  <2>6. QED
    BY <1>1, <2>4, <2>5 DEF BeginCommand, Reject, Accept
<1>2. CASE Launch(id)
  <2>1. \A k \in Id : Open(k)' <=> Open(k)
    BY <1>2 DEF Launch, Open, CommandInv, CommandTypes, device
  <2>2. QED
    BY <1>2, <2>1, IdleKeepsEnds DEF Launch
<1>3. QED
  BY <1>1, <1>2

\* MarkRunning, MarkFailed and MarkCompleted
LEMMA MarkKeepsEnds ==
  ASSUME EndInv, PendingSubmitted, NEW id \in Id, NEW thread, <<thread, id>> \in Thread,
         outbox[<<thread, id>>] = <<>>,
         NEW state \in Lifetime, Mark(id, thread, state), UNCHANGED <<submit, published>>
  PROVE  EndInv'
<1> DEFINE t == <<thread, id>>
           s == IF id \in pending THEN <<Activity(id, state)>> ELSE <<>>
<1>1. outbox' = [outbox EXCEPT ![t] = s]
  BY DEF Mark
<1>2. s \in Seq(Message)
  BY DEF Activity, Message, Progress
<1>3. \A k \in Id : Open(k)' => Open(k)
  BY DEF Open, Mark
<1>4. \A k \in Id : \A i \in DOMAIN s : Ends(s[i], k) => Open(k) /\ ~Open(k)'
  <2> SUFFICES ASSUME NEW k \in Id, NEW i \in DOMAIN s, Ends(s[i], k)
               PROVE  Open(k) /\ ~Open(k)'
    OBVIOUS
  <2>1. id \in pending /\ k = id /\ terminal(state)
    BY DEF Ends, Activity
  <2>2. QED
    BY <2>1 DEF Open, Mark, PendingSubmitted
<1>5. \A i, j \in DOMAIN s : i = j
  OBVIOUS
<1>6. ASSUME NEW k \in Id, Open(k), ~Open(k)'
      PROVE  \E i \in DOMAIN s : Ends(s[i], k)
  <2>1. k = id /\ id \in pending /\ terminal(state)
    BY <1>6 DEF Open, Mark
  <2>2. 1 \in DOMAIN s /\ s[1] = Activity(id, state)
    BY <2>1
  <2>3. QED
    BY <2>1, <2>2 DEF Ends, Activity
<1> HIDE DEF s, t
<1>7. t \in Thread /\ outbox[t] = <<>>
  BY DEF t
<1>8. QED
  BY <1>1, <1>2, <1>3, <1>4, <1>5, <1>6, <1>7, TakingKeepsEnds

\* the dispatch goroutine and the timeout
LEMMA DispatchKeepsEnds ==
  ASSUME Inv, NEW id \in Id,
         \/ DispatchFails(id) \/ DispatchSucceeds(id) \/ Located(id) \/ completeDispatch(id)
         \/ ExpireCommand(id)
  PROVE  EndInv'
<1> USE DEF Inv
<1>1. CASE completeDispatch(id)
  <2>1. \A k \in Id : Open(k)' <=> Open(k)
    BY <1>1 DEF completeDispatch, Open, device
  <2>2. QED
    BY <1>1, <2>1, IdleKeepsEnds DEF completeDispatch
<1>2. CASE \/ DispatchFails(id) \/ DispatchSucceeds(id) \/ Located(id) \/ ExpireCommand(id)
  <2>1. /\ UNCHANGED <<submit, published>>
        /\ \E thread \in {"dispatch", "expire"}, state \in Lifetime :
             outbox[<<thread, id>>] = <<>> /\ Mark(id, thread, state)
    BY <1>2 DEF DispatchFails, DispatchSucceeds, Located, ExpireCommand, Lifetime, BoxesFree
  <2>2. PICK thread \in {"dispatch", "expire"}, state \in Lifetime :
          outbox[<<thread, id>>] = <<>> /\ Mark(id, thread, state)
    BY <2>1
  <2>3. <<thread, id>> \in Thread
    BY Threads
  <2>4. QED
    BY <2>1, <2>2, <2>3, MarkKeepsEnds DEF CommandInv
<1>3. QED
  BY <1>1, <1>2

\* What a reporter takes: events of the robot, then the ends of some pending commands.
LEMMA ReportKeepsEnds ==
  ASSUME CommandInv, EndInv, NEW r \in Reporter, outbox[<<"report", r>>] = <<>>, NEW C \in SUBSET pending,
         NEW state \in {"completed", "failed"}, NEW events \in Seq(Happening), pending' = pending \ C,
         outbox' = [outbox EXCEPT ![<<"report", r>>] =
                      events \o EndsOf(C, state)],
         UNCHANGED <<submit, published>>
  PROVE  EndInv'
<1> DEFINE e == EndsOf(C, state)
           s == events \o e
<1>1. /\ e \in Seq(Progress)
      /\ \A i \in DOMAIN e : e[i].id \in C /\ e[i].state = state
      /\ \A i, j \in DOMAIN e : e[i].id = e[j].id => i = j
      /\ \A id \in C : \E i \in DOMAIN e : e[i].id = id
  <2>1. C \in SUBSET Id
    BY DEF CommandInv, DeviceTypes
  <2>2. state \in Lifetime
    BY DEF Lifetime
  <2>3. QED
    BY <2>1, <2>2, Endings
<1> HIDE DEF e
<1>2. s \in Seq(Message) /\ Len(s) = Len(events) + Len(e)
  <2>1. events \in Seq(Message) /\ e \in Seq(Message)
    BY <1>1 DEF Message
  <2>2. QED
    BY <2>1
<1>3. ASSUME NEW k \in Id, NEW i \in DOMAIN s, Ends(s[i], k)
      PROVE  /\ i - Len(events) \in DOMAIN e /\ i \in Nat
             /\ e[i - Len(events)].id = k /\ k \in C
  <2>1. i \in Nat \ {0} /\ i <= Len(s)
    BY <1>2, Positions
  <2>2. CASE i <= Len(events)
    <3>1. s[i] = events[i] /\ events[i] \in Happening
      BY <2>1, <2>2
    <3>2. s[i].id = 0
      BY <3>1 DEF Happening
    <3>3. QED
      BY <3>2, <1>3, IdIsPositive DEF Ends
  <2>3. CASE i > Len(events)
    <3>1. i - Len(events) \in DOMAIN e /\ s[i] = e[i - Len(events)]
      BY <2>1, <2>3, <1>1, <1>2
    <3>2. QED
      BY <3>1, <2>1, <1>1, <1>3 DEF Ends
  <2>4. QED
    BY <2>1, <2>2, <2>3
<1>4. \A k \in Id : \A i \in DOMAIN s : Ends(s[i], k) => Open(k) /\ ~Open(k)'
  <2>1. \A k \in C : k \in pending /\ submit[k] # "unused" /\ k \notin pending'
    BY DEF CommandInv, PendingSubmitted
  <2>2. QED
    BY <1>3, <2>1 DEF Open
<1>5. \A k \in Id : Open(k)' => Open(k)
  BY DEF Open
<1>6. \A k \in Id : \A i, j \in DOMAIN s : Ends(s[i], k) /\ Ends(s[j], k) => i = j
  <2> SUFFICES ASSUME NEW k \in Id, NEW i \in DOMAIN s, NEW j \in DOMAIN s,
                      Ends(s[i], k), Ends(s[j], k)
               PROVE  i = j
    OBVIOUS
  <2>1. /\ i \in Nat /\ i - Len(events) \in DOMAIN e /\ e[i - Len(events)].id = k
        /\ j \in Nat /\ j - Len(events) \in DOMAIN e /\ e[j - Len(events)].id = k
    BY <1>3
  <2>2. i - Len(events) = j - Len(events)
    BY <1>1, <2>1
  <2>3. Len(events) \in Nat
    OBVIOUS
  <2>4. QED
    BY <2>1, <2>2, <2>3
<1>7. outbox' = [outbox EXCEPT ![<<"report", r>>] = s] /\ <<"report", r>> \in Thread
  BY Threads DEF e
<1>8. ASSUME NEW k \in Id, Open(k), ~Open(k)'
      PROVE  \E i \in DOMAIN s : Ends(s[i], k)
  <2>1. k \in C
    BY <1>8 DEF Open
  <2>2. PICK i \in DOMAIN e : e[i].id = k /\ e[i].state = state
    BY <1>1, <2>1
  <2>3. Len(events) + i \in DOMAIN s /\ s[Len(events) + i] = e[i]
    BY <1>1, <1>2
  <2>4. QED
    BY <2>2, <2>3 DEF Ends, terminal
<1> HIDE DEF s
<1>9. QED
  BY <1>2, <1>4, <1>5, <1>6, <1>7, <1>8, TakingKeepsEnds

\* What a transition announces, if anything
LEMMA Announced ==
  ASSUME NEW condition \in BOOLEAN, NEW name \in EventName
  PROVE  If(condition, name) \in Seq(Happening)
<1>1. Event(name) \in Happening
  BY DEF Event, Happening
<1>2. <<Event(name)>> \in Seq(Happening) /\ <<>> \in Seq(Happening)
  BY <1>1
<1>3. QED
  BY <1>2 DEF If

LEMMA Joined ==
  ASSUME NEW S, NEW p \in Seq(S), NEW q \in Seq(S)
  PROVE  p \o q \in Seq(S)
OBVIOUS

LEMMA EndStep ==
  ASSUME Inv, [Next]_vars
  PROVE  EndInv'
<1> USE DEF Inv
<1>1. CASE \/ \E c \in Command : Elapse(c)
           \/ \E r \in Reporter : Read(r)
           \/ UNCHANGED vars
  <2>1. UNCHANGED <<outbox, published, submit, pending>>
    BY <1>1 DEF Elapse, Read, vars, device, coordinator
  <2>2. QED
    BY <2>1, IdleKeepsEnds DEF Open
<1>2. ASSUME NEW r \in Reporter, UpdateStatus(r)
      PROVE  EndInv'
  <2> DEFINE s == sample[r]
             C == {id \in pending : Confirms(s, command[id])}
             e == EndsOf(C, "completed")
  <2>1. /\ pending' = pending \ C /\ UNCHANGED <<submit, published>>
        /\ C \in SUBSET pending /\ outbox[<<"report", r>>] = <<>>
    BY <1>2 DEF UpdateStatus, coordinator, BoxesFree
  <2>2. PICK events \in Seq(Happening) :
          outbox' = [outbox EXCEPT ![<<"report", r>>] = events \o e]
    <3>1. CASE status = NoStatus
      <4>1. C \in SUBSET Id
        BY DEF Inv, CommandInv, DeviceTypes
      <4>2. e \in Seq(Progress)
        BY <4>1, Endings DEF Lifetime
      <4> HIDE DEF e
      <4>3. outbox' = [outbox EXCEPT ![<<"report", r>>] = e]
        BY <1>2, <3>1 DEF UpdateStatus, e, EndsOf
      <4>4. e = <<>> \o e
        BY <4>2
      <4>5. <<>> \in Seq(Happening)
        OBVIOUS
      <4>6. QED
        BY <4>3, <4>4, <4>5
    <3>2. CASE status # NoStatus
      <4>1. Transitions(r, s, e)
        BY <1>2, <3>2 DEF UpdateStatus, EndsOf
      <4>2. PICK p1 \in Seq(Happening), p2 \in Seq(Happening), p3 \in Seq(Happening),
                 p4 \in Seq(Happening), p5 \in Seq(Happening), p6 \in Seq(Happening) :
              outbox' = [outbox EXCEPT ![<<"report", r>>] =
                           p1 \o p2 \o p3 \o p4 \o p5 \o p6 \o e]
        <5> HIDE DEF e
        <5>1. PICK b1 \in BOOLEAN, b2 \in BOOLEAN, b3 \in BOOLEAN,
                   b4 \in BOOLEAN, b5 \in BOOLEAN, b6 \in BOOLEAN :
                outbox' = [outbox EXCEPT ![<<"report", r>>] =
                             If(b1, "resumed") \o If(b2, "cleaning_started")
                             \o If(b3, "paused") \o If(b4, "cleaning_completed")
                             \o If(b5, "returned_to_dock") \o If(b6, "error") \o e]
          BY <4>1 DEF Transitions
        <5>2. /\ If(b1, "resumed") \in Seq(Happening)
              /\ If(b2, "cleaning_started") \in Seq(Happening)
              /\ If(b3, "paused") \in Seq(Happening)
              /\ If(b4, "cleaning_completed") \in Seq(Happening)
              /\ If(b5, "returned_to_dock") \in Seq(Happening)
              /\ If(b6, "error") \in Seq(Happening)
          BY Announced DEF EventName
        <5>3. QED
          BY <5>1, <5>2
      <4>3. p1 \o p2 \o p3 \o p4 \o p5 \o p6 \in Seq(Happening)
        BY <4>2, Joined
      <4>4. QED
        BY <4>2, <4>3
    <3>3. QED
      BY <3>1, <3>2
  <2> HIDE DEF C
  <2>3. QED
    BY <2>1, <2>2, ReportKeepsEnds
<1>3. ASSUME NEW r \in Reporter, UpdateAvailability(r)
      PROVE  EndInv'
  <2> DEFINE e == EndsOf(pending, "failed")
  <2>1. /\ pending' = pending \ pending /\ UNCHANGED <<submit, published>>
        /\ outbox' = [outbox EXCEPT ![<<"report", r>>] = e]
        /\ outbox[<<"report", r>>] = <<>>
    BY <1>3 DEF UpdateAvailability, free, coordinator, EndsOf
  <2>2. e = <<>> \o e
    <3>1. pending \in SUBSET Id /\ "failed" \in Lifetime
      BY DEF CommandInv, DeviceTypes, Lifetime
    <3>2. e \in Seq(Progress)
      BY <3>1, Endings
    <3> HIDE DEF e
    <3>3. QED
      BY <3>2
  <2>3. <<>> \in Seq(Happening) /\ pending \in SUBSET pending
    OBVIOUS
  <2>4. QED
    BY <2>1, <2>2, <2>3, ReportKeepsEnds
<1>4. ASSUME NEW r \in Reporter, UpdateRoom(r)
      PROVE  EndInv'
  <2>1. PICK s \in Seq(Happening) : outbox' = [outbox EXCEPT ![<<"report", r>>] = s]
    <3>1. \E b \in BOOLEAN : outbox' = [outbox EXCEPT ![<<"report", r>>] = If(b, "room_entered")]
      BY <1>4 DEF UpdateRoom
    <3>2. QED
      BY <3>1, Announced DEF EventName
  <2>2. UNCHANGED <<submit, pending, published>> /\ outbox[<<"report", r>>] = <<>>
    BY <1>4 DEF UpdateRoom, free, coordinator
  <2>3. \A k \in Id : \A i \in DOMAIN s : ~Ends(s[i], k)
    <3>1. \A i \in DOMAIN s : s[i] \in Happening
      BY Positions
    <3>2. QED
      BY <3>1, IdIsPositive DEF Ends, Happening
  <2>4. s \in Seq(Message) /\ <<"report", r>> \in Thread
    BY Threads DEF Message
  <2>5. QED
    BY <2>1, <2>2, <2>3, <2>4, TakingKeepsEnds DEF Open
<1>5. QED
  BY <1>1, <1>2, <1>3, <1>4, SubmitKeepsEnds, DispatchKeepsEnds, PublishKeepsEnds
  DEF Next, Lifecycle, Report

LEMMA FreeInit == Init => BoxesFree
BY Threads DEF Init, BoxesFree

LEMMA ThreadsDiffer == \A a, b, x, y : <<a, x>> = <<b, y>> <=> a = b /\ x = y
OBVIOUS

\* A step of the life of one command changes the boxes of its goroutines alone.
LEMMA LifecycleKeepsFree ==
  ASSUME Inv, NEW id \in Id, Lifecycle(id)
  PROVE  BoxesFree'
<1> USE DEF Inv, CommandInv, CommandTypes, EndInv, BoxTypes
<1>1. \A k \in Id : /\ <<"submit", k>> \in Thread /\ <<"dispatch", k>> \in Thread
                     /\ <<"expire", k>> \in Thread
  BY Threads
<1>2. ASSUME NEW thread \in {"submit", "dispatch", "expire"}, NEW s,
             outbox' = [outbox EXCEPT ![<<thread, id>>] = s]
      PROVE  /\ \A k \in Id, other \in {"submit", "dispatch", "expire"} :
                  k # id \/ other # thread => outbox'[<<other, k>>] = outbox[<<other, k>>]
             /\ \A r \in Reporter : outbox'[<<"report", r>>] = outbox[<<"report", r>>]
  BY <1>2, Threads, ThreadsDiffer
<1>3. CASE BeginCommand(id)
  <2>1. PICK s : outbox' = [outbox EXCEPT ![<<"submit", id>>] = s]
    BY <1>3 DEF BeginCommand, Reject, Accept
  <2>2. /\ submit[id] = "unused" /\ submit'[id] # "unused"
        /\ \A k \in Id : k # id => submit'[k] = submit[k]
        /\ UNCHANGED <<dispatching, armed, sample>>
    BY <1>3 DEF BeginCommand, Reject, Accept
  <2>3. QED
    BY <1>2, <2>1, <2>2 DEF BoxesFree
<1>4. CASE Launch(id)
  <2>1. /\ submit[id] = "begun" /\ submit' = [submit EXCEPT ![id] = "returned"]
        /\ dispatching' = [dispatching EXCEPT ![id] = "calling"]
        /\ armed' = armed \cup {id} /\ UNCHANGED <<outbox, sample>>
    BY <1>4 DEF Launch
  <2>2. QED
    BY <2>1 DEF BoxesFree
<1>5. CASE \/ DispatchFails(id) \/ DispatchSucceeds(id) \/ Located(id)
  <2>1. PICK s : outbox' = [outbox EXCEPT ![<<"dispatch", id>>] = s]
    BY <1>5 DEF DispatchFails, DispatchSucceeds, Located, Mark
  <2>2. /\ dispatching[id] # "none" /\ dispatching'[id] \notin {"none", "calling"}
        /\ \A k \in Id : k # id => dispatching'[k] = dispatching[k]
        /\ UNCHANGED <<submit, armed, sample>>
    BY <1>5 DEF DispatchFails, DispatchSucceeds, Located, goesTo, Steps
  <2>3. QED
    BY <1>2, <2>1, <2>2 DEF BoxesFree
<1>6. CASE completeDispatch(id)
  <2>1. /\ dispatching[id] = "finishing" /\ dispatching' = [dispatching EXCEPT ![id] = "done"]
        /\ UNCHANGED <<submit, armed, sample, outbox>>
    BY <1>6 DEF completeDispatch, goesTo
  <2>2. QED
    BY <2>1 DEF BoxesFree
<1>7. CASE ExpireCommand(id)
  <2>1. PICK s : outbox' = [outbox EXCEPT ![<<"expire", id>>] = s]
    BY <1>7 DEF ExpireCommand, Mark
  <2>2. id \in armed /\ armed' = armed \ {id} /\ UNCHANGED <<submit, dispatching, sample>>
    BY <1>7 DEF ExpireCommand
  <2>3. QED
    BY <1>2, <2>1, <2>2 DEF BoxesFree
<1>8. QED
  BY <1>3, <1>4, <1>5, <1>6, <1>7 DEF Lifecycle

LEMMA ReportKeepsFree ==
  ASSUME Inv, NEW r \in Reporter, Report(r)
  PROVE  BoxesFree'
<1> USE DEF Inv, CommandInv, DeviceTypes, EndInv, BoxTypes
<1>1. UNCHANGED <<submit, dispatching, armed>>
  BY DEF Report, Read, UpdateStatus, UpdateAvailability, UpdateRoom, coordinator
<1>2. PICK s : /\ outbox' = [outbox EXCEPT ![<<"report", r>>] = s]
               /\ sample'[r] # NoStatus => s = <<>>
               /\ \A q \in Reporter : q # r => sample'[q] = sample[q]
  <2>1. CASE Read(r)
    <3>1. outbox' = [outbox EXCEPT ![<<"report", r>>] = <<>>]
      BY <2>1 DEF Read, free
    <3>2. QED
      BY <2>1, <3>1 DEF Read
  <2>2. CASE UpdateStatus(r)
    <3>1. \E s : outbox' = [outbox EXCEPT ![<<"report", r>>] = s]
      BY <2>2 DEF UpdateStatus, Transitions
    <3>2. QED
      BY <2>2, <3>1 DEF UpdateStatus
  <2>3. CASE UpdateAvailability(r) \/ UpdateRoom(r)
    BY <2>3 DEF UpdateAvailability, UpdateRoom, free
  <2>4. QED
    BY <2>1, <2>2, <2>3 DEF Report
<1>3. /\ \A k \in Id, thread \in {"submit", "dispatch", "expire"} :
           outbox'[<<thread, k>>] = outbox[<<thread, k>>]
      /\ \A q \in Reporter : q # r => outbox'[<<"report", q>>] = outbox[<<"report", q>>]
      /\ outbox'[<<"report", r>>] = s
  BY <1>2, Threads, ThreadsDiffer
<1>4. QED
  BY <1>1, <1>2, <1>3 DEF BoxesFree

LEMMA FreeStep ==
  ASSUME Inv, [Next]_vars
  PROVE  BoxesFree'
<1>1. CASE \E t \in Thread : Publish(t)
  <2>1. PICK t \in Thread : Publish(t)
    BY <1>1
  <2>2. /\ outbox[t] # <<>> /\ UNCHANGED <<submit, dispatching, armed, sample>>
        /\ outbox' = [outbox EXCEPT ![t] = Tail(outbox[t])]
    BY <2>1 DEF Publish, coordinator
  <2>3. \A u \in Thread : outbox[u] = <<>> => outbox'[u] = <<>>
    BY <2>2 DEF Inv, EndInv, BoxTypes
  <2>4. QED
    BY <2>2, <2>3, Threads DEF Inv, BoxesFree
<1>2. CASE (\E c \in Command : Elapse(c)) \/ UNCHANGED vars
  <2>1. UNCHANGED <<submit, dispatching, armed, sample, outbox>>
    BY <1>2 DEF Elapse, vars, coordinator
  <2>2. QED
    BY <2>1 DEF Inv, BoxesFree
<1>3. CASE \E id \in Id : Lifecycle(id)
  BY <1>3, LifecycleKeepsFree
<1>4. CASE \E r \in Reporter : Report(r)
  BY <1>4, ReportKeepsFree
<1>5. Next \/ UNCHANGED vars
  OBVIOUS
<1>6. QED
  BY <1>1, <1>2, <1>3, <1>4, <1>5 DEF Next

\* Types and ends hold throughout.
LEMMA Invariant == Spec => []Inv
<1>1. Init => Inv
  BY CommandInit, EndInit, FreeInit DEF Inv
<1>2. Inv /\ [Next]_vars => Inv'
  BY CommandStep, EndStep, FreeStep DEF Inv
<1>3. QED
  BY <1>1, <1>2, PTL DEF Spec

\* Every variable keeps its type, for any commands, statuses and reporters.
THEOREM TypeCorrect == Spec => []TypeOK
<1>1. Inv => TypeOK
  BY DEF Inv, CommandInv, DeviceTypes, CommandTypes, Steps, EndInv, BoxTypes, TypeOK, Message,
         Progress, Happening
<1>2. QED
  BY <1>1, Invariant, PTL

\* However the reports, the dispatch and the timeout of a command race, exactly
\* one of them ends it: what is published and what is queued by all goroutines
\* together is one terminal activity for a command that is submitted and no longer
\* pending, and none before.
THEOREM EndsOnce == Spec => []OneTerminalActivity
<1>1. ASSUME Inv, NEW id \in Id
      PROVE  LET queued == {t \in Thread : \E i \in DOMAIN outbox[t] :
                              outbox[t][i].id = id /\ terminal(outbox[t][i].state)}
             IN  ended[id] + Cardinality(queued) =
                   IF submit[id] = "unused" \/ id \in pending THEN 0 ELSE 1
  <2> DEFINE queued == {t \in Thread : \E i \in DOMAIN outbox[t] :
                              outbox[t][i].id = id /\ terminal(outbox[t][i].state)}
  <2>1. ended[id] \in 0 .. 1
    BY <1>1 DEF Inv, EndInv, BoxTypes
  <2>2. CASE queued = {}
    <3>1. Cardinality(queued) = 0
      BY <2>2, FS_EmptySet
    <3>2. ended[id] = IF Open(id) THEN 0 ELSE 1
      BY <1>1, <2>1, <2>2 DEF Inv, EndInv, EndedIsClosed, ClosedHasEnd, Ends
    <3>3. QED
      BY <3>1, <3>2 DEF Open
  <2>3. CASE queued # {}
    <3>1. PICK t : t \in queued
      BY <2>3
    <3>2. ~Open(id) /\ ended[id] = 0 /\ \A u \in queued : u = t
      BY <1>1, <3>1 DEF Inv, EndInv, QueuedIsClosed, QueuedOnce, Ends
    <3>3. queued = {t}
      BY <3>1, <3>2
    <3>4. Cardinality(queued) = 1
      BY <3>3, FS_Singleton
    <3>5. QED
      BY <3>2, <3>4 DEF Open
  <2>4. QED
    BY <2>2, <2>3
<1>2. Inv => OneTerminalActivity
  BY <1>1 DEF OneTerminalActivity
<1>3. QED
  BY <1>2, Invariant, PTL

\* what is published of a command after its end never is another end
EndStands ==
  [][\A id \in Id : ended[id] # 0 /\ terminal(last'[id]) => last'[id] = last[id]]_vars

\* FindCommand may answer "accepted" or "running" again for a command that is over,
\* when a goroutine is late to publish, but its end is not taken back: completed
\* never becomes failed, nor failed completed.
THEOREM EndsStand == Spec => EndStands
<1>1. ASSUME Inv, [Next]_vars, NEW id \in Id, ended[id] # 0, terminal(last'[id])
      PROVE  last'[id] = last[id]
  <2>1. CASE \E t \in Thread : Publish(t)
    <3>1. PICK t \in Thread : Publish(t)
      BY <2>1
    <3> DEFINE a == Head(outbox[t])
    <3>2. outbox[t] \in Seq(Message) /\ outbox[t] # <<>>
      BY <1>1, <3>1 DEF Publish, Inv, EndInv, BoxTypes
    <3>3. 1 \in DOMAIN outbox[t] /\ a = outbox[t][1]
      BY <3>2
    <3>4. last' = last \/ last' = [last EXCEPT ![a.id] = a.state]
      BY <3>1 DEF Publish
    <3>5. CASE a.id = id /\ terminal(a.state)
      <4>1. ended[id] = 0
        BY <1>1, <3>3, <3>5 DEF Inv, EndInv, QueuedIsClosed, Ends
      <4>2. QED
        BY <1>1, <4>1
    <3>6. CASE ~(a.id = id /\ terminal(a.state))
      BY <1>1, <3>4, <3>6 DEF Inv, EndInv, BoxTypes
    <3>7. QED
      BY <3>5, <3>6
  <2>2. CASE ~\E t \in Thread : Publish(t)
    BY <1>1, <2>2
    DEF Next, Lifecycle, Report, BeginCommand, Launch, completeDispatch, DispatchFails,
        DispatchSucceeds, Located, ExpireCommand, Elapse, Read, UpdateStatus,
        UpdateAvailability, UpdateRoom, vars, published
  <2>3. QED
    BY <2>1, <2>2
<1>2. Inv /\ [Next]_vars =>
        [\A id \in Id : ended[id] # 0 /\ terminal(last'[id]) => last'[id] = last[id]]_vars
  BY <1>1
<1>3. QED
  BY <1>2, Invariant, PTL DEF Spec, EndStands

-----------------------------------------------------------------------------
(* The mission the events tell *)

\* The events from which the reader of the stream learns of the mission, and what
News(a) == a.id = 0 /\ a.state \in {"cleaning_started", "resumed", "paused",
                                    "cleaning_completed", "error"}
Tells(a) == IF a.state \in {"cleaning_completed", "error"} THEN "over" ELSE "on"
Learned(m, a) == IF News(a) THEN Tells(a) ELSE m

\* who has read m knows n once the activities of s are published
Leaves(s, m, n) ==
  \/ n = m /\ \A i \in DOMAIN s : ~News(s[i])
  \/ \E i \in DOMAIN s :
       News(s[i]) /\ n = Tells(s[i]) /\ \A j \in DOMAIN s : j > i => ~News(s[j])

Knowledge == {"unknown", "on", "over"}

LEMMA LeavesNothing ==
  ASSUME NEW m, NEW n, Leaves(<<>>, m, n)
  PROVE  n = m
BY DEF Leaves

LEMMA LeavesQuiet ==
  ASSUME NEW s, NEW m, \A i \in DOMAIN s : ~News(s[i])
  PROVE  Leaves(s, m, m)
BY DEF Leaves

LEMMA LeavesJoined ==
  ASSUME NEW p \in Seq(Message), NEW q \in Seq(Message), NEW m, NEW k, NEW n,
         Leaves(p, m, k), Leaves(q, k, n)
  PROVE  Leaves(p \o q, m, n)
<1> DEFINE s == p \o q
<1>1. /\ s \in Seq(Message) /\ Len(p) \in Nat /\ Len(q) \in Nat /\ Len(s) = Len(p) + Len(q)
      /\ \A i \in DOMAIN p : i \in DOMAIN s /\ s[i] = p[i] /\ i \in Nat /\ i <= Len(p)
      /\ \A i \in DOMAIN q : i + Len(p) \in DOMAIN s /\ s[i + Len(p)] = q[i] /\ i \in Nat \ {0}
      /\ \A i \in DOMAIN s : /\ i \in Nat
                             /\ \/ i \in DOMAIN p
                                \/ i - Len(p) \in DOMAIN q /\ s[i] = q[i - Len(p)] /\ i > Len(p)
  OBVIOUS
<1> HIDE DEF s
<1>2. CASE n = k /\ \A i \in DOMAIN q : ~News(q[i])
  <2>1. CASE n = m /\ \A i \in DOMAIN p : ~News(p[i])
    <3>1. \A i \in DOMAIN s : ~News(s[i])
      BY <1>1, <1>2, <2>1
    <3>2. QED
      BY <3>1, <2>1 DEF Leaves, s
  <2>2. CASE \E i \in DOMAIN p :
               News(p[i]) /\ n = Tells(p[i]) /\ \A j \in DOMAIN p : j > i => ~News(p[j])
    <3>1. PICK i \in DOMAIN p :
            News(p[i]) /\ n = Tells(p[i]) /\ \A j \in DOMAIN p : j > i => ~News(p[j])
      BY <2>2
    <3>2. \A j \in DOMAIN s : j > i => ~News(s[j])
      BY <1>1, <1>2, <3>1
    <3>3. i \in DOMAIN s /\ s[i] = p[i]
      BY <1>1
    <3>4. QED
      BY <3>1, <3>2, <3>3 DEF Leaves, s
  <2>3. QED
    BY <1>2, <2>1, <2>2 DEF Leaves
<1>3. CASE \E i \in DOMAIN q :
             News(q[i]) /\ n = Tells(q[i]) /\ \A j \in DOMAIN q : j > i => ~News(q[j])
  <2>1. PICK i \in DOMAIN q :
          News(q[i]) /\ n = Tells(q[i]) /\ \A j \in DOMAIN q : j > i => ~News(q[j])
    BY <1>3
  <2>2. i + Len(p) \in DOMAIN s /\ s[i + Len(p)] = q[i] /\ i \in Nat \ {0}
    BY <1>1
  <2>3. ASSUME NEW j \in DOMAIN s, j > i + Len(p)
        PROVE  ~News(s[j])
    <3>1. j - Len(p) \in DOMAIN q /\ s[j] = q[j - Len(p)] /\ j \in Nat
      BY <1>1, <2>2, <2>3
    <3>2. j - Len(p) > i
      BY <3>1, <1>1, <2>2, <2>3
    <3>3. QED
      BY <2>1, <3>1, <3>2
  <2>4. QED
    BY <2>1, <2>2, <2>3 DEF Leaves, s
<1>4. QED
  BY <1>2, <1>3 DEF Leaves

LEMMA LeavesAnnounced ==
  ASSUME NEW condition \in BOOLEAN, NEW name \in EventName, NEW m
  PROVE  Leaves(If(condition, name), m, IF condition THEN Learned(m, Event(name)) ELSE m)
<1>1. CASE ~condition
  BY <1>1, LeavesQuiet DEF If
<1>2. CASE condition
  <2> DEFINE a == Event(name)
             s == <<a>>
  <2>1. DOMAIN s = {1} /\ s[1] = a
    OBVIOUS
  <2> HIDE DEF s, a
  <2>2. Leaves(s, m, Learned(m, a))
    BY <2>1 DEF Leaves, Learned
  <2>3. QED
    BY <1>2, <2>2 DEF If, s, a
<1>3. QED
  BY <1>1, <1>2

LEMMA LeavesPublished ==
  ASSUME NEW s \in Seq(Message), s # <<>>, NEW m, NEW n, Leaves(s, m, n)
  PROVE  Leaves(Tail(s), Learned(m, Head(s)), n)
<1> DEFINE q == Tail(s)
<1>1. /\ q \in Seq(Message) /\ Head(s) = s[1] /\ 1 \in DOMAIN s
      /\ \A i \in DOMAIN q : i \in Nat \ {0} /\ i + 1 \in DOMAIN s /\ q[i] = s[i + 1]
      /\ \A i \in DOMAIN s : /\ i \in Nat
                             /\ i # 1 => i - 1 \in DOMAIN q /\ q[i - 1] = s[i] /\ i > 1
  OBVIOUS
<1> HIDE DEF q
<1>2. CASE n = m /\ \A i \in DOMAIN s : ~News(s[i])
  BY <1>1, <1>2 DEF Leaves, Learned, q
<1>3. CASE \E i \in DOMAIN s :
             News(s[i]) /\ n = Tells(s[i]) /\ \A j \in DOMAIN s : j > i => ~News(s[j])
  <2>1. PICK i \in DOMAIN s :
          News(s[i]) /\ n = Tells(s[i]) /\ \A j \in DOMAIN s : j > i => ~News(s[j])
    BY <1>3
  <2>2. CASE i = 1
    <3>1. \A j \in DOMAIN q : ~News(q[j])
      BY <1>1, <2>1, <2>2
    <3>2. n = Learned(m, Head(s))
      BY <1>1, <2>1, <2>2 DEF Learned
    <3>3. QED
      BY <3>1, <3>2 DEF Leaves, q
  <2>3. CASE i # 1
    <3>1. i - 1 \in DOMAIN q /\ q[i - 1] = s[i] /\ i \in Nat
      BY <1>1, <2>3
    <3>2. \A j \in DOMAIN q : j > i - 1 => ~News(q[j])
      BY <1>1, <2>1, <3>1
    <3>3. QED
      BY <2>1, <3>1, <3>2 DEF Leaves, q
  <2>4. QED
    BY <2>2, <2>3
<1>4. QED
  BY <1>2, <1>3 DEF Leaves

\* one goroutine reports
SingleReporter == \E r : Reporter = {r}

\* Only the reporter holds events.
OwnBoxes ==
  \A t \in Thread : t[1] # "report" => \A i \in DOMAIN outbox[t] : outbox[t][i].id # 0

\* What the events on their way leave agrees with the tracker.
NewsAgrees ==
  \A r \in Reporter : \E n \in Knowledge :
    /\ Leaves(outbox[<<"report", r>>], mission, n)
    /\ n # "unknown" => (n = "on" <=> cycleActive)
    /\ status = NoStatus => n = "unknown"

MissionInv == Inv /\ SingleReporter /\ OwnBoxes /\ NewsAgrees

LEMMA MissionInit == Init /\ SingleReporter => OwnBoxes /\ NewsAgrees
<1> SUFFICES ASSUME Init PROVE OwnBoxes /\ NewsAgrees
  OBVIOUS
<1>1. \A t \in Thread : outbox[t] = <<>> /\ DOMAIN outbox[t] = {}
  BY DEF Init
<1>2. \A r \in Reporter : Leaves(outbox[<<"report", r>>], "unknown", "unknown")
  BY <1>1, Threads, LeavesQuiet
<1>3. NewsAgrees
  BY <1>2 DEF NewsAgrees, Init, Knowledge
<1>4. OwnBoxes
  BY <1>1, Threads DEF OwnBoxes
<1>5. QED
  BY <1>3, <1>4

\* A goroutine of a command takes progress of that command.
LEMMA CommandKeepsMission ==
  ASSUME MissionInv, NEW t \in Thread, t[1] # "report", NEW s,
         outbox' = [outbox EXCEPT ![t] = s], \A i \in DOMAIN s : s[i].id # 0,
         UNCHANGED <<status, cycleActive, sample, mission>>
  PROVE  OwnBoxes' /\ NewsAgrees'
<1>1. outbox'[t] = s /\ \A u \in Thread : u # t => outbox'[u] = outbox[u]
  BY DEF MissionInv, Inv, EndInv, BoxTypes
<1>2. \A r \in Reporter : outbox'[<<"report", r>>] = outbox[<<"report", r>>]
  <2>1. \A r \in Reporter : <<"report", r>>[1] = "report"
    OBVIOUS
  <2>2. \A r \in Reporter : <<"report", r>> # t
    BY <2>1
  <2>3. QED
    BY <1>1, <2>2, Threads
<1>3. OwnBoxes'
  BY <1>1, <1>2 DEF MissionInv, OwnBoxes
<1>4. NewsAgrees'
  BY <1>2 DEF MissionInv, NewsAgrees
<1>5. QED
  BY <1>3, <1>4

LEMMA LifecycleKeepsMission ==
  ASSUME MissionInv, NEW id \in Id, Lifecycle(id)
  PROVE  OwnBoxes' /\ NewsAgrees'
<1>1. UNCHANGED <<status, cycleActive, sample, mission>>
  BY DEF Lifecycle, BeginCommand, Launch, completeDispatch, DispatchFails, DispatchSucceeds,
         Located, ExpireCommand, device, published
<1>2. id # 0
  BY IdIsPositive
<1>3. CASE Launch(id) \/ completeDispatch(id)
  BY <1>1, <1>3 DEF Launch, completeDispatch, MissionInv, OwnBoxes, NewsAgrees
<1>4. CASE BeginCommand(id)
  <2>1. PICK s \in {<<Activity(id, "failed")>>, <<Activity(id, "accepted")>>,
                    <<Activity(id, "accepted"), Activity(id, "completed")>>} :
          outbox' = [outbox EXCEPT ![<<"submit", id>>] = s]
    BY <1>4 DEF BeginCommand, Reject, Accept
  <2>2. \A i \in DOMAIN s : s[i].id = id
    BY <2>1 DEF Activity
  <2>3. <<"submit", id>> \in Thread /\ <<"submit", id>>[1] # "report"
    BY Threads
  <2>4. QED
    BY <1>1, <1>2, <2>1, <2>2, <2>3, CommandKeepsMission
<1>5. CASE \/ DispatchFails(id) \/ DispatchSucceeds(id) \/ Located(id) \/ ExpireCommand(id)
  <2>1. PICK thread \in {"dispatch", "expire"}, state \in Lifetime : Mark(id, thread, state)
    BY <1>5 DEF DispatchFails, DispatchSucceeds, Located, ExpireCommand, Lifetime
  <2>2. PICK s \in {<<Activity(id, state)>>, <<>>} :
          outbox' = [outbox EXCEPT ![<<thread, id>>] = s]
    BY <2>1 DEF Mark
  <2>3. \A i \in DOMAIN s : s[i].id = id
    BY <2>2 DEF Activity
  <2>4. <<thread, id>> \in Thread /\ <<thread, id>>[1] # "report"
    BY <2>1, Threads
  <2>5. QED
    BY <1>1, <1>2, <2>2, <2>3, <2>4, CommandKeepsMission
<1>6. QED
  BY <1>3, <1>4, <1>5 DEF Lifecycle

\* The reporter takes activities that leave its reader where the tracker is.
LEMMA ReporterKeepsMission ==
  ASSUME MissionInv, NEW r \in Reporter, NEW s, NEW n \in Knowledge,
         outbox' = [outbox EXCEPT ![<<"report", r>>] = s], UNCHANGED mission,
         sample'[r] = NoStatus,
         Leaves(s, mission, n),
         n # "unknown" => (n = "on" <=> cycleActive'),
         status' = NoStatus => n = "unknown"
  PROVE  OwnBoxes' /\ NewsAgrees'
<1> DEFINE t == <<"report", r>>
<1>1. t \in Thread /\ t[1] = "report" /\ Reporter = {r}
  BY Threads DEF MissionInv, SingleReporter
<1>2. outbox'[t] = s /\ \A u \in Thread : u # t => outbox'[u] = outbox[u]
  BY <1>1 DEF MissionInv, Inv, EndInv, BoxTypes
<1>3. OwnBoxes'
  BY <1>1, <1>2 DEF MissionInv, OwnBoxes
<1>4. Leaves(outbox'[t], mission', n)
  BY <1>2
<1>5. NewsAgrees'
  BY <1>1, <1>4 DEF NewsAgrees
<1>6. QED
  BY <1>3, <1>5

\* The ends of commands are no news of the mission.
LEMMA EndingsAreNoNews ==
  ASSUME NEW C \in SUBSET Id, NEW state \in Lifetime
  PROVE  LET s == EndsOf(C, state)
         IN  s \in Seq(Message) /\ \A i \in DOMAIN s : ~News(s[i])
<1> DEFINE s == EndsOf(C, state)
<1>1. s \in Seq(Progress) /\ \A i \in DOMAIN s : s[i].id \in C
  BY Endings
<1> HIDE DEF s
<1>2. s \in Seq(Message)
  BY <1>1 DEF Message
<1>3. \A i \in DOMAIN s : ~News(s[i])
  BY <1>1, IdIsPositive DEF News
<1>4. QED
  BY <1>2, <1>3 DEF s

\* What a reporter's reader knows while nothing is on its way
LEMMA AtRest ==
  ASSUME MissionInv, NEW r \in Reporter, outbox[<<"report", r>>] = <<>>
  PROVE  /\ mission \in Knowledge
         /\ mission # "unknown" => (mission = "on" <=> cycleActive)
         /\ status = NoStatus => mission = "unknown"
<1>1. PICK n \in Knowledge : /\ Leaves(<<>>, mission, n)
                             /\ n # "unknown" => (n = "on" <=> cycleActive)
                             /\ status = NoStatus => n = "unknown"
  BY DEF MissionInv, NewsAgrees
<1>2. n = mission
  BY <1>1, LeavesNothing
<1>3. QED
  BY <1>1, <1>2

\* UpdateStatus after the baseline: the last of the news that a change of status
\* gives agrees with the cycle.
LEMMA TransitionsTell ==
  ASSUME MissionInv, NEW r \in Reporter, outbox[<<"report", r>>] = <<>>,
         NEW s, NEW e \in Seq(Message), \A i \in DOMAIN e : ~News(e[i]),
         Transitions(r, s, e)
  PROVE  \E q : \E n \in Knowledge :
           /\ outbox' = [outbox EXCEPT ![<<"report", r>>] = q]
           /\ Leaves(q, mission, n)
           /\ n # "unknown" => (n = "on" <=> cycleActive')
<1> DEFINE begins    == /\ ~isLoxoneCleaningState(status)
                        /\ isLoxoneCleaningState(s)
           resumed   == begins /\ status.state = "paused"
           started   == begins /\ status.state # "paused" /\ ~cycleActive
           paused    == status.state # "paused" /\ s.state = "paused"
           active    == cycleActive \/ begins \/ paused
           completed == /\ active
                        /\ s.error = 0
                        /\ s.state \in {"returning", "idle", "charging", "docked"}
           returned  == /\ status.state = "returning"
                        /\ s.state \in {"charging", "docked"}
           failed    == \/ s.error # 0 /\ status.error # s.error
                        \/ status.state # "error" /\ s.state = "error"
           q1 == If(resumed, "resumed")
           q2 == q1 \o If(started, "cleaning_started")
           q3 == q2 \o If(paused, "paused")
           q4 == q3 \o If(completed, "cleaning_completed")
           q5 == q4 \o If(returned, "returned_to_dock")
           q6 == q5 \o If(failed, "error")
           q7 == q6 \o e
           n1 == IF resumed THEN "on" ELSE mission
           n2 == IF started THEN "on" ELSE n1
           n3 == IF paused THEN "on" ELSE n2
           n4 == IF completed THEN "over" ELSE n3
           n6 == IF failed THEN "over" ELSE n4
<1>1. /\ cycleActive' = StillActive(active, completed, failed)
      /\ outbox' = [outbox EXCEPT ![<<"report", r>>] = q7]
  BY DEF Transitions
<1>2. cycleActive \in BOOLEAN /\ cycleActive' \in BOOLEAN
  BY <1>1 DEF MissionInv, Inv, CommandInv, DeviceTypes, StillActive
<1>3. /\ mission \in Knowledge
      /\ mission # "unknown" => (mission = "on" <=> cycleActive)
  BY AtRest
<1>4. n6 \in Knowledge /\ (n6 # "unknown" => (n6 = "on" <=> cycleActive'))
  BY <1>1, <1>2, <1>3 DEF StillActive, Knowledge
<1>5. ASSUME NEW condition \in BOOLEAN, NEW name \in EventName, NEW m
      PROVE  /\ If(condition, name) \in Seq(Message)
             /\ Leaves(If(condition, name), m, IF condition THEN Learned(m, Event(name)) ELSE m)
  BY Announced, LeavesAnnounced DEF Message
<1>6. \A m : /\ Learned(m, Event("resumed")) = "on"
             /\ Learned(m, Event("cleaning_started")) = "on"
             /\ Learned(m, Event("paused")) = "on"
             /\ Learned(m, Event("cleaning_completed")) = "over"
             /\ Learned(m, Event("returned_to_dock")) = m
             /\ Learned(m, Event("error")) = "over"
  BY DEF Learned, News, Tells, Event
<1>7. /\ resumed \in BOOLEAN /\ started \in BOOLEAN /\ paused \in BOOLEAN
      /\ completed \in BOOLEAN /\ returned \in BOOLEAN /\ failed \in BOOLEAN
  OBVIOUS
<1>8. /\ Leaves(If(resumed, "resumed"), mission, n1)
      /\ Leaves(If(started, "cleaning_started"), n1, n2)
      /\ Leaves(If(paused, "paused"), n2, n3)
      /\ Leaves(If(completed, "cleaning_completed"), n3, n4)
      /\ Leaves(If(returned, "returned_to_dock"), n4, n4)
      /\ Leaves(If(failed, "error"), n4, n6)
      /\ If(resumed, "resumed") \in Seq(Message)
      /\ If(started, "cleaning_started") \in Seq(Message)
      /\ If(paused, "paused") \in Seq(Message)
      /\ If(completed, "cleaning_completed") \in Seq(Message)
      /\ If(returned, "returned_to_dock") \in Seq(Message)
      /\ If(failed, "error") \in Seq(Message)
  <2> HIDE DEF resumed, started, paused, completed, returned, failed
  <2>1. "resumed" \in EventName /\ "cleaning_started" \in EventName /\ "paused" \in EventName
        /\ "cleaning_completed" \in EventName /\ "returned_to_dock" \in EventName
        /\ "error" \in EventName
    BY DEF EventName
  <2>2. QED
    BY <1>5, <1>6, <1>7, <2>1
<1>9. Leaves(e, n6, n6)
  BY LeavesQuiet
<1> HIDE DEF n1, n2, n3, n4, n6, resumed, started, paused, completed, returned, failed
<1>10. q1 \in Seq(Message) /\ Leaves(q1, mission, n1)
  BY <1>8
<1> HIDE DEF q1
<1>11. q2 \in Seq(Message) /\ Leaves(q2, mission, n2)
  BY <1>8, <1>10, Joined, LeavesJoined
<1> HIDE DEF q2
<1>12. q3 \in Seq(Message) /\ Leaves(q3, mission, n3)
  BY <1>8, <1>11, Joined, LeavesJoined
<1> HIDE DEF q3
<1>13. q4 \in Seq(Message) /\ Leaves(q4, mission, n4)
  BY <1>8, <1>12, Joined, LeavesJoined
<1> HIDE DEF q4
<1>14. q5 \in Seq(Message) /\ Leaves(q5, mission, n4)
  BY <1>8, <1>13, Joined, LeavesJoined
<1> HIDE DEF q5
<1>15. q6 \in Seq(Message) /\ Leaves(q6, mission, n6)
  BY <1>8, <1>14, Joined, LeavesJoined
<1> HIDE DEF q6
<1>16. Leaves(q7, mission, n6)
  BY <1>9, <1>15, LeavesJoined
<1>17. QED
  BY <1>1, <1>4, <1>16

LEMMA ReportKeepsMission ==
  ASSUME MissionInv, NEW r \in Reporter, Report(r)
  PROVE  OwnBoxes' /\ NewsAgrees'
<1> DEFINE t == <<"report", r>>
<1>1. /\ sample \in [Reporter -> Status \cup {NoStatus}] /\ pending \subseteq Id
      /\ cycleActive \in BOOLEAN
  BY DEF MissionInv, Inv, CommandInv, DeviceTypes
<1>2. CASE Read(r)
  <2>1. /\ outbox[t] = <<>> /\ UNCHANGED <<outbox, status, cycleActive, mission>>
        /\ Reporter = {r}
    BY <1>2 DEF Read, free, device, published, MissionInv, SingleReporter
  <2>2. QED
    BY <2>1 DEF MissionInv, OwnBoxes, NewsAgrees
<1>3. CASE UpdateStatus(r)
  <2> DEFINE s == sample[r]
             C == {id \in pending : Confirms(s, command[id])}
             e == EndsOf(C, "completed")
  <2>1. /\ outbox[t] = <<>> /\ s # NoStatus /\ status' = s
        /\ sample'[r] = NoStatus /\ UNCHANGED mission
    BY <1>1, <1>3 DEF UpdateStatus, published, MissionInv, Inv, BoxesFree
  <2>2. e \in Seq(Message) /\ \A i \in DOMAIN e : ~News(e[i])
    <3>1. C \in SUBSET Id /\ "completed" \in Lifetime
      BY <1>1 DEF Lifetime
    <3> HIDE DEF C
    <3>2. QED
      BY <3>1, EndingsAreNoNews
  <2>3. CASE status = NoStatus
    <3>1. outbox' = [outbox EXCEPT ![t] = e]
      BY <1>3, <2>3 DEF UpdateStatus, EndsOf
    <3>2. mission = "unknown" /\ mission \in Knowledge
      BY <2>1, <2>3, AtRest DEF Knowledge
    <3> HIDE DEF e
    <3>3. Leaves(e, mission, mission)
      BY <2>2, LeavesQuiet
    <3>4. QED
      BY <2>1, <3>1, <3>2, <3>3, ReporterKeepsMission
  <2>4. CASE status # NoStatus
    <3>1. Transitions(r, s, e)
      BY <1>3, <2>4 DEF UpdateStatus, EndsOf
    <3> HIDE DEF e, s
    <3>2. PICK q : \E n \in Knowledge :
            /\ outbox' = [outbox EXCEPT ![t] = q]
            /\ Leaves(q, mission, n)
            /\ n # "unknown" => (n = "on" <=> cycleActive')
      BY <2>1, <2>2, <3>1, TransitionsTell
    <3>3. QED
      BY <2>1, <3>2, ReporterKeepsMission
  <2>5. QED
    BY <2>3, <2>4
<1>4. CASE UpdateAvailability(r)
  <2> DEFINE e == EndsOf(pending, "failed")
  <2>1. /\ outbox[t] = <<>> /\ sample'[r] = NoStatus /\ UNCHANGED <<mission, status, cycleActive>>
        /\ outbox' = [outbox EXCEPT ![t] = e]
    BY <1>4 DEF UpdateAvailability, free, published, EndsOf
  <2>2. e \in Seq(Message) /\ \A i \in DOMAIN e : ~News(e[i])
    BY <1>1, EndingsAreNoNews DEF Lifetime
  <2> HIDE DEF e
  <2>3. Leaves(e, mission, mission)
    BY <2>2, LeavesQuiet
  <2>4. QED
    BY <2>1, <2>3, AtRest, ReporterKeepsMission
<1>5. CASE UpdateRoom(r)
  <2>1. PICK b \in BOOLEAN : outbox' = [outbox EXCEPT ![t] = If(b, "room_entered")]
    BY <1>5 DEF UpdateRoom
  <2>2. outbox[t] = <<>> /\ sample'[r] = NoStatus /\ UNCHANGED <<mission, status, cycleActive>>
    BY <1>5 DEF UpdateRoom, free, published
  <2>3. \A i \in DOMAIN If(b, "room_entered") : ~News(If(b, "room_entered")[i])
    BY DEF If, News, Event
  <2>4. Leaves(If(b, "room_entered"), mission, mission)
    BY <2>3, LeavesQuiet
  <2>5. QED
    BY <2>1, <2>2, <2>4, AtRest, ReporterKeepsMission
<1>6. QED
  BY <1>2, <1>3, <1>4, <1>5 DEF Report

LEMMA PublishKeepsMission ==
  ASSUME MissionInv, NEW t \in Thread, Publish(t)
  PROVE  OwnBoxes' /\ NewsAgrees'
<1> DEFINE q == outbox[t]
           a == Head(q)
<1>1. q \in Seq(Message) /\ q # <<>>
  BY DEF Publish, MissionInv, Inv, EndInv, BoxTypes
<1>2. /\ a = q[1] /\ 1 \in DOMAIN q
      /\ \A i \in DOMAIN Tail(q) : i + 1 \in DOMAIN q /\ Tail(q)[i] = q[i + 1]
  BY <1>1
<1>3. /\ outbox' = [outbox EXCEPT ![t] = Tail(q)]
      /\ UNCHANGED <<status, cycleActive, sample>>
      /\ a.id # 0 => mission' = mission
      /\ a.id = 0 => mission' = Learned(mission, a)
  <2>1. a.id = 0 =>
          mission' = CASE a.state \in {"cleaning_started", "resumed", "paused"} -> "on"
                       [] a.state \in {"cleaning_completed", "error"} -> "over"
                       [] OTHER -> mission
    BY DEF Publish
  <2>2. QED
    BY <2>1 DEF Publish, device, Learned, News, Tells
<1>4. mission' = Learned(mission, a)
  BY <1>3 DEF Learned, News
<1>5. CASE t[1] # "report"
  <2>1. \A i \in DOMAIN q : q[i].id # 0
    BY <1>5 DEF MissionInv, OwnBoxes
  <2>2. a.id # 0 /\ \A i \in DOMAIN Tail(q) : Tail(q)[i].id # 0
    BY <1>2, <2>1
  <2>3. QED
    BY <1>3, <1>5, <2>2, CommandKeepsMission
<1>6. CASE t[1] = "report"
  <2>1. PICK r \in Reporter : t = <<"report", r>>
    BY <1>6 DEF Thread
  <2>2. sample'[r] = NoStatus
    BY <1>1, <1>3, <2>1 DEF MissionInv, Inv, BoxesFree
  <2>3. Reporter = {r}
    BY DEF MissionInv, SingleReporter
  <2>4. outbox'[t] = Tail(q) /\ \A u \in Thread : u # t => outbox'[u] = outbox[u]
    BY <1>3 DEF MissionInv, Inv, EndInv, BoxTypes
  <2>5. PICK n \in Knowledge : /\ Leaves(q, mission, n)
                               /\ n # "unknown" => (n = "on" <=> cycleActive)
                               /\ status = NoStatus => n = "unknown"
    BY <2>1 DEF MissionInv, NewsAgrees
  <2>6. Leaves(outbox'[t], mission', n)
    BY <1>1, <1>4, <2>4, <2>5, LeavesPublished
  <2>7. NewsAgrees'
    BY <1>3, <2>1, <2>3, <2>5, <2>6 DEF NewsAgrees
  <2>8. OwnBoxes'
    BY <1>3, <1>6, <2>1, <2>2, <2>3, <2>4 DEF MissionInv, OwnBoxes
  <2>9. QED
    BY <2>7, <2>8
<1>7. QED
  BY <1>5, <1>6

LEMMA MissionStep ==
  ASSUME MissionInv, [Next]_vars
  PROVE  MissionInv'
<1>1. Inv'
  BY CommandStep, EndStep, FreeStep DEF MissionInv, Inv
<1>2. ASSUME (\E c \in Command : Elapse(c)) \/ UNCHANGED vars
      PROVE  OwnBoxes' /\ NewsAgrees'
  <2>1. UNCHANGED <<outbox, sample, status, cycleActive, mission>>
    BY <1>2 DEF Elapse, vars, device, published
  <2>2. OwnBoxes'
    BY <2>1 DEF MissionInv, OwnBoxes
  <2>3. NewsAgrees'
    BY <2>1 DEF MissionInv, NewsAgrees
  <2>4. QED
    BY <2>2, <2>3
<1>3. OwnBoxes' /\ NewsAgrees'
  <2>1. CASE \E id \in Id : Lifecycle(id)
    BY <2>1, LifecycleKeepsMission
  <2>2. CASE \E r \in Reporter : Report(r)
    BY <2>2, ReportKeepsMission
  <2>3. CASE \E t \in Thread : Publish(t)
    BY <2>3, PublishKeepsMission
  <2>4. CASE (\E c \in Command : Elapse(c)) \/ UNCHANGED vars
    BY <1>2, <2>4
  <2>5. Next \/ UNCHANGED vars
    OBVIOUS
  <2>6. QED
    BY <2>1, <2>2, <2>3, <2>4, <2>5 DEF Next
<1>4. QED
  BY <1>1, <1>3 DEF MissionInv

\* With one goroutine reporting, whoever follows the published events knows,
\* when none is on its way, whether the tracker has a mission open.
THEOREM MissionTold == SingleReporter /\ Spec => []EventsFollowMission
<1>1. ASSUME MissionInv PROVE EventsFollowMission
  <2>1. PICK r : Reporter = {r}
    BY <1>1 DEF MissionInv, SingleReporter
  <2>2. QED
    BY <1>1, <2>1, AtRest DEF EventsFollowMission
<1>2. SingleReporter /\ Init => MissionInv
  BY CommandInit, EndInit, FreeInit, MissionInit DEF MissionInv, Inv
<1>3. MissionInv /\ [Next]_vars => MissionInv'
  BY MissionStep
<1>4. QED
  BY <1>1, <1>2, <1>3, PTL DEF Spec

=============================================================================
