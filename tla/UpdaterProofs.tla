---------------------------- MODULE UpdaterProofs ----------------------------
(***************************************************************************)
(* What TLAPS proves of Updater, for any containers and requests and       *)
(* without any bound on operations, crashes and Docker faults.             *)
(***************************************************************************)
EXTENDS Updater, SequenceTheorems, FiniteSetTheorems, TLAPS

(* Where replacement.PreviousInstance is set.                              *)
Replacing == {"stopping", "renaming", "undo_stop", "creating", "starting",
              "discarding", "activated", "validating", "finalizing",
              "rollback", "finding", "stopping_new", "removing_new",
              "restoring", "restarting_previous"}

NamesFollowStatus ==
  \A c \in Container : Exists(c) <=> name[c] \in {"service", "aside"}

UniqueService == \A c, d \in NamedService : c = d

(* A bridge that runs under its rollback name is the one the journal and   *)
(* the updater know as the previous instance, and nothing else is left.    *)
AsideIsPrevious ==
  \A q \in Running \ NamedService :
    /\ NamedService = {}
    /\ previous \in {q, NoContainer}
    /\ journal \in {q, NoContainer}

PreviousKnown ==
  /\ pc \in Replacing => previous \in Container /\ journal = previous
  /\ pc \in {"stopping", "renaming", "restarting_previous"} =>
       previous \in NamedService
  /\ pc = "undo_stop" /\ previous \notin NamedService => NamedService = {}
  /\ pc \in {"starting", "discarding", "stopping_new", "removing_new"} =>
       NamedService # {}

NothingRuns ==
  pc \in {"renaming", "undo_stop", "creating", "starting",
          "restarting_previous"} => Running = {}

ContainerInv ==
  /\ TypeOK
  /\ NamesFollowStatus
  /\ UniqueService
  /\ OneBridgeRunning
  /\ AsideIsPrevious
  /\ PreviousKnown
  /\ NothingRuns

-----------------------------------------------------------------------------
(* The service name resolves to the one container that carries it.         *)
LEMMA HolderIsService ==
  /\ NamedService # {} => Holder \in NamedService
  /\ NamedService = {} => Holder = NoContainer
  /\ Holder = NoContainer => NamedService = {}
<1>1. NamedService # {} => Holder \in NamedService
  BY DEF Holder
<1>2. NamedService = {} => Holder = NoContainer
  BY DEF Holder
<1>3. NamedService \subseteq Container
  BY DEF NamedService
<1>4. QED
  BY <1>1, <1>2, <1>3, ContainerAssumption

LEMMA InitContainerInv == Init => ContainerInv
<1> SUFFICES ASSUME Init PROVE ContainerInv
  OBVIOUS
<1> USE ContainerAssumption
<1>1. TypeOK
  <2>1. /\ status \in [Container -> {"absent", "stopped", "running"}]
        /\ name \in [Container -> {"unused", "service", "aside", "removed"}]
    BY DEF Init
  <2>2. used \in Seq(Request) /\ admitted \in Seq(Request)
    BY DEF Init
  <2>3. found \in [serving : Container \cup {NoContainer},
                  present : SUBSET Container,
                  ended : {"none", "installed", "unrestored"}]
    BY DEF Init
  <2>4. op \in [stage : Stage, rollbackError : BOOLEAN]
    BY DEF Init, Stage
  <2>5. pc \in Position
    BY DEF Init, Position
  <2>6. QED
    BY <2>1, <2>2, <2>3, <2>4, <2>5 DEF Init, TypeOK
<1>2. NamedService = {Original} /\ Running = {Original}
  BY DEF Init, NamedService, Running, Exists
<1>3. NamesFollowStatus
  BY DEF Init, NamesFollowStatus, Exists
<1>4. UniqueService /\ OneBridgeRunning
  BY <1>2 DEF UniqueService, OneBridgeRunning
<1>5. AsideIsPrevious /\ PreviousKnown /\ NothingRuns
  BY <1>2 DEF Init, AsideIsPrevious, PreviousKnown, NothingRuns, Replacing
<1>6. QED
  BY <1>1, <1>3, <1>4, <1>5 DEF ContainerInv

(* What Start keeps of the request ids is a sequence of request ids.       *)
LEMMA RememberedTyped ==
  ASSUME NEW ids \in Seq(Request), NEW r \in Request
  PROVE  (IF Len(Append(ids, r)) > Remembered
          THEN Tail(Append(ids, r)) ELSE Append(ids, r)) \in Seq(Request)
<1>1. Append(ids, r) \in Seq(Request) /\ Append(ids, r) # <<>>
  BY AppendProperties, Zenon
<1>2. Tail(Append(ids, r)) \in Seq(Request)
  BY <1>1, HeadTailProperties, Zenon
<1>3. CASE Len(Append(ids, r)) > Remembered
  BY <1>2, <1>3, Zenon
<1>4. CASE ~(Len(Append(ids, r)) > Remembered)
  BY <1>1, <1>4, Zenon
<1>5. QED
  BY <1>3, <1>4, Zenon

(* A call leaves well typed containers, whatever its answer.               *)
LEMMA CallTyped ==
  ASSUME TypeOK, NEW possible \in BOOLEAN,
         NEW newStatus \in [Container -> {"absent", "stopped", "running"}],
         NEW newName \in [Container -> {"unused", "service", "aside", "removed"}],
         NEW onSuccess \in Position, NEW onError \in Position,
         simple(possible, newStatus, newName, onSuccess, onError)
  PROVE  /\ status' \in [Container -> {"absent", "stopped", "running"}]
         /\ name' \in [Container -> {"unused", "service", "aside", "removed"}]
         /\ pc' \in Position
         /\ faults' \in Nat
<1>1. faults \in Nat /\ faults + 1 \in Nat
  BY DEF TypeOK
<1>2. QED
  BY <1>1 DEF simple, docker, TypeOK

LEMMA DiscardTyped ==
  ASSUME TypeOK, ActivateDiscard
  PROVE  TypeOK'
<1>1. Exists(Holder) \in BOOLEAN /\ "rollback" \in Position
  BY DEF Exists, Position
<1>2. [status EXCEPT ![Holder] = "absent"]
        \in [Container -> {"absent", "stopped", "running"}]
  BY DEF TypeOK
<1>3. [name EXCEPT ![Holder] = "removed"]
        \in [Container -> {"unused", "service", "aside", "removed"}]
  BY DEF TypeOK
<1>4. /\ status' \in [Container -> {"absent", "stopped", "running"}]
      /\ name' \in [Container -> {"unused", "service", "aside", "removed"}]
      /\ pc' \in Position
      /\ faults' \in Nat
  BY <1>1, <1>2, <1>3, CallTyped DEF ActivateDiscard, Remove
<1>5. QED
  BY <1>4 DEF ActivateDiscard, TypeOK, disk, memory, history

(* Every step keeps the types.                                             *)
LEMMA NextTypeOK == ContainerInv /\ [Next]_vars => TypeOK'
<1> SUFFICES ASSUME ContainerInv, [Next]_vars PROVE TypeOK'
  OBVIOUS
<1> USE ContainerAssumption
    DEF ContainerInv, TypeOK, Position, docker, disk, memory, history,
        simple, Stop, StartContainer, Remove, Rename, persist
<1>h. NamedService \subseteq Container
  BY DEF NamedService
<1>1. CASE \E r \in Request : Start(r)
  <2>1. PICK r \in Request : Start(r)
    BY <1>1
  <2>2. Append(used, r) \in Seq(Request) /\ Append(admitted, r) \in Seq(Request)
    OBVIOUS
  <2>3. used' \in Seq(Request)
    BY <2>1, RememberedTyped DEF Start
  <2>4. QED
    BY <2>1, <2>2, <2>3 DEF Start
<1>2. CASE run
  <2>1. CASE Prepared
    <3>1. Serving \in Container \cup {NoContainer}
      BY <1>h, HolderIsService DEF Serving
    <3>2. Present \subseteq Container
      BY DEF Present
    <3>3. Outcome \in {"none", "installed", "unrestored"}
      BY DEF Outcome
    <3>4. QED
      BY <2>1, <3>1, <3>2, <3>3 DEF Prepared, Stage
  <2>2. CASE CheckPreconditions
    BY <2>2 DEF CheckPreconditions, Stage
  <2>3. CASE FetchAndBackup
    BY <2>3 DEF FetchAndBackup, Stage
  <2>4. CASE Prepare
    BY <2>4, <1>h, HolderIsService DEF Prepare
  <2>5. CASE Activate
    <3>1. CASE ActivateStop
      BY <3>1 DEF ActivateStop
    <3>2. CASE ActivateRename
      BY <3>2 DEF ActivateRename
    <3>3. CASE ActivateUndoStop
      BY <3>3 DEF ActivateUndoStop
    <3>4. CASE ActivateCreate
      <4>1. PICK c \in Container :
              simple(NamedService = {}, [status EXCEPT ![c] = "stopped"],
                     [name EXCEPT ![c] = "service"], "starting", "rollback")
        BY <3>4 DEF ActivateCreate
      <4>2. QED
        BY <3>4, <4>1 DEF ActivateCreate
    <3>5. CASE ActivateStart
      BY <3>5 DEF ActivateStart
    <3>6. CASE ActivateDiscard
      BY <3>6, DiscardTyped
    <3>7. QED
      BY <2>5, <3>1, <3>2, <3>3, <3>4, <3>5, <3>6 DEF Activate
  <2>6. CASE SetValidating
    BY <2>6 DEF SetValidating, Stage
  <2>7. CASE Validate
    BY <2>7, <1>h DEF Validate, Running
  <2>8. CASE Finalize
    BY <2>8 DEF Finalize
  <2>9. QED
    BY <1>2, <2>1, <2>2, <2>3, <2>4, <2>5, <2>6, <2>7, <2>8 DEF run
<1>3. CASE Rollback
  <2> USE DEF rolledBack, notRolledBack
  <2>1. CASE BeginRollback
    BY <2>1 DEF BeginRollback, Stage
  <2>2. CASE RollbackFind
    BY <2>2 DEF RollbackFind
  <2>3. CASE RollbackStopNew
    BY <2>3 DEF RollbackStopNew
  <2>4. CASE RollbackRemoveNew
    BY <2>4 DEF RollbackRemoveNew
  <2>5. CASE RollbackRename
    BY <2>5 DEF RollbackRename
  <2>6. CASE RollbackInPlace
    BY <2>6 DEF RollbackInPlace
  <2>7. CASE RollbackPreviousGone
    BY <2>7 DEF RollbackPreviousGone
  <2>8. CASE RollbackStart
    BY <2>8 DEF RollbackStart
  <2>9. QED
    BY <1>3, <2>1, <2>2, <2>3, <2>4, <2>5, <2>6, <2>7, <2>8 DEF Rollback
<1>4. CASE Finish
  <2>1. CASE FinishSuccess
    BY <2>1 DEF FinishSuccess, finish, Stage
  <2>2. CASE FinishFailed
    BY <2>2 DEF FinishFailed, finish, Stage
  <2>3. CASE FinishUnrestored
    BY <2>3 DEF FinishUnrestored, finish, Stage
  <2>4. CASE ForgetTransaction
    BY <2>4 DEF ForgetTransaction
  <2>5. QED
    BY <1>4, <2>1, <2>2, <2>3, <2>4 DEF Finish
<1>5. CASE Recovery
  <2>1. CASE NewService
    BY <2>1 DEF NewService
  <2>2. CASE RecoverInterrupted
    BY <2>2 DEF RecoverInterrupted, Stage
  <2>3. CASE RecoverForget
    BY <2>3 DEF RecoverForget
  <2>4. ASSUME NEW from \in {"recovery_recorded", "unrecovered"},
               NEW e \in BOOLEAN, RecoverFinish(from, e)
        PROVE  TypeOK'
    BY <2>4 DEF RecoverFinish, Stage
  <2>5. QED
    BY <1>5, <2>1, <2>2, <2>3, <2>4 DEF Recovery
<1>6. CASE Crash
  <2>1. crashes' \in Nat /\ faults' \in Nat
    BY <1>6 DEF Crash
  <2>2. pc' \in Position /\ previous' = NoContainer /\ booting' \in BOOLEAN
    BY <1>6 DEF Crash
  <2>3. QED
    BY <1>6, <2>1, <2>2 DEF Crash
<1>7. CASE UNCHANGED vars
  BY <1>7 DEF vars
<1> HIDE DEF ContainerInv, TypeOK, Position, docker, disk, memory, history,
             simple, Stop, StartContainer, Remove, Rename, persist
<1>8. QED
  BY <1>1, <1>2, <1>3, <1>4, <1>5, <1>6, <1>7 DEF Next, System

(***************************************************************************)
(* What a Docker call does to the containers that run and to those that    *)
(* carry the service name.                                                 *)
(***************************************************************************)
LEMMA CallEffects ==
  ASSUME TypeOK, NamesFollowStatus, NEW c \in Container
  PROVE  /\ (status' = [status EXCEPT ![c] = "stopped"] /\ name' = name
              /\ status[c] = "running")
             => /\ NamesFollowStatus'
                /\ NamedService' = NamedService
                /\ Running' = Running \ {c}
         /\ (status' = [status EXCEPT ![c] = "running"] /\ name' = name
              /\ status[c] = "stopped")
             => /\ NamesFollowStatus'
                /\ NamedService' = NamedService
                /\ Running' = Running \cup {c}
         /\ (status' = [status EXCEPT ![c] = "absent"]
              /\ name' = [name EXCEPT ![c] = "removed"])
             => /\ NamesFollowStatus'
                /\ NamedService' = NamedService \ {c}
                /\ Running' = Running \ {c}
         /\ (status' = status /\ name' = [name EXCEPT ![c] = "aside"]
              /\ Exists(c))
             => /\ NamesFollowStatus'
                /\ NamedService' = NamedService \ {c}
                /\ Running' = Running
         /\ (status' = status /\ name' = [name EXCEPT ![c] = "service"]
              /\ Exists(c))
             => /\ NamesFollowStatus'
                /\ NamedService' = NamedService \cup {c}
                /\ Running' = Running
         /\ (status' = [status EXCEPT ![c] = "stopped"]
              /\ name' = [name EXCEPT ![c] = "service"]
              /\ name[c] = "unused")
             => /\ NamesFollowStatus'
                /\ NamedService' = NamedService \cup {c}
                /\ Running' = Running
         /\ (status' = status /\ name' = name)
             => /\ NamesFollowStatus'
                /\ NamedService' = NamedService
                /\ Running' = Running
<1>1. (status' = [status EXCEPT ![c] = "stopped"] /\ name' = name
       /\ status[c] = "running")
      => /\ NamesFollowStatus'
         /\ NamedService' = NamedService
         /\ Running' = Running \ {c}
  BY DEF TypeOK, NamesFollowStatus, NamedService, Running, Exists
<1>2. (status' = [status EXCEPT ![c] = "running"] /\ name' = name
       /\ status[c] = "stopped")
      => /\ NamesFollowStatus'
         /\ NamedService' = NamedService
         /\ Running' = Running \cup {c}
  BY DEF TypeOK, NamesFollowStatus, NamedService, Running, Exists
<1>3. (status' = [status EXCEPT ![c] = "absent"]
       /\ name' = [name EXCEPT ![c] = "removed"])
      => /\ NamesFollowStatus'
         /\ NamedService' = NamedService \ {c}
         /\ Running' = Running \ {c}
  BY DEF TypeOK, NamesFollowStatus, NamedService, Running, Exists
<1>4. (status' = status /\ name' = [name EXCEPT ![c] = "aside"]
       /\ Exists(c))
      => /\ NamesFollowStatus'
         /\ NamedService' = NamedService \ {c}
         /\ Running' = Running
  BY DEF TypeOK, NamesFollowStatus, NamedService, Running, Exists
<1>5. (status' = status /\ name' = [name EXCEPT ![c] = "service"]
       /\ Exists(c))
      => /\ NamesFollowStatus'
         /\ NamedService' = NamedService \cup {c}
         /\ Running' = Running
  BY DEF TypeOK, NamesFollowStatus, NamedService, Running, Exists
<1>6. (status' = [status EXCEPT ![c] = "stopped"]
       /\ name' = [name EXCEPT ![c] = "service"]
       /\ name[c] = "unused")
      => /\ NamesFollowStatus'
         /\ NamedService' = NamedService \cup {c}
         /\ Running' = Running
  BY DEF TypeOK, NamesFollowStatus, NamedService, Running, Exists
<1>7. (status' = status /\ name' = name)
      => /\ NamesFollowStatus'
         /\ NamedService' = NamedService
         /\ Running' = Running
  BY DEF TypeOK, NamesFollowStatus, NamedService, Running, Exists
<1>8. QED
  BY <1>1, <1>2, <1>3, <1>4, <1>5, <1>6, <1>7

(* What the steps keep besides the types.                                  *)
Placement == /\ NamesFollowStatus /\ UniqueService /\ OneBridgeRunning
             /\ AsideIsPrevious /\ PreviousKnown /\ NothingRuns

LEMMA NextPlacement == ContainerInv /\ [Next]_vars => Placement'
<1> SUFFICES ASSUME ContainerInv, [Next]_vars PROVE Placement'
  OBVIOUS
<1>t. TypeOK /\ TypeOK'
  BY NextTypeOK DEF ContainerInv
<1> USE <1>t, ContainerAssumption
    DEF ContainerInv, Placement, NamesFollowStatus, UniqueService,
        OneBridgeRunning, AsideIsPrevious, PreviousKnown, NothingRuns,
        Replacing, docker, disk, memory, history
<1>n. /\ NamedService \subseteq Container
      /\ Running \subseteq Container
      /\ \A c \in Container : c \in Running <=> status[c] = "running"
      /\ \A c \in NamedService : name[c] = "service"
      /\ \A c \in Container : Exists(c) /\ name[c] = "service"
                                => c \in NamedService
  BY DEF NamedService, Running
<1>1. ASSUME NEW r \in Request, Start(r) PROVE Placement'
  BY CallEffects, <1>n, <1>1 DEF Start
<1>2. CASE Prepared
  BY CallEffects, <1>n, <1>2 DEF Prepared
<1>3. CASE CheckPreconditions
  BY CallEffects, <1>n, <1>3 DEF CheckPreconditions, persist
<1>4. CASE FetchAndBackup
  BY CallEffects, <1>n, <1>4 DEF FetchAndBackup, persist
<1>5. CASE Prepare
  BY CallEffects, <1>n, <1>5, HolderIsService DEF Prepare
<1>6. CASE ActivateStop
  BY CallEffects, <1>n, <1>6 DEF ActivateStop, simple, Stop
<1>7. CASE ActivateRename
  BY CallEffects, <1>n, <1>7 DEF ActivateRename, simple, Rename
<1>8. CASE ActivateUndoStop
  BY CallEffects, <1>n, <1>8 DEF ActivateUndoStop, simple, StartContainer
<1>9. CASE ActivateCreate
  BY CallEffects, <1>n, <1>9 DEF ActivateCreate, simple
<1>10. CASE ActivateStart
  BY CallEffects, <1>n, <1>10, HolderIsService
     DEF ActivateStart, simple, StartContainer
<1>11. CASE ActivateDiscard
  BY CallEffects, <1>n, <1>11, HolderIsService
     DEF ActivateDiscard, simple, Remove
<1>12. CASE SetValidating
  BY CallEffects, <1>n, <1>12 DEF SetValidating, persist
<1>13. CASE Validate
  BY CallEffects, <1>n, <1>13 DEF Validate
<1>14. CASE Finalize
  BY CallEffects, <1>n, <1>14 DEF Finalize, simple, Remove
<1>15. CASE BeginRollback
  BY CallEffects, <1>n, <1>15 DEF BeginRollback, persist
<1>16. CASE RollbackFind
  BY CallEffects, <1>n, <1>16, HolderIsService
     DEF RollbackFind, rolledBack, notRolledBack
<1>17. CASE RollbackStopNew
  BY CallEffects, <1>n, <1>17, HolderIsService
     DEF RollbackStopNew, simple, Stop, rolledBack, notRolledBack
<1>18. CASE RollbackRemoveNew
  BY CallEffects, <1>n, <1>18, HolderIsService
     DEF RollbackRemoveNew, simple, Remove, rolledBack, notRolledBack
<1>19. CASE RollbackRename
  BY CallEffects, <1>n, <1>19
     DEF RollbackRename, simple, Rename, rolledBack, notRolledBack
<1>20. CASE RollbackInPlace
  BY CallEffects, <1>n, <1>20 DEF RollbackInPlace, rolledBack, notRolledBack
<1>21. CASE RollbackPreviousGone
  BY CallEffects, <1>n, <1>21
     DEF RollbackPreviousGone, rolledBack, notRolledBack
<1>22. CASE RollbackStart
  BY CallEffects, <1>n, <1>22
     DEF RollbackStart, simple, StartContainer, rolledBack, notRolledBack
<1>23. CASE FinishSuccess
  BY CallEffects, <1>n, <1>23 DEF FinishSuccess, finish
<1>24. CASE FinishFailed
  BY CallEffects, <1>n, <1>24 DEF FinishFailed, finish
<1>25. CASE FinishUnrestored
  BY CallEffects, <1>n, <1>25 DEF FinishUnrestored, finish
<1>26. CASE ForgetTransaction
  BY CallEffects, <1>n, <1>26 DEF ForgetTransaction
<1>27. CASE NewService
  BY CallEffects, <1>n, <1>27 DEF NewService, persist
<1>28. CASE RecoverInterrupted
  <2>1. /\ NamedService' = NamedService /\ Running' = Running
        /\ NamesFollowStatus'
    BY CallEffects, <1>28 DEF RecoverInterrupted
  <2>2. CASE journal # NoContainer
    <3>1. pc' = "finding" /\ previous' = journal /\ journal' = journal
      BY <1>28, <2>2 DEF RecoverInterrupted
    <3>2. journal \in Container
      BY <2>2 DEF TypeOK
    <3>3. AsideIsPrevious'
      BY <2>1, <3>1
    <3>4. PreviousKnown' /\ NothingRuns'
      BY <3>1, <3>2
    <3>5. QED
      BY <2>1, <3>3, <3>4
  <2>3. CASE journal = NoContainer
    BY <1>n, <1>28, <2>1, <2>3 DEF RecoverInterrupted
  <2>4. QED
    BY <2>2, <2>3
<1>29. CASE RecoverForget
  BY CallEffects, <1>n, <1>29 DEF RecoverForget, persist
<1>30. ASSUME NEW from \in {"recovery_recorded", "unrecovered"},
             NEW e \in BOOLEAN, RecoverFinish(from, e)
      PROVE  Placement'
  BY CallEffects, <1>n, <1>30 DEF RecoverFinish
<1>31. CASE Crash
  BY CallEffects, <1>n, <1>31 DEF Crash
<1>32. CASE UNCHANGED vars
  BY CallEffects, <1>n, <1>32 DEF vars
<1> HIDE <1>t DEF ContainerInv, Placement, NamesFollowStatus, UniqueService,
         OneBridgeRunning, AsideIsPrevious, PreviousKnown, NothingRuns,
         Replacing, docker, disk, memory, history
<1>33. QED
  BY <1>1, <1>2, <1>3, <1>4, <1>5, <1>6, <1>7, <1>8, <1>9, <1>10, <1>11,
     <1>12, <1>13, <1>14, <1>15, <1>16, <1>17, <1>18, <1>19, <1>20, <1>21,
     <1>22, <1>23, <1>24, <1>25, <1>26, <1>27, <1>28, <1>29, <1>30, <1>31,
     <1>32
     DEF Next, System, run, Activate, Rollback, Finish, Recovery

(***************************************************************************)
(* At most one bridge container runs at any time, however many operations, *)
(* crashes and failing Docker calls there are.                             *)
(***************************************************************************)
LEMMA ContainersSafe == Spec => []ContainerInv
<1>1. ContainerInv /\ [Next]_vars => ContainerInv'
  BY NextTypeOK, NextPlacement DEF ContainerInv, Placement
<1>2. QED
  BY InitContainerInv, <1>1, PTL DEF Spec

(* The variables of the updater keep their types.                          *)
THEOREM TypeCorrect == Spec => []TypeOK
<1>1. ContainerInv => TypeOK
  BY DEF ContainerInv
<1>2. QED
  BY ContainersSafe, <1>1, PTL

(* Two bridges never share the data volume and the Roborock session.       *)
THEOREM AtMostOneBridge == Spec => []OneBridgeRunning
<1>1. ContainerInv => OneBridgeRunning
  BY DEF ContainerInv
<1>2. QED
  BY ContainersSafe, <1>1, PTL

-----------------------------------------------------------------------------
(***************************************************************************)
(* An outage is never reported as a plain failure.  The strengthening says *)
(* where the updater is entitled to end an operation without a             *)
(* rollback_error: before it touched a container, or after the previous    *)
(* instance answers to the service name and runs again; in between, the    *)
(* journal is on disk.                                                     *)
(***************************************************************************)
Up == NamedService \cap Running # {}

WasServing == found.serving # NoContainer

StageFollowsPosition ==
  /\ pc \in {"ready", "admitted", "forgetting"} => terminal(op.stage)
  /\ pc \notin {"ready", "admitted", "forgetting", "down"}
       => ~terminal(op.stage)

FailureIsClean ==
  (op.stage = "failed" /\ ~op.rollbackError /\ WasServing) => Up

UpUnlessJournalled ==
  (~terminal(op.stage) /\ WasServing /\ journal = NoContainer) => Up

UpWhenGivingUp ==
  /\ (pc \in {"checking", "pulling", "backing_up", "preparing", "fail"}
       /\ WasServing) => Up
  /\ pc \in {"recovered", "recovery_recorded"} => Up

OutageInv == /\ StageFollowsPosition /\ FailureIsClean
             /\ UpUnlessJournalled /\ UpWhenGivingUp

(* When names are unique, the container that serves is the one that is up. *)
LEMMA ServingIsUp == UniqueService => (Serving # NoContainer <=> Up)
<1> SUFFICES ASSUME UniqueService PROVE Serving # NoContainer <=> Up
  OBVIOUS
<1>1. Running \subseteq Container
  BY DEF Running
<1>2. CASE NamedService = {}
  BY <1>1, <1>2, HolderIsService, ContainerAssumption DEF Serving, Up
<1>3. CASE NamedService # {}
  <2>1. NamedService = {Holder}
    BY <1>3, HolderIsService DEF UniqueService
  <2>2. QED
    BY <1>1, <2>1, ContainerAssumption DEF Serving, Up
<1>4. QED
  BY <1>2, <1>3

LEMMA InitOutageInv == Init => OutageInv
<1> SUFFICES ASSUME Init PROVE OutageInv
  OBVIOUS
<1>1. Up
  BY ContainerAssumption DEF Init, Up, NamedService, Running, Exists
<1>2. QED
  BY <1>1 DEF Init, OutageInv, StageFollowsPosition, FailureIsClean,
              UpUnlessJournalled, UpWhenGivingUp, terminal

LEMMA NextOutageInv ==
  ContainerInv /\ OutageInv /\ [Next]_vars => OutageInv'
<1> SUFFICES ASSUME ContainerInv, OutageInv, [Next]_vars PROVE OutageInv'
  OBVIOUS
<1>t. TypeOK /\ NamesFollowStatus /\ UniqueService /\ PreviousKnown
  BY DEF ContainerInv
<1>s. Serving # NoContainer <=> Up
  BY <1>t, ServingIsUp
<1>n. /\ NamedService \subseteq Container
      /\ Running \subseteq Container
      /\ \A c \in Container : c \in Running <=> status[c] = "running"
      /\ \A c \in NamedService : name[c] = "service"
      /\ \A c \in Container : Exists(c) /\ name[c] = "service"
                                => c \in NamedService
  BY DEF NamedService, Running
<1>v. /\ op.stage \in Stage /\ op.rollbackError \in BOOLEAN
      /\ \A g \in Stage :
           /\ [op EXCEPT !.stage = g].stage = g
           /\ [op EXCEPT !.stage = g].rollbackError = op.rollbackError
  BY <1>t DEF TypeOK
<1> USE <1>t, <1>n, ContainerAssumption
    DEF OutageInv, StageFollowsPosition, FailureIsClean, UpUnlessJournalled,
        UpWhenGivingUp, WasServing, Up, terminal, PreviousKnown, Replacing,
        docker, disk, memory, history
<1>1. ASSUME NEW r \in Request, Start(r) PROVE OutageInv'
  BY CallEffects, <1>1 DEF Start
<1>2. CASE Prepared
  BY CallEffects, <1>2, <1>s
     DEF Prepared
<1>3. CASE CheckPreconditions
  BY CallEffects, <1>3, <1>v
     DEF CheckPreconditions, persist, Stage
<1>4. CASE FetchAndBackup
  BY CallEffects, <1>4, <1>v
     DEF FetchAndBackup, persist, Stage
<1>5. CASE Prepare
  BY CallEffects, <1>5, HolderIsService
     DEF Prepare
<1>6. CASE ActivateStop
  BY CallEffects, <1>6
     DEF ActivateStop, simple, Stop
<1>7. CASE ActivateRename
  BY CallEffects, <1>7
     DEF ActivateRename, simple, Rename
<1>8. CASE ActivateUndoStop
  BY CallEffects, <1>8
     DEF ActivateUndoStop, simple, StartContainer
<1>9. CASE ActivateCreate
  BY CallEffects, <1>9
     DEF ActivateCreate, simple
<1>10. CASE ActivateStart
  BY CallEffects, <1>10, HolderIsService
     DEF ActivateStart, simple, StartContainer
<1>11. CASE ActivateDiscard
  BY CallEffects, <1>11, HolderIsService
     DEF ActivateDiscard, simple, Remove
<1>12. CASE SetValidating
  BY CallEffects, <1>12, <1>v
     DEF SetValidating, persist, Stage
<1>13. CASE Validate
  BY CallEffects, <1>13
     DEF Validate
<1>14. CASE Finalize
  BY CallEffects, <1>14
     DEF Finalize, simple, Remove
<1>15. CASE BeginRollback
  BY CallEffects, <1>15, <1>v
     DEF BeginRollback, persist, Stage
<1>16. CASE RollbackFind
  BY CallEffects, <1>16, HolderIsService
     DEF RollbackFind, rolledBack, notRolledBack
<1>17. CASE RollbackStopNew
  BY CallEffects, <1>17, HolderIsService
     DEF RollbackStopNew, simple, Stop, rolledBack, notRolledBack
<1>18. CASE RollbackRemoveNew
  BY CallEffects, <1>18, HolderIsService
     DEF RollbackRemoveNew, simple, Remove, rolledBack, notRolledBack
<1>19. CASE RollbackRename
  BY CallEffects, <1>19
     DEF RollbackRename, simple, Rename, rolledBack, notRolledBack
<1>20. CASE RollbackInPlace
  BY CallEffects, <1>20
     DEF RollbackInPlace, rolledBack, notRolledBack
<1>21. CASE RollbackPreviousGone
  BY CallEffects, <1>21
     DEF RollbackPreviousGone, rolledBack, notRolledBack
<1>22. CASE RollbackStart
  BY CallEffects, <1>22
     DEF RollbackStart, simple, StartContainer, rolledBack, notRolledBack
<1>23. CASE FinishSuccess
  BY CallEffects, <1>23
     DEF FinishSuccess, finish
<1>24. CASE FinishFailed
  BY CallEffects, <1>24
     DEF FinishFailed, finish
<1>25. CASE FinishUnrestored
  BY CallEffects, <1>25
     DEF FinishUnrestored, finish
<1>26. CASE ForgetTransaction
  BY CallEffects, <1>26
     DEF ForgetTransaction
<1>27. CASE NewService
  BY CallEffects, <1>27
     DEF NewService
<1>28. CASE RecoverInterrupted
  BY CallEffects, <1>28, <1>v
     DEF RecoverInterrupted, persist, Stage
<1>29. CASE RecoverForget
  BY CallEffects, <1>29
     DEF RecoverForget
<1>30. ASSUME NEW from \in {"recovery_recorded", "unrecovered"},
             NEW e \in BOOLEAN, RecoverFinish(from, e),
             from = "recovery_recorded" \/ e
      PROVE  OutageInv'
  BY CallEffects, <1>30 DEF RecoverFinish
<1>31. CASE Crash
  BY CallEffects, <1>31 DEF Crash
<1>32. CASE UNCHANGED vars
  BY CallEffects, <1>32 DEF vars
<1> HIDE <1>t, <1>n DEF
     OutageInv, StageFollowsPosition, FailureIsClean, UpUnlessJournalled,
     UpWhenGivingUp, WasServing, Up, terminal, PreviousKnown, Replacing,
     docker, disk, memory, history
<1>33. QED
  BY <1>1, <1>2, <1>3, <1>4, <1>5, <1>6, <1>7, <1>8, <1>9, <1>10, <1>11,
     <1>12, <1>13, <1>14, <1>15, <1>16, <1>17, <1>18, <1>19, <1>20, <1>21,
     <1>22, <1>23, <1>24, <1>25, <1>26, <1>27, <1>28, <1>29, <1>30, <1>31,
     <1>32
     DEF Next, System, run, Activate, Rollback, Finish, Recovery

LEMMA OutagesSafe == Spec => [](ContainerInv /\ OutageInv)
<1>1. ContainerInv /\ OutageInv /\ [Next]_vars => OutageInv'
  BY NextOutageInv
<1>2. QED
  BY InitOutageInv, <1>1, ContainersSafe, PTL DEF Spec

(* A failed operation without a rollback_error leaves the service up.      *)
THEOREM OutagesAreReported == Spec => []OutageIsReported
<1>1. ContainerInv /\ OutageInv => OutageIsReported
  BY ServingIsUp
     DEF ContainerInv, OutageInv, FailureIsClean, WasServing, OutageIsReported
<1>2. QED
  BY OutagesSafe, <1>1, PTL

(* Whenever an unfinished operation has the service down, NewService will  *)
(* find the journal it needs to bring the previous instance back.          *)
THEOREM OutagesAreJournalled == Spec => []JournalCoversOutage
<1>1. ContainerInv /\ OutageInv => JournalCoversOutage
  BY ServingIsUp
     DEF ContainerInv, OutageInv, UpUnlessJournalled, WasServing,
         JournalCoversOutage
<1>2. QED
  BY OutagesSafe, <1>1, PTL

-----------------------------------------------------------------------------
(***************************************************************************)
(* Request ids.  What Start compares a new id with are exactly the last    *)
(* admitted ones, as many of them as are remembered.                       *)
(***************************************************************************)
UsedIsRecent ==
  /\ Len(used) <= Remembered
  /\ Len(used) <= Len(admitted)
  /\ Len(used) < Remembered => Len(used) = Len(admitted)
  /\ \A i \in 1..Len(used) :
       used[i] = admitted[Len(admitted) - Len(used) + i]

ReplayInv == UsedIsRecent /\ NoReplay

(* Appending the same id to two sequences, of which the first is the end   *)
(* of the second, and dropping the oldest of the first, keep it the end.   *)
LEMMA AppendRecent ==
  ASSUME NEW u \in Seq(Request), NEW a \in Seq(Request), NEW r \in Request,
         Len(u) <= Len(a),
         \A i \in 1..Len(u) : u[i] = a[Len(a) - Len(u) + i]
  PROVE  /\ Append(u, r) \in Seq(Request)
         /\ Len(Append(u, r)) = Len(u) + 1
         /\ \A i \in 1..Len(u) + 1 :
              Append(u, r)[i] = Append(a, r)[Len(a) - Len(u) + i]
<1>1. /\ Append(u, r) \in Seq(Request) /\ Len(Append(u, r)) = Len(u) + 1
      /\ \A i \in 1..Len(u) : Append(u, r)[i] = u[i]
      /\ Append(u, r)[Len(u) + 1] = r
      /\ \A i \in 1..Len(a) : Append(a, r)[i] = a[i]
      /\ Append(a, r)[Len(a) + 1] = r
  BY AppendProperties
<1>2. Len(u) \in Nat /\ Len(a) \in Nat
  BY LenProperties
<1>3. ASSUME NEW i \in 1..Len(u) + 1
      PROVE  Append(u, r)[i] = Append(a, r)[Len(a) - Len(u) + i]
  <2>1. CASE i = Len(u) + 1
    BY <1>1, <1>2, <2>1
  <2>2. CASE i # Len(u) + 1
    <3>1. i \in 1..Len(u) /\ Len(a) - Len(u) + i \in 1..Len(a)
      BY <1>2, <2>2
    <3>2. QED
      BY <1>1, <3>1
  <2>3. QED
    BY <2>1, <2>2
<1>4. QED
  BY <1>1, <1>3

LEMMA TailRecent ==
  ASSUME NEW w \in Seq(Request), NEW n \in Nat, Len(w) = n + 1
  PROVE  /\ Len(Tail(w)) = n
         /\ \A i \in 1..n : Tail(w)[i] = w[i + 1]
<1>1. w # <<>>
  OBVIOUS
<1>2. QED
  BY <1>1, HeadTailProperties

(* Only Start changes the ids.                                             *)
LEMMA IdsChange ==
  ASSUME [Next]_vars
  PROVE  (\E r \in Request : Start(r)) \/ UNCHANGED <<used, admitted>>
BY DEF Next, vars, System, run, Activate, Rollback, Finish, Recovery, Crash,
       disk, history, docker, memory,
       Prepared, CheckPreconditions, FetchAndBackup, Prepare, ActivateStop,
       ActivateRename, ActivateUndoStop, ActivateCreate, ActivateStart,
       ActivateDiscard, SetValidating, Validate, Finalize, BeginRollback,
       RollbackFind, RollbackStopNew, RollbackRemoveNew, RollbackRename,
       RollbackInPlace, RollbackPreviousGone, RollbackStart, FinishSuccess,
       FinishFailed, FinishUnrestored, finish, ForgetTransaction, NewService,
       RecoverInterrupted, RecoverForget, RecoverFinish

LEMMA NextReplayInv == TypeOK /\ ReplayInv /\ [Next]_vars => ReplayInv'
<1> SUFFICES ASSUME TypeOK, ReplayInv, [Next]_vars PROVE ReplayInv'
  OBVIOUS
<1>t. used \in Seq(Request) /\ admitted \in Seq(Request)
  BY DEF TypeOK
<1>1. ASSUME NEW r \in Request, Start(r) PROVE ReplayInv'
  <2>1. /\ admitted' = Append(admitted, r)
        /\ used' = IF Len(Append(used, r)) > Remembered
                     THEN Tail(Append(used, r)) ELSE Append(used, r)
        /\ \A i \in 1..Len(used) : used[i] # r
    BY <1>1 DEF Start
  <2>2. /\ Len(admitted') = Len(admitted) + 1
        /\ \A i \in 1..Len(admitted) : admitted'[i] = admitted[i]
        /\ admitted'[Len(admitted) + 1] = r
        /\ Len(admitted) \in Nat /\ Len(used) \in Nat
        /\ Remembered \in Nat
    BY <1>t, <2>1, AppendProperties, LenProperties, BoundAssumption
  <2>3. UsedIsRecent'
    <3> DEFINE ids == Append(used, r)
    <3>1. /\ ids \in Seq(Request)
          /\ Len(ids) = Len(used) + 1
          /\ \A i \in 1..Len(used) + 1 :
               ids[i] = admitted'[Len(admitted) - Len(used) + i]
      BY <1>t, <2>1, AppendRecent DEF ReplayInv, UsedIsRecent
    <3>2. used' = IF Len(ids) > Remembered THEN Tail(ids) ELSE ids
      BY <2>1
    <3> HIDE DEF ids
    <3>i. Len(used) <= Remembered /\ Len(used) <= Len(admitted)
          /\ (Len(used) < Remembered => Len(used) = Len(admitted))
      BY DEF ReplayInv, UsedIsRecent
    <3>3. CASE Len(ids) > Remembered
      <4>1. used' = Tail(ids) /\ Len(used) = Remembered
        BY <2>2, <3>1, <3>2, <3>3 DEF ReplayInv, UsedIsRecent
      <4>2. Len(used') = Len(used)
        BY <2>2, <3>1, <4>1, TailRecent
      <4>3. \A i \in 1..Len(used) : used'[i] = ids[i + 1]
        BY <2>2, <3>1, <4>1, TailRecent
      <4>4. ASSUME NEW i \in 1..Len(used')
            PROVE  used'[i] = admitted'[Len(admitted') - Len(used') + i]
        <5>1. i \in 1..Len(used) /\ i + 1 \in 1..Len(used) + 1
          BY <2>2, <4>2
        <5>2. Len(admitted) - Len(used) + (i + 1)
                = Len(admitted') - Len(used') + i
          BY <2>2, <4>2, <5>1
        <5>3. QED
          BY <3>1, <4>3, <5>1, <5>2
      <4>5. /\ Len(used') <= Remembered /\ Len(used') <= Len(admitted')
            /\ ~(Len(used') < Remembered)
        BY <2>2, <3>i, <4>1, <4>2
      <4>6. QED
        BY <4>4, <4>5 DEF UsedIsRecent
    <3>4. CASE ~(Len(ids) > Remembered)
      <4>1. used' = ids
        BY <3>2, <3>4
      <4>a. Len(used) = Len(admitted)
        BY <2>2, <3>1, <3>i, <3>4
      <4>2. Len(used') = Len(admitted')
        BY <2>2, <3>1, <4>1, <4>a
      <4>3. \A i \in 1..Len(used') :
              used'[i] = admitted'[Len(admitted') - Len(used') + i]
        BY <2>2, <3>1, <4>1, <4>2, <4>a
      <4>4. QED
        BY <2>2, <3>1, <3>4, <4>1, <4>2, <4>3, <4>a DEF UsedIsRecent
    <3>5. QED
      BY <3>3, <3>4
  <2>4. ASSUME NEW i \in 1..Len(admitted), admitted[i] = r
        PROVE  Len(admitted) + 1 - i > Remembered
    <3>1. CASE i <= Len(admitted) - Len(used)
      BY <2>2, <2>4, <3>1 DEF ReplayInv, UsedIsRecent
    <3>2. CASE i > Len(admitted) - Len(used)
      <4> DEFINE k == i - (Len(admitted) - Len(used))
      <4>1. k \in 1..Len(used) /\ Len(admitted) - Len(used) + k = i
        BY <2>2, <3>2
      <4>2. used[k] = admitted[i]
        BY <4>1 DEF ReplayInv, UsedIsRecent
      <4>3. QED
        BY <2>1, <2>4, <4>1, <4>2
    <3>3. QED
      BY <2>2, <3>1, <3>2
  <2>5. ASSUME NEW i \in 1..Len(admitted'), NEW j \in 1..Len(admitted'),
               i < j, admitted'[i] = admitted'[j]
        PROVE  j - i > Remembered
    <3>1. i \in 1..Len(admitted)
      BY <2>2, <2>5
    <3>2. CASE j = Len(admitted) + 1
      BY <2>2, <2>4, <2>5, <3>1, <3>2
    <3>3. CASE j # Len(admitted) + 1
      BY <2>2, <2>5, <3>1, <3>3 DEF ReplayInv, NoReplay
    <3>4. QED
      BY <3>2, <3>3
  <2>6. QED
    BY <2>3, <2>5 DEF ReplayInv, NoReplay
<1>2. CASE UNCHANGED <<used, admitted>>
  BY <1>2 DEF ReplayInv, UsedIsRecent, NoReplay
<1>3. QED
  BY <1>1, <1>2, IdsChange

(***************************************************************************)
(* A request id is not admitted again among the next Remembered operations,*)
(* whenever the updater crashes and reads the ids back from disk.          *)
(***************************************************************************)
THEOREM NoRequestReplayed == Spec => []NoReplay
<1>1. Init => ReplayInv
  BY BoundAssumption DEF Init, ReplayInv, UsedIsRecent, NoReplay
<1>2. ReplayInv => NoReplay
  BY DEF ReplayInv
<1>3. QED
  BY <1>1, <1>2, NextReplayInv, TypeCorrect, PTL DEF Spec

-----------------------------------------------------------------------------
(***************************************************************************)
(* What "success" means.  The strengthening follows the replaced container *)
(* through Activate: it is the one that served when the operation began,   *)
(* and once it is renamed nothing gives it the service name back but a     *)
(* rollback, which never ends in "success".                                *)
(***************************************************************************)
Untouched == {"checking", "pulling", "backing_up", "preparing"}

Advancing == {"stopping", "renaming", "creating", "starting", "activated",
              "validating", "finalizing"}

FoundBeforeStopping ==
  /\ pc \in Untouched => found.serving = Serving
  /\ pc \in Advancing => found.serving \in {NoContainer, previous}

PreviousAside ==
  pc \in {"creating", "starting", "activated", "validating", "finalizing"}
    => name[previous] = "aside"

Installed == /\ Serving \in validated
             /\ Serving # found.serving
             /\ found.serving \notin Present

InstalledWhenSucceeding ==
  /\ pc = "finalizing" => NamedService \cap Running \cap validated # {}
  /\ pc = "succeed" => Installed /\ ~Exists(journal)

SuccessInv == /\ FoundBeforeStopping /\ PreviousAside
              /\ InstalledWhenSucceeding /\ SuccessIsServing

(* The container that serves is determined by who carries the service name *)
(* and who runs.                                                           *)
LEMMA ServingSame ==
  /\ NamedService' = NamedService => Holder' = Holder
  /\ NamedService' = NamedService /\ Running' = Running => Serving' = Serving
<1>1. NamedService' = NamedService => Holder' = Holder
  BY DEF Holder
<1>2. QED
  BY <1>1 DEF Serving

(* A container that runs under the service name is the one that serves.    *)
LEMMA ServingIsUnique ==
  ASSUME UniqueService, NEW c \in NamedService
  PROVE  /\ Holder = c
         /\ c \in Running => Serving = c
BY HolderIsService DEF UniqueService, Serving

(* Docker is left alone while nothing is in progress.                      *)
LEMMA TerminalIsQuiet ==
  ASSUME OutageInv, [Next]_vars, terminal(op.stage)
  PROVE  /\ UNCHANGED <<status, name, validated>>
         /\ \/ Prepared
            \/ UNCHANGED <<op, found>> /\ journal' \in {journal, NoContainer}
<1>1. pc \in {"ready", "admitted", "forgetting", "down"}
  BY DEF OutageInv, StageFollowsPosition
<1>2. pc # "recovery_recorded" /\ pc # "unrecovered"
  BY <1>1
<1>3. ~Activate
  BY <1>1 DEF Activate, ActivateStop, ActivateRename, ActivateUndoStop,
              ActivateCreate, ActivateStart, ActivateDiscard
<1>4. ~Rollback
  BY <1>1 DEF Rollback, BeginRollback, RollbackFind, RollbackStopNew,
              RollbackRemoveNew, RollbackRename, RollbackInPlace,
              RollbackPreviousGone, RollbackStart
<1>5. run => Prepared
  BY <1>1, <1>3 DEF run, CheckPreconditions, FetchAndBackup, Prepare,
                    SetValidating, Validate, Finalize
<1>6. Finish => ForgetTransaction
  BY <1>1 DEF Finish, FinishSuccess, FinishFailed, FinishUnrestored, finish
<1>7. Recovery => NewService
  BY <1>1, <1>2 DEF Recovery, RecoverInterrupted, RecoverForget, RecoverFinish
<1>8. \/ \E r \in Request : Start(r)
      \/ Prepared \/ ForgetTransaction \/ NewService \/ Crash \/ UNCHANGED vars
  BY <1>4, <1>5, <1>6, <1>7 DEF Next, System
<1>9. QED
  BY <1>8 DEF Start, Prepared, ForgetTransaction, NewService, Crash, vars,
              docker, disk, memory, history

(* The name and the containers that exist, after a Docker call.            *)
LEMMA PresentEffects ==
  ASSUME TypeOK, NamesFollowStatus, NEW c \in Container
  PROVE  /\ (status' = [status EXCEPT ![c] = "stopped"] /\ name' = name
              /\ status[c] = "running")
             => Present' = Present
         /\ (status' = [status EXCEPT ![c] = "running"] /\ name' = name
              /\ status[c] = "stopped")
             => Present' = Present
         /\ (status' = [status EXCEPT ![c] = "absent"]
              /\ name' = [name EXCEPT ![c] = "removed"])
             => /\ Present' = Present \ {c}
                /\ \A d \in Container \ {c} : name'[d] = name[d]
         /\ (status' = status /\ name' = [name EXCEPT ![c] = "aside"])
             => Present' = Present /\ name'[c] = "aside"
         /\ (status' = status /\ name' = [name EXCEPT ![c] = "service"])
             => Present' = Present
         /\ (status' = [status EXCEPT ![c] = "stopped"]
              /\ name' = [name EXCEPT ![c] = "service"]
              /\ name[c] = "unused")
             => /\ Present' = Present \cup {c}
                /\ \A d \in Container \ {c} : name'[d] = name[d]
         /\ (status' = status /\ name' = name)
             => Present' = Present
<1> USE DEF TypeOK, NamesFollowStatus, Present, Exists
<1>1. (status' = [status EXCEPT ![c] = "stopped"] /\ name' = name
        /\ status[c] = "running") => Present' = Present
  OBVIOUS
<1>2. (status' = [status EXCEPT ![c] = "running"] /\ name' = name
        /\ status[c] = "stopped") => Present' = Present
  OBVIOUS
<1>3. (status' = [status EXCEPT ![c] = "absent"]
        /\ name' = [name EXCEPT ![c] = "removed"])
       => /\ Present' = Present \ {c}
          /\ \A d \in Container \ {c} : name'[d] = name[d]
  OBVIOUS
<1>4. (status' = status /\ name' = [name EXCEPT ![c] = "aside"])
       => Present' = Present /\ name'[c] = "aside"
  OBVIOUS
<1>5. (status' = status /\ name' = [name EXCEPT ![c] = "service"])
       => Present' = Present
  OBVIOUS
<1>6. (status' = [status EXCEPT ![c] = "stopped"]
        /\ name' = [name EXCEPT ![c] = "service"]
        /\ name[c] = "unused")
       => /\ Present' = Present \cup {c}
          /\ \A d \in Container \ {c} : name'[d] = name[d]
  OBVIOUS
<1>7. (status' = status /\ name' = name) => Present' = Present
  OBVIOUS
<1>8. QED
  BY <1>1, <1>2, <1>3, <1>4, <1>5, <1>6, <1>7

(* How an operation ends: with the Docker state it has, from one of four   *)
(* positions, or with a rollback_error.                                    *)
LEMMA EndingStep ==
  ASSUME TypeOK, [Next]_vars, ~terminal(op.stage), terminal(op'.stage)
  PROVE  /\ UNCHANGED <<status, name, journal, found, validated>>
         /\ \/ pc = "succeed" /\ op'.stage = "success"
            \/ /\ \/ pc \in {"fail", "recovery_recorded"}
                  \/ pc = "down" /\ journal = NoContainer
               /\ op'.stage = "failed"
            \/ op'.stage = "failed" /\ op'.rollbackError
<1> DEFINE P == /\ UNCHANGED <<status, name, journal, found, validated>>
                /\ \/ pc = "succeed" /\ op'.stage = "success"
                   \/ /\ \/ pc \in {"fail", "recovery_recorded"}
                         \/ pc = "down" /\ journal = NoContainer
                      /\ op'.stage = "failed"
                   \/ op'.stage = "failed" /\ op'.rollbackError
<1>v. /\ op' # op
      /\ \A g \in Stage : [op EXCEPT !.stage = g].stage = g
  BY DEF TypeOK
<1> USE DEF persist, Stage, disk, docker, history, terminal
<1>1. CASE \E r \in Request : Start(r)
  BY <1>1, <1>v DEF Start
<1>2. CASE run
  <2>1. CASE Prepared
    BY <2>1 DEF Prepared
  <2>2. CASE CheckPreconditions \/ FetchAndBackup \/ SetValidating
    BY <2>2, <1>v DEF CheckPreconditions, FetchAndBackup, SetValidating
  <2>3. CASE Prepare \/ Activate \/ Validate \/ Finalize
    BY <2>3, <1>v
       DEF Prepare, Activate, ActivateStop, ActivateRename, ActivateUndoStop,
           ActivateCreate, ActivateStart, ActivateDiscard, Validate, Finalize
  <2>4. QED
    BY <1>2, <2>1, <2>2, <2>3 DEF run
<1>3. CASE Rollback
  BY <1>3, <1>v
     DEF Rollback, BeginRollback, RollbackFind, RollbackStopNew,
         RollbackRemoveNew, RollbackRename, RollbackInPlace,
         RollbackPreviousGone, RollbackStart
<1>4. CASE Finish
  <2>1. CASE FinishSuccess
    BY <2>1 DEF FinishSuccess, finish
  <2>2. CASE FinishFailed
    BY <2>2 DEF FinishFailed, finish
  <2>3. CASE FinishUnrestored
    BY <2>3 DEF FinishUnrestored, finish
  <2>4. CASE ForgetTransaction
    BY <2>4, <1>v DEF ForgetTransaction
  <2>5. QED
    BY <1>4, <2>1, <2>2, <2>3, <2>4 DEF Finish
<1>5. CASE Recovery
  <2>1. CASE NewService \/ RecoverForget
    BY <2>1, <1>v DEF NewService, RecoverForget
  <2>2. CASE RecoverInterrupted
    BY <2>2, <1>v DEF RecoverInterrupted
  <2>3. CASE \/ RecoverFinish("recovery_recorded", FALSE)
             \/ RecoverFinish("unrecovered", TRUE)
    BY <2>3 DEF RecoverFinish
  <2>4. QED
    BY <1>5, <2>1, <2>2, <2>3 DEF Recovery
<1>6. CASE Crash \/ UNCHANGED vars
  BY <1>6, <1>v DEF Crash, vars
<1>7. QED
  BY <1>1, <1>2, <1>3, <1>4, <1>5, <1>6 DEF Next, System

(* The steps of an operation that moves on; any other leaves the positions *)
(* the strengthening speaks of.                                            *)
LEMMA OtherPositions ==
  ASSUME [Next]_vars
  PROVE  \/ Prepared \/ CheckPreconditions \/ FetchAndBackup \/ Prepare
         \/ ActivateStop \/ ActivateRename \/ ActivateCreate \/ ActivateStart
         \/ SetValidating \/ Validate \/ Finalize \/ UNCHANGED vars
         \/ pc' \notin Untouched \cup Advancing \cup {"succeed"}
<1> USE DEF Untouched, Advancing
<1>1. ASSUME \E r \in Request : Start(r)
      PROVE  pc' \notin Untouched \cup Advancing \cup {"succeed"}
  BY <1>1 DEF Start
<1>2. ASSUME ActivateUndoStop \/ ActivateDiscard
      PROVE  pc' \notin Untouched \cup Advancing \cup {"succeed"}
  BY <1>2 DEF ActivateUndoStop, ActivateDiscard, StartContainer, Remove, simple
<1>3. ASSUME Rollback
      PROVE  pc' \notin Untouched \cup Advancing \cup {"succeed"}
  BY <1>3 DEF Rollback, BeginRollback, RollbackFind, RollbackStopNew,
     RollbackRemoveNew, RollbackRename, RollbackInPlace, RollbackPreviousGone,
     RollbackStart, simple, Stop, StartContainer, Remove, Rename,
     rolledBack, notRolledBack
<1>4. ASSUME Finish
      PROVE  pc' \notin Untouched \cup Advancing \cup {"succeed"}
  BY <1>4 DEF Finish, FinishSuccess, FinishFailed, FinishUnrestored, finish,
              ForgetTransaction
<1>5. ASSUME Recovery \/ Crash
      PROVE  pc' \notin Untouched \cup Advancing \cup {"succeed"}
  BY <1>5 DEF Recovery, NewService, RecoverInterrupted, RecoverForget,
              RecoverFinish, Crash
<1>6. QED
  BY <1>1, <1>2, <1>3, <1>4, <1>5 DEF Next, System, run, Activate

LEMMA NextSuccessInv ==
  ContainerInv /\ OutageInv /\ SuccessInv /\ [Next]_vars => SuccessInv'
<1> SUFFICES ASSUME ContainerInv, OutageInv, SuccessInv, [Next]_vars
             PROVE  SuccessInv'
  OBVIOUS
<1>t. /\ TypeOK /\ NamesFollowStatus /\ UniqueService /\ PreviousKnown
      /\ TypeOK' /\ UniqueService'
  BY NextTypeOK, NextPlacement DEF ContainerInv, Placement
<1>n. /\ NamedService \subseteq Container
      /\ Running \subseteq Container
      /\ \A c \in Container : c \in Running <=> status[c] = "running"
      /\ \A c \in NamedService : name[c] = "service"
      /\ \A c \in Container : c \in Present <=> Exists(c)
  BY DEF NamedService, Running, Present
<1>h. Holder \in NamedService \/ Holder = NoContainer
  BY HolderIsService
<1>p. pc \in Advancing => previous \in Container
  BY <1>t DEF PreviousKnown, Replacing, Advancing
<1> DEFINE Kept == (FoundBeforeStopping /\ PreviousAside
                      /\ InstalledWhenSucceeding)'
<1>a. Kept
  <2> USE DEF Untouched, Advancing, SuccessInv, FoundBeforeStopping,
              PreviousAside, InstalledWhenSucceeding, docker, disk, memory,
              history
  <2>q. UNCHANGED <<status, name>> =>
          /\ NamedService' = NamedService /\ Running' = Running
          /\ Serving' = Serving
    BY <1>t, CallEffects, ServingSame, ContainerAssumption
  <2>1. CASE Prepared
    BY <2>1, <2>q DEF Prepared
  <2>2. CASE CheckPreconditions
    BY <2>2, <2>q DEF CheckPreconditions
  <2>3. CASE FetchAndBackup
    BY <2>3, <2>q DEF FetchAndBackup
  <2>4. CASE Prepare
    BY <2>4, <2>q DEF Prepare, Serving
  <2>5. CASE ActivateStop
    BY <2>5 DEF ActivateStop, simple, Stop
  <2>6. CASE ActivateRename
    BY <2>6, <1>p, <1>t, PresentEffects DEF ActivateRename, simple, Rename
  <2>7. CASE ActivateCreate
    <3>1. PICK c \in Container :
            /\ name[c] = "unused"
            /\ simple(NamedService = {}, [status EXCEPT ![c] = "stopped"],
                      [name EXCEPT ![c] = "service"], "starting", "rollback")
      BY <2>7 DEF ActivateCreate
    <3>2. c # previous /\ pc = "creating" /\ UNCHANGED <<previous, found>>
      BY <2>7, <3>1 DEF ActivateCreate
    <3>3. pc' = "starting" => name' = [name EXCEPT ![c] = "service"]
      BY <3>1 DEF simple
    <3>4. pc' = "starting" => name'[previous] = name[previous]
      BY <3>2, <3>3, <1>p, <1>t DEF TypeOK
    <3>5. pc' \in {"starting", "rollback"}
      BY <3>1 DEF simple
    <3>6. QED
      BY <3>2, <3>4, <3>5
  <2>8. CASE ActivateStart
    BY <2>8 DEF ActivateStart, simple, StartContainer
  <2>9. CASE SetValidating
    BY <2>9 DEF SetValidating
  <2>10. CASE Validate
    <3>1. CASE pc' = "finalizing"
      <4>1. Holder \in Running /\ validated' = validated \cup {Holder}
        BY <2>10, <3>1 DEF Validate
      <4>2. Holder \in NamedService
        BY <1>n, <1>h, <4>1, ContainerAssumption
      <4>3. UNCHANGED <<status, name, found, previous>>
        BY <2>10 DEF Validate
      <4>4. NamedService' \cap Running' \cap validated' # {}
        BY <2>q, <4>1, <4>2, <4>3
      <4>5. QED
        BY <2>10, <3>1, <4>3, <4>4 DEF Validate
    <3>2. CASE pc' # "finalizing"
      BY <2>10, <3>2 DEF Validate
    <3>3. QED
      BY <3>1, <3>2
  <2>11. CASE Finalize
    <3>1. CASE pc' = "succeed"
      <4>1. /\ status' = [status EXCEPT ![previous] = "absent"]
            /\ name' = [name EXCEPT ![previous] = "removed"]
            /\ UNCHANGED <<found, validated, journal>>
        BY <2>11, <3>1 DEF Finalize, Remove, simple
      <4>2. previous \in Container /\ name[previous] = "aside"
            /\ journal = previous
        BY <1>p, <1>t, <2>11 DEF Finalize, PreviousKnown, Replacing
      <4>3. /\ NamedService' = NamedService \ {previous}
            /\ Running' = Running \ {previous}
            /\ Present' = Present \ {previous}
        BY <1>t, <4>1, <4>2, CallEffects, PresentEffects
      <4>4. PICK c \in NamedService \cap Running : c \in validated
        BY <2>11 DEF Finalize
      <4>5. c # previous
        BY <1>n, <4>2, <4>4
      <4>6. c \in NamedService' /\ c \in Running'
        BY <4>3, <4>4, <4>5
      <4>7. Serving' = c
        BY <1>t, <4>6 DEF UniqueService, Serving, Holder
      <4>8. found.serving \in {NoContainer, previous}
        BY <2>11 DEF Finalize
      <4>9. found'.serving \notin Present'
        <5>1. Present \subseteq Container
          BY DEF Present
        <5>2. QED
          BY <4>1, <4>3, <4>8, <5>1, ContainerAssumption
      <4>10. Serving' # found'.serving /\ Serving' \in validated'
        BY <1>n, <4>1, <4>4, <4>5, <4>7, <4>8, ContainerAssumption
      <4>11. ~Exists(journal)'
        BY <1>t, <4>1, <4>2 DEF Exists, TypeOK
      <4>12. QED
        BY <3>1, <4>9, <4>10, <4>11 DEF Installed
    <3>2. CASE pc' # "succeed"
      BY <2>11, <3>2 DEF Finalize, Remove, simple
    <3>3. QED
      BY <3>1, <3>2
  <2>12. CASE UNCHANGED vars
    <3>1. Present' = Present /\ Exists(journal)' = Exists(journal)
      BY <2>12 DEF vars, Present, Exists
    <3>2. Installed' = Installed
      BY <2>12, <2>q, <3>1 DEF vars, Installed
    <3>3. QED
      BY <2>12, <2>q, <3>1, <3>2 DEF vars
  <2>13. CASE pc' \notin Untouched \cup Advancing \cup {"succeed"}
    BY <2>13
  <2> HIDE DEF Kept, Untouched, Advancing
  <2>14. QED
    BY <2>1, <2>2, <2>3, <2>4, <2>5, <2>6, <2>7, <2>8, <2>9, <2>10, <2>11,
       <2>12, <2>13, OtherPositions
<1>b. SuccessIsServing'
  <2>1. CASE terminal(op.stage)
    <3>1. UNCHANGED <<status, name, validated>>
      BY <2>1, TerminalIsQuiet
    <3>2. Serving' = Serving
      BY <1>t, <3>1, CallEffects, ServingSame, ContainerAssumption
    <3>3. Present' = Present
      BY <3>1 DEF Present, Exists
    <3>4. CASE Prepared
      BY <3>4 DEF Prepared, SuccessIsServing
    <3>5. CASE UNCHANGED <<op, found>>
      BY <3>1, <3>2, <3>3, <3>5 DEF SuccessInv, SuccessIsServing
    <3>6. QED
      BY <2>1, <3>4, <3>5, TerminalIsQuiet
  <2>2. CASE ~terminal(op.stage)
    <3>1. CASE op'.stage = "success"
      <4>1. UNCHANGED <<status, name, validated, found>> /\ pc = "succeed"
        BY <1>t, <2>2, <3>1, EndingStep DEF terminal
      <4>2. Serving' = Serving
        BY <1>t, <4>1, CallEffects, ServingSame, ContainerAssumption
      <4>3. Present' = Present
        BY <4>1 DEF Present, Exists
      <4>4. QED
        BY <4>1, <4>2, <4>3
           DEF SuccessInv, InstalledWhenSucceeding, Installed, SuccessIsServing
    <3>2. QED
      BY <3>1 DEF SuccessIsServing
  <2>3. QED
    BY <2>1, <2>2
<1>c. QED
  BY <1>a, <1>b DEF SuccessInv

(* A reported success is a bridge that runs, that passed its checks, and   *)
(* that has taken the place of the one before.                             *)
LEMMA SuccessesSafe == Spec => [](ContainerInv /\ OutageInv /\ SuccessInv)
<1>1. Init => SuccessInv
  BY DEF Init, SuccessInv, FoundBeforeStopping, PreviousAside,
         InstalledWhenSucceeding, SuccessIsServing, Untouched, Advancing
<1>2. QED
  BY <1>1, NextSuccessInv, OutagesSafe, PTL DEF Spec

THEOREM SuccessesServe == Spec => []SuccessIsServing
<1>1. SuccessInv => SuccessIsServing
  BY DEF SuccessInv
<1>2. QED
  BY SuccessesSafe, <1>1, PTL

-----------------------------------------------------------------------------
(***************************************************************************)
(* No orphans.  While an operation runs, what it has added is at most the  *)
(* one container with the service name, and never the one the journal      *)
(* names: a rollback that succeeds has removed it, for it needs the name.  *)
(***************************************************************************)
OnlyNewIsExtra ==
  ~terminal(op.stage) =>
    \A c \in Present \ found.present : c \in NamedService /\ c # journal

NothingIsExtra ==
  /\ (~terminal(op.stage) /\ journal = NoContainer)
       => Present \subseteq found.present
  /\ pc \in Untouched \cup {"fail", "recovered", "recovery_recorded"}
       => Present \subseteq found.present

NoMoreWhenSucceeding ==
  pc = "succeed" => Cardinality(Present) <= Cardinality(found.present)

FinitelyMany == IsFiniteSet(Present) /\ IsFiniteSet(found.present)

OrphanInv == /\ OnlyNewIsExtra /\ NothingIsExtra /\ NoMoreWhenSucceeding
             /\ FinitelyMany /\ EndLeavesNoOrphan

(* Each step creates or removes at most one container, and only Prepared   *)
(* changes what the operation is said to have found.                       *)
LEMMA PresentStep ==
  ASSUME ContainerInv, [Next]_vars
  PROVE  \/ Present' \subseteq Present
         \/ \E c \in Container :
              /\ Present' = Present \cup {c}
              /\ name[c] = "unused"
              /\ pc = "creating"
<1>t. TypeOK /\ NamesFollowStatus /\ PreviousKnown
  BY DEF ContainerInv
<1>h. Holder \in NamedService \/ Holder = NoContainer
  BY HolderIsService
<1>n. NamedService \subseteq Container
  BY DEF NamedService
<1>u. ASSUME UNCHANGED <<status, name>> PROVE Present' = Present
  BY <1>u DEF Present, Exists
<1>p. pc \in Replacing => previous \in Container
  BY <1>t DEF PreviousKnown
<1> USE DEF docker, disk, memory, history
<1>1. CASE \E r \in Request : Start(r)
  BY <1>1, <1>u DEF Start
<1>2. CASE run
  <2>1. CASE \/ Prepared \/ CheckPreconditions \/ FetchAndBackup \/ Prepare
             \/ SetValidating \/ Validate
    BY <2>1, <1>u DEF Prepared, CheckPreconditions, FetchAndBackup, Prepare,
                      SetValidating, Validate
  <2>2. CASE ActivateStop
    BY <2>2, <1>t, <1>p, PresentEffects
       DEF ActivateStop, Stop, simple, Replacing
  <2>3. CASE ActivateRename
    BY <2>3, <1>t, <1>p, PresentEffects
       DEF ActivateRename, Rename, simple, Replacing
  <2>4. CASE ActivateUndoStop
    BY <2>4, <1>t, <1>p, PresentEffects
       DEF ActivateUndoStop, StartContainer, simple, Replacing
  <2>5. CASE ActivateCreate
    <3>1. PICK c \in Container :
            /\ name[c] = "unused"
            /\ simple(NamedService = {}, [status EXCEPT ![c] = "stopped"],
                      [name EXCEPT ![c] = "service"], "starting", "rollback")
      BY <2>5 DEF ActivateCreate
    <3>2. CASE UNCHANGED <<status, name>>
      BY <3>2, <1>u
    <3>3. CASE /\ status' = [status EXCEPT ![c] = "stopped"]
               /\ name' = [name EXCEPT ![c] = "service"]
      <4>1. Present' = Present \cup {c}
        BY <3>1, <3>3, <1>t, PresentEffects
      <4>2. QED
        BY <2>5, <3>1, <4>1 DEF ActivateCreate
    <3>4. QED
      BY <3>1, <3>2, <3>3 DEF simple
  <2>6. CASE ActivateStart
    <3>1. CASE UNCHANGED <<status, name>>
      BY <3>1, <1>u
    <3>2. CASE /\ status[Holder] = "stopped"
               /\ status' = [status EXCEPT ![Holder] = "running"]
               /\ name' = name
      <4>1. Holder \in Container
        BY <2>6, <1>t, <1>n, HolderIsService
           DEF ActivateStart, PreviousKnown
      <4>2. QED
        BY <3>2, <4>1, <1>t, PresentEffects
    <3>3. QED
      BY <2>6, <3>1, <3>2 DEF ActivateStart, StartContainer, simple
  <2>7. ASSUME NEW c \in Container, NEW onSuccess, NEW onError,
               Remove(c, onSuccess, onError)
        PROVE  Present' \subseteq Present
    BY <2>7, <1>t, <1>u, PresentEffects DEF Remove, simple
  <2>8. CASE ActivateDiscard
    BY <2>7, <2>8, <1>t, <1>n, HolderIsService
       DEF ActivateDiscard, PreviousKnown
  <2>9. CASE Finalize
    BY <2>7, <2>9, <1>p DEF Finalize, Replacing
  <2>10. QED
    BY <1>2, <2>1, <2>2, <2>3, <2>4, <2>5, <2>6, <2>8, <2>9 DEF run, Activate
<1>3. CASE Rollback
  <2>1. CASE \/ BeginRollback \/ RollbackFind \/ RollbackInPlace
             \/ RollbackPreviousGone
    BY <2>1, <1>u
       DEF BeginRollback, RollbackFind, RollbackInPlace, RollbackPreviousGone
  <2>2. CASE RollbackStopNew
    <3>1. Holder \in Container
      BY <2>2, <1>t, <1>n, HolderIsService DEF RollbackStopNew, PreviousKnown
    <3>2. QED
      BY <2>2, <3>1, <1>t, <1>u, PresentEffects
         DEF RollbackStopNew, Stop, simple
  <2>3. CASE RollbackRemoveNew
    <3>1. Holder \in Container
      BY <2>3, <1>t, <1>n, HolderIsService DEF RollbackRemoveNew, PreviousKnown
    <3>2. QED
      BY <2>3, <3>1, <1>t, <1>u, PresentEffects
         DEF RollbackRemoveNew, Remove, simple
  <2>4. CASE RollbackRename
    BY <2>4, <1>t, <1>p, PresentEffects
       DEF RollbackRename, Rename, simple, Replacing
  <2>5. CASE RollbackStart
    BY <2>5, <1>t, <1>p, PresentEffects
       DEF RollbackStart, StartContainer, simple, Replacing
  <2>6. QED
    BY <1>3, <2>1, <2>2, <2>3, <2>4, <2>5 DEF Rollback
<1>4. CASE Finish
  BY <1>4, <1>u DEF Finish, FinishSuccess, FinishFailed, FinishUnrestored,
                    finish, ForgetTransaction
<1>5. CASE Recovery
  BY <1>5, <1>u DEF Recovery, NewService, RecoverInterrupted, RecoverForget,
                    RecoverFinish
<1>6. CASE Crash \/ UNCHANGED vars
  BY <1>6, <1>u DEF Crash, vars
<1>7. QED
  BY <1>1, <1>2, <1>3, <1>4, <1>5, <1>6 DEF Next, System

LEMMA FoundChanges ==
  ASSUME [Next]_vars
  PROVE  Prepared \/ UNCHANGED found
BY DEF Next, vars, System, run, Activate, Rollback, Finish, Recovery, Crash,
       disk, history, docker, memory, Start,
       CheckPreconditions, FetchAndBackup, Prepare, ActivateStop,
       ActivateRename, ActivateUndoStop, ActivateCreate, ActivateStart,
       ActivateDiscard, SetValidating, Validate, Finalize, BeginRollback,
       RollbackFind, RollbackStopNew, RollbackRemoveNew, RollbackRename,
       RollbackInPlace, RollbackPreviousGone, RollbackStart, FinishSuccess,
       FinishFailed, FinishUnrestored, finish, ForgetTransaction, NewService,
       RecoverInterrupted, RecoverForget, RecoverFinish

LEMMA NextFinitelyMany ==
  ASSUME ContainerInv, FinitelyMany, [Next]_vars
  PROVE  FinitelyMany'
<1>1. IsFiniteSet(Present')
  BY PresentStep, FS_Subset, FS_AddElement DEF FinitelyMany
<1>2. CASE Prepared
  BY <1>1, <1>2 DEF Prepared, FinitelyMany
<1>3. CASE UNCHANGED found
  BY <1>1, <1>3 DEF FinitelyMany
<1>4. QED
  BY <1>2, <1>3, FoundChanges

LEMMA NextExtra ==
  ASSUME ContainerInv, OutageInv, SuccessInv, OnlyNewIsExtra, NothingIsExtra,
         [Next]_vars
  PROVE  OnlyNewIsExtra' /\ NothingIsExtra'
<1>t. /\ TypeOK /\ NamesFollowStatus /\ UniqueService /\ PreviousKnown
      /\ StageFollowsPosition
  BY DEF ContainerInv, OutageInv
<1>n. /\ NamedService \subseteq Container
      /\ Present \subseteq Container
      /\ \A c \in NamedService : name[c] = "service" /\ c \in Present
      /\ \A c \in Container : c \in Present <=> Exists(c)
      /\ Holder \in NamedService \/ Holder = NoContainer
  BY HolderIsService DEF NamedService, Present
<1>s. UNCHANGED <<status, name>> =>
        Present' = Present /\ NamedService' = NamedService
  BY DEF Present, NamedService, Exists
<1>v. \A g \in Stage : [op EXCEPT !.stage = g].stage = g
  BY <1>t DEF TypeOK
<1>p. pc \in Replacing => previous \in Container /\ journal = previous
  BY <1>t DEF PreviousKnown
<1>a. pc = "creating" => name[previous] = "aside"
  BY DEF SuccessInv, PreviousAside
<1> USE DEF OnlyNewIsExtra, NothingIsExtra, Untouched, StageFollowsPosition,
            docker, disk, memory, history, terminal
<1>1. CASE \E r \in Request : Start(r)
  BY <1>1, <1>s, <1>t DEF Start
<1>2. CASE Prepared
  BY <1>2, <1>s DEF Prepared
<1>3. CASE CheckPreconditions
  BY <1>3, <1>s, <1>t DEF CheckPreconditions
<1>4. CASE FetchAndBackup
  BY <1>4, <1>s, <1>t DEF FetchAndBackup
<1>5. CASE Prepare
  BY <1>5, <1>n, <1>s, <1>t DEF Prepare
<1>6. CASE ActivateStop
  BY <1>6, <1>n, <1>s, <1>t, <1>p, CallEffects, PresentEffects
     DEF ActivateStop, Stop, simple, Replacing
<1>7. CASE ActivateRename
  <2>1. /\ Present' = Present /\ NamedService \ {previous} \subseteq NamedService'
        /\ op' = op /\ journal' = journal /\ found' = found
        /\ pc' \in {"creating", "undo_stop"}
    BY <1>7, <1>s, <1>t, <1>p, CallEffects, PresentEffects
       DEF ActivateRename, Rename, simple, Replacing
  <2>2. journal = previous /\ journal # NoContainer
    BY <1>7, <1>p, ContainerAssumption DEF ActivateRename, Replacing
  <2>3. QED
    BY <2>1, <2>2, <1>7, <1>t DEF ActivateRename
<1>8. CASE ActivateUndoStop
  BY <1>8, <1>n, <1>s, <1>t, <1>p, CallEffects, PresentEffects
     DEF ActivateUndoStop, StartContainer, simple, Replacing
<1>9. CASE ActivateCreate
  <2>1. PICK c \in Container :
          /\ name[c] = "unused"
          /\ simple(NamedService = {}, [status EXCEPT ![c] = "stopped"],
                    [name EXCEPT ![c] = "service"], "starting", "rollback")
    BY <1>9 DEF ActivateCreate
  <2>2. /\ op' = op /\ journal' = journal /\ found' = found
        /\ pc = "creating" /\ pc' \in {"starting", "rollback"}
        /\ ~terminal(op.stage) /\ journal = previous /\ journal # NoContainer
    BY <1>9, <2>1, <1>t, <1>p, ContainerAssumption
       DEF ActivateCreate, simple, Replacing
  <2>3. \/ Present' = Present /\ NamedService' = NamedService
        \/ Present' = Present \cup {c} /\ NamedService' = NamedService \cup {c}
    BY <2>1, <1>s, <1>t, CallEffects, PresentEffects DEF simple
  <2>4. c # journal
    BY <2>1, <2>2, <1>a
  <2>5. QED
    BY <2>2, <2>3, <2>4
<1>10. CASE ActivateStart
  <2>1. Holder \in Container
    BY <1>10, <1>n, <1>t, HolderIsService DEF ActivateStart, PreviousKnown
  <2>2. Present' = Present /\ NamedService' = NamedService
    BY <1>10, <2>1, <1>s, <1>t, CallEffects, PresentEffects
       DEF ActivateStart, StartContainer, simple
  <2>3. /\ op' = op /\ journal' = journal /\ found' = found
        /\ pc' \in {"activated", "discarding"}
        /\ journal # NoContainer /\ ~terminal(op.stage)
    BY <1>10, <1>t, <1>p, ContainerAssumption
       DEF ActivateStart, StartContainer, simple, Replacing
  <2>4. QED
    BY <2>2, <2>3
<1>11. ASSUME NEW c \in Container, NEW onSuccess, NEW onError,
              Remove(c, onSuccess, onError)
       PROVE  /\ Present' \subseteq Present
              /\ Present' \cap NamedService \subseteq NamedService'
  BY <1>11, <1>n, <1>s, <1>t, CallEffects, PresentEffects DEF Remove, simple
<1>12. CASE ActivateDiscard
  <2>1. Holder \in Container
    BY <1>12, <1>n, <1>t, HolderIsService DEF ActivateDiscard, PreviousKnown
  <2>2. /\ op' = op /\ journal' = journal /\ found' = found
        /\ pc' = "rollback" /\ journal = previous /\ journal # NoContainer
    BY <1>12, <1>p, ContainerAssumption
       DEF ActivateDiscard, Remove, simple, Replacing
  <2>3. QED
    BY <1>11, <1>12, <2>1, <2>2, <1>t DEF ActivateDiscard
<1>13. CASE SetValidating
  BY <1>13, <1>s, <1>t, <1>p, ContainerAssumption DEF SetValidating, Replacing
<1>14. CASE Validate
  BY <1>14, <1>s, <1>t, <1>p, ContainerAssumption DEF Validate, Replacing
<1>15. CASE Finalize
  <2>1. /\ op' = op /\ journal' = journal /\ found' = found
        /\ pc' \in {"succeed", "rollback"}
        /\ journal = previous /\ journal # NoContainer
    BY <1>15, <1>p, ContainerAssumption DEF Finalize, Remove, simple, Replacing
  <2>2. previous \in Container
    BY <1>15, <1>p DEF Finalize, Replacing
  <2>3. QED
    BY <1>11, <1>15, <2>1, <2>2, <1>t DEF Finalize
<1>16. CASE BeginRollback
  BY <1>16, <1>s, <1>t, <1>p, ContainerAssumption DEF BeginRollback, Replacing
<1>17. CASE RollbackFind
  BY <1>17, <1>s, <1>t, <1>p, ContainerAssumption DEF RollbackFind, Replacing
<1>18. CASE RollbackStopNew
  <2>1. Holder \in Container
    BY <1>18, <1>n, <1>t, HolderIsService DEF RollbackStopNew, PreviousKnown
  <2>2. Present' = Present /\ NamedService' = NamedService
    BY <1>18, <2>1, <1>s, <1>t, CallEffects, PresentEffects
       DEF RollbackStopNew, Stop, simple
  <2>3. /\ op' = op /\ journal' = journal /\ found' = found
        /\ pc' = "removing_new"
        /\ journal # NoContainer /\ ~terminal(op.stage)
    BY <1>18, <1>t, <1>p, ContainerAssumption
       DEF RollbackStopNew, Stop, simple, Replacing
  <2>4. QED
    BY <2>2, <2>3
<1>19. CASE RollbackRemoveNew
  <2>1. Holder \in Container
    BY <1>19, <1>n, <1>t, HolderIsService DEF RollbackRemoveNew, PreviousKnown
  <2>2. /\ op' = op /\ journal' = journal /\ found' = found
        /\ pc' \in {"restoring", "unrecovered", "fail_unrestored"}
        /\ journal = previous /\ journal # NoContainer
    BY <1>19, <1>p, ContainerAssumption
       DEF RollbackRemoveNew, Remove, simple, notRolledBack, Replacing
  <2>3. QED
    BY <1>11, <1>19, <2>1, <2>2, <1>t DEF RollbackRemoveNew
<1>u. (previous \in NamedService /\ journal = previous /\ ~terminal(op.stage))
        => Present \subseteq found.present
  BY <1>t DEF UniqueService
<1>20. CASE RollbackRename
  <2>1. /\ op' = op /\ journal' = journal /\ found' = found
        /\ journal = previous /\ journal # NoContainer /\ previous \in Container
        /\ ~terminal(op.stage)
        /\ pc' \in {"restarting_previous", "fail", "recovered",
                    "unrecovered", "fail_unrestored"}
    BY <1>20, <1>p, <1>t, ContainerAssumption
       DEF RollbackRename, Rename, simple, rolledBack, notRolledBack, Replacing
  <2>2. CASE UNCHANGED <<status, name>> /\ pc' \in {"unrecovered", "fail_unrestored"}
    BY <2>1, <2>2, <1>s
  <2>3. CASE /\ NamedService = {} /\ status' = status /\ Exists(previous)
             /\ name' = [name EXCEPT ![previous] = "service"]
    <3>1. Present' = Present
      BY <2>1, <2>3, <1>t, PresentEffects
    <3>2. Present \subseteq found.present
      BY <2>1, <2>3
    <3>3. QED
      BY <2>1, <3>1, <3>2
  <2>4. QED
    BY <1>20, <2>2, <2>3
       DEF RollbackRename, Rename, simple, notRolledBack
<1>21. CASE RollbackInPlace
  <2>1. previous \in NamedService
    BY <1>21, <1>p DEF RollbackInPlace, NamedService, Replacing
  <2>2. QED
    BY <1>21, <2>1, <1>s, <1>t, <1>p, <1>u, ContainerAssumption
       DEF RollbackInPlace, Replacing
<1>22. CASE RollbackPreviousGone
  BY <1>22, <1>s, <1>t, <1>p, ContainerAssumption
     DEF RollbackPreviousGone, notRolledBack, Replacing
<1>23. CASE RollbackStart
  <2>1. /\ Present' = Present /\ NamedService' = NamedService
        /\ op' = op /\ journal' = journal /\ found' = found
    BY <1>23, <1>s, <1>t, <1>p, CallEffects, PresentEffects
       DEF RollbackStart, StartContainer, simple, Replacing
  <2>2. previous \in NamedService /\ journal = previous /\ journal # NoContainer
        /\ ~terminal(op.stage)
    BY <1>23, <1>t, <1>p, ContainerAssumption
       DEF RollbackStart, PreviousKnown, Replacing
  <2>3. QED
    BY <1>u, <2>1, <2>2
<1>24. CASE Finish
  BY <1>24, <1>s, <1>t
     DEF Finish, FinishSuccess, FinishFailed, FinishUnrestored, finish,
         ForgetTransaction
<1>25. CASE NewService
  BY <1>25, <1>s DEF NewService
<1>26. CASE RecoverInterrupted
  <2>1. CASE journal # NoContainer
    BY <1>26, <1>s, <2>1 DEF RecoverInterrupted
  <2>2. CASE journal = NoContainer
    BY <1>26, <1>s, <1>v, <2>2 DEF RecoverInterrupted, persist, Stage
  <2>3. QED
    BY <2>1, <2>2
<1>27. CASE RecoverForget
  BY <1>27, <1>s, <1>t DEF RecoverForget
<1>28. ASSUME NEW from, NEW e, RecoverFinish(from, e)
       PROVE  OnlyNewIsExtra' /\ NothingIsExtra'
  BY <1>28, <1>s DEF RecoverFinish
<1>29. CASE Crash
  BY <1>29, <1>s DEF Crash
<1>30. CASE UNCHANGED vars
  BY <1>30, <1>s DEF vars
<1> HIDE DEF OnlyNewIsExtra, NothingIsExtra, Untouched, StageFollowsPosition,
             docker, disk, memory, history, terminal
<1>31. QED
  BY <1>1, <1>2, <1>3, <1>4, <1>5, <1>6, <1>7, <1>8, <1>9, <1>10, <1>12,
     <1>13, <1>14, <1>15, <1>16, <1>17, <1>18, <1>19, <1>20, <1>21, <1>22,
     <1>23, <1>24, <1>25, <1>26, <1>27, <1>28, <1>29, <1>30
     DEF Next, System, run, Activate, Rollback, Recovery

(* A successful Finalize has exchanged one container for another.          *)
LEMMA NextNoMore ==
  ASSUME ContainerInv, OutageInv, SuccessInv, OrphanInv, [Next]_vars
  PROVE  NoMoreWhenSucceeding'
<1>t. /\ TypeOK /\ NamesFollowStatus /\ UniqueService /\ PreviousKnown
      /\ StageFollowsPosition /\ FinitelyMany
  BY DEF ContainerInv, OutageInv, OrphanInv
<1>1. CASE Finalize
  <2>1. CASE pc' = "succeed"
    <3>1. /\ status' = [status EXCEPT ![previous] = "absent"]
          /\ name' = [name EXCEPT ![previous] = "removed"]
          /\ UNCHANGED found /\ Exists(previous)
      BY <1>1, <2>1 DEF Finalize, Remove, simple, history
    <3>2. previous \in Container /\ journal = previous /\ ~terminal(op.stage)
      BY <1>1, <1>t
         DEF Finalize, PreviousKnown, Replacing, StageFollowsPosition
    <3>3. Present' = Present \ {previous} /\ previous \in Present
      BY <1>t, <3>1, <3>2, PresentEffects DEF Present
    <3>4. PICK c \in NamedService : TRUE
      BY <1>1 DEF Finalize, SuccessInv, InstalledWhenSucceeding
    <3>5. Present \ found.present \subseteq {c} \ {previous}
      BY <1>t, <3>2, <3>4 DEF OrphanInv, OnlyNewIsExtra, UniqueService
    <3> DEFINE T == (found.present \ {previous}) \cup {c}
    <3>6. previous \in found.present /\ Present' \subseteq T
      BY <3>3, <3>5
    <3>7. /\ IsFiniteSet(found.present \ {previous})
          /\ Cardinality(found.present \ {previous})
               = Cardinality(found.present) - 1
          /\ Cardinality(found.present) \in Nat
      BY <1>t, <3>6, FS_RemoveElement, FS_CardinalityType DEF FinitelyMany
    <3>8. IsFiniteSet(T) /\ Cardinality(T) <= Cardinality(found.present)
      <4> DEFINE rest == found.present \ {previous}
      <4>1. /\ IsFiniteSet(rest \cup {c})
            /\ Cardinality(rest \cup {c}) =
                 IF c \in rest THEN Cardinality(rest)
                              ELSE Cardinality(rest) + 1
        BY <3>7, FS_AddElement, Zenon
      <4>2. Cardinality(rest) = Cardinality(found.present) - 1
        BY <3>7
      <4>3. T = rest \cup {c}
        OBVIOUS
      <4> HIDE DEF rest, T
      <4>4. QED
        BY <3>7, <4>1, <4>2, <4>3
    <3>9. Cardinality(Present') <= Cardinality(T)
      BY <3>6, <3>8, FS_Subset
    <3>10. IsFiniteSet(Present') /\ Cardinality(Present') \in Nat
           /\ Cardinality(T) \in Nat
      BY <3>6, <3>8, FS_Subset, FS_CardinalityType
    <3> HIDE DEF T
    <3>11. Cardinality(Present') <= Cardinality(found.present)
      BY <3>7, <3>8, <3>9, <3>10
    <3>12. QED
      BY <3>1, <3>11 DEF NoMoreWhenSucceeding
  <2>2. CASE pc' # "succeed"
    BY <2>2 DEF NoMoreWhenSucceeding
  <2>3. QED
    BY <2>1, <2>2
<1>2. CASE UNCHANGED vars
  <2>1. Present' = Present /\ found' = found /\ pc' = pc
    BY <1>2 DEF vars, docker, history, Present, Exists
  <2>2. QED
    BY <2>1 DEF OrphanInv, NoMoreWhenSucceeding
<1>3. CASE pc' # "succeed"
  BY <1>3 DEF NoMoreWhenSucceeding
<1>4. QED
  <2>1. ASSUME \/ Prepared \/ CheckPreconditions \/ FetchAndBackup \/ Prepare
               \/ ActivateStop \/ ActivateRename \/ ActivateCreate
               \/ ActivateStart \/ SetValidating \/ Validate
        PROVE  pc' # "succeed"
    BY <2>1 DEF Prepared, CheckPreconditions, FetchAndBackup, Prepare,
       ActivateStop, ActivateRename, ActivateCreate, ActivateStart,
       SetValidating, Validate, Stop, Rename, StartContainer, simple
  <2>2. QED
    BY <1>1, <1>2, <1>3, <2>1, OtherPositions

LEMMA NextOrphanInv ==
  ContainerInv /\ OutageInv /\ SuccessInv /\ OrphanInv /\ [Next]_vars
    => OrphanInv'
<1> SUFFICES ASSUME ContainerInv, OutageInv, SuccessInv, OrphanInv,
                    [Next]_vars
             PROVE  OrphanInv'
  OBVIOUS
<1>t. TypeOK /\ FinitelyMany
  BY DEF ContainerInv, OrphanInv
<1>1. FinitelyMany' /\ OnlyNewIsExtra' /\ NothingIsExtra'
  BY NextFinitelyMany, NextExtra DEF OrphanInv
<1>2. EndLeavesNoOrphan'
  <2>u. UNCHANGED <<status, name>> => Present' = Present
    BY DEF Present, Exists
  <2>1. CASE terminal(op.stage)
    <3>1. Present' = Present
      BY <2>1, <2>u, TerminalIsQuiet
    <3>2. CASE Prepared
      BY <3>2 DEF Prepared, EndLeavesNoOrphan
    <3>3. CASE UNCHANGED <<op, found>>
      BY <3>1, <3>3 DEF OrphanInv, EndLeavesNoOrphan
    <3>4. QED
      BY <2>1, <3>2, <3>3, TerminalIsQuiet
  <2>2. CASE ~terminal(op.stage)
    <3>1. CASE terminal(op'.stage) /\ ~op'.rollbackError
      <4>1. Present' = Present /\ found' = found
        BY <1>t, <2>2, <2>u, <3>1, EndingStep
      <4>2. CASE pc = "succeed"
        BY <4>1, <4>2 DEF OrphanInv, NoMoreWhenSucceeding, EndLeavesNoOrphan
      <4>3. CASE \/ pc \in {"fail", "recovery_recorded"}
                 \/ pc = "down" /\ journal = NoContainer
        <5>1. Present \subseteq found.present
          BY <2>2, <4>3 DEF OrphanInv, NothingIsExtra
        <5>2. Cardinality(Present) <= Cardinality(found.present)
          BY <1>t, <5>1, FS_Subset DEF FinitelyMany
        <5>3. QED
          BY <4>1, <5>2 DEF EndLeavesNoOrphan
      <4>4. QED
        BY <1>t, <2>2, <3>1, <4>2, <4>3, EndingStep
    <3>2. CASE ~(terminal(op'.stage) /\ ~op'.rollbackError)
      BY <3>2 DEF EndLeavesNoOrphan, terminal
    <3>3. QED
      BY <3>1, <3>2
  <2>3. QED
    BY <2>1, <2>2
<1>3. QED
  BY <1>1, <1>2, NextNoMore DEF OrphanInv

LEMMA OrphansSafe ==
  Spec => [](ContainerInv /\ OutageInv /\ SuccessInv /\ OrphanInv)
<1>1. ASSUME Init PROVE OrphanInv
  <2>1. Present = {Original}
    BY <1>1, ContainerAssumption DEF Init, Present, Exists
  <2>2. found.present = {Original}
    BY <1>1 DEF Init
  <2>3. FinitelyMany
    BY <2>1, <2>2, FS_Singleton DEF FinitelyMany
  <2>4. QED
    BY <1>1, <2>3 DEF Init, OrphanInv, OnlyNewIsExtra, NothingIsExtra,
       NoMoreWhenSucceeding, EndLeavesNoOrphan, Untouched, terminal
<1>2. QED
  BY <1>1, NextOrphanInv, SuccessesSafe, PTL DEF Spec

(* An operation that ends without a rollback_error leaves no more bridge   *)
(* containers than it found, the images it tried and rejected included.    *)
THEOREM NoOrphans == Spec => []EndLeavesNoOrphan
<1>1. OrphanInv => EndLeavesNoOrphan
  BY DEF OrphanInv
<1>2. QED
  BY OrphansSafe, <1>1, PTL

LEMMA JournalChanges ==
  ASSUME [Next]_vars
  PROVE  \/ journal' = journal
         \/ /\ journal' = NoContainer
            /\ pc \in {"forgetting", "recovered"}
         \/ Prepare /\ journal' = Holder
BY DEF Next, vars, System, run, Activate, Rollback, Finish, Recovery, Crash,
       disk, history, docker, memory, Start, Prepared,
       CheckPreconditions, FetchAndBackup, Prepare, ActivateStop,
       ActivateRename, ActivateUndoStop, ActivateCreate, ActivateStart,
       ActivateDiscard, SetValidating, Validate, Finalize, BeginRollback,
       RollbackFind, RollbackStopNew, RollbackRemoveNew, RollbackRename,
       RollbackInPlace, RollbackPreviousGone, RollbackStart, FinishSuccess,
       FinishFailed, FinishUnrestored, finish, ForgetTransaction, NewService,
       RecoverInterrupted, RecoverForget, RecoverFinish

-----------------------------------------------------------------------------
(***************************************************************************)
(* The updater implements the abstract replacement of the service.  The    *)
(* step that needs an invariant is the one that ends an operation in a     *)
(* plain failure: what serves is then exactly what the operation found,    *)
(* unless an earlier one ended with a rollback_error.  The journal may be  *)
(* a stale one, but then it names a container that still serves or one     *)
(* that is gone, and never another that a rollback could bring back.       *)
(***************************************************************************)
Restorable == found.ended # "unrestored"

JournalOf(container) ==
  journal \in {NoContainer, container} \/ ~Exists(journal)

EndedServing ==
  /\ Restorable => found.serving # NoContainer
  /\ (terminal(op.stage) /\ Outcome # "unrestored")
       => Serving # NoContainer /\ JournalOf(Serving)

BusyJournal ==
  (~terminal(op.stage) /\ Restorable) => JournalOf(found.serving)

RestoredAlready ==
  /\ (~terminal(op.stage) /\ Restorable /\ journal = NoContainer)
       => Serving = found.serving
  /\ (pc \in {"fail", "recovered", "recovery_recorded"} /\ Restorable)
       => Serving = found.serving

RestoreInv == EndedServing /\ BusyJournal /\ RestoredAlready

UpdaterInv == /\ ContainerInv /\ OutageInv /\ SuccessInv /\ OrphanInv
              /\ RestoreInv

(* Nothing brings a container back that is gone.                           *)
LEMMA GoneStaysGone ==
  ASSUME UpdaterInv, [Next]_vars, ~terminal(op.stage),
         journal \in Container, ~Exists(journal), journal' = journal
  PROVE  ~Exists(journal)'
<1>1. /\ TypeOK /\ NamesFollowStatus /\ PreviousKnown
      /\ pc = "creating" => name[previous] = "aside"
  BY DEF UpdaterInv, ContainerInv, SuccessInv, PreviousAside
<1>2. pc = "creating" => Exists(journal)
  BY <1>1 DEF PreviousKnown, NamesFollowStatus, Replacing
<1>3. Present' \subseteq Present
  BY <1>2, PresentStep DEF UpdaterInv
<1>4. QED
  BY <1>3 DEF Present

LEMMA NextBusyJournal ==
  ASSUME UpdaterInv, [Next]_vars
  PROVE  BusyJournal'
<1>t. /\ TypeOK /\ StageFollowsPosition
      /\ EndedServing /\ BusyJournal /\ FoundBeforeStopping
      /\ Holder \in NamedService \/ Holder = NoContainer
  BY HolderIsService
     DEF UpdaterInv, ContainerInv, OutageInv, SuccessInv, RestoreInv
<1>1. CASE terminal(op.stage)
  <2>1. UNCHANGED <<status, name>>
    BY <1>1, TerminalIsQuiet DEF UpdaterInv
  <2>2. CASE Prepared
    <3>1. found'.serving = Serving /\ found'.ended = Outcome /\ journal' = journal
      BY <2>2 DEF Prepared
    <3>2. (found'.ended # "unrestored") => JournalOf(Serving)
      BY <1>1, <1>t, <3>1 DEF EndedServing
    <3>3. JournalOf(Serving) => JournalOf(found.serving)'
      BY <2>1, <3>1 DEF JournalOf, Exists
    <3>4. QED
      BY <3>2, <3>3 DEF BusyJournal, Restorable
  <2>3. CASE UNCHANGED op
    BY <1>1, <2>3 DEF BusyJournal, terminal
  <2>4. QED
    BY <1>1, <2>2, <2>3, TerminalIsQuiet DEF UpdaterInv
<1>2. CASE ~terminal(op.stage)
  <2>1. found' = found
    <3>1. ~Prepared
      BY <1>2, <1>t DEF Prepared, StageFollowsPosition
    <3>2. QED
      BY <3>1, FoundChanges
  <2>2. \/ journal' = journal
        \/ journal' = NoContainer
        \/ Prepare /\ journal' = Holder
    BY JournalChanges
  <2>3. CASE journal' = journal
    <3>1. journal = NoContainer \/ journal \in Container
      BY <1>t DEF TypeOK
    <3>2. CASE journal \in {NoContainer, found.serving}
      BY <2>1, <2>3, <3>2 DEF BusyJournal, JournalOf
    <3>3. CASE journal \in Container /\ ~Exists(journal)
      <4>1. ~Exists(journal)'
        BY <1>2, <2>3, <3>3, GoneStaysGone
      <4>2. QED
        BY <4>1 DEF BusyJournal, JournalOf
    <3>4. QED
      BY <1>2, <1>t, <2>1, <3>1, <3>2, <3>3
         DEF BusyJournal, JournalOf, Restorable
  <2>4. CASE journal' = NoContainer
    BY <2>4 DEF BusyJournal, JournalOf
  <2>5. CASE Prepare /\ journal' = Holder
    <3>1. Serving = found.serving
      BY <1>t, <2>5 DEF Prepare, FoundBeforeStopping, Untouched
    <3>2. Restorable => Serving # NoContainer
      BY <1>t, <3>1 DEF EndedServing
    <3>3. Serving # NoContainer => Holder = Serving
      BY DEF Serving
    <3>4. QED
      BY <2>1, <2>5, <3>1, <3>2, <3>3 DEF BusyJournal, JournalOf, Restorable
  <2>6. QED
    BY <2>2, <2>3, <2>4, <2>5
<1>3. QED
  BY <1>1, <1>2

LEMMA NextEndedServing ==
  ASSUME UpdaterInv, [Next]_vars
  PROVE  EndedServing'
<1>t. /\ TypeOK /\ NamesFollowStatus /\ UniqueService /\ StageFollowsPosition
      /\ EndedServing /\ BusyJournal /\ RestoredAlready /\ SuccessIsServing
      /\ InstalledWhenSucceeding
  BY DEF UpdaterInv, ContainerInv, OutageInv, SuccessInv, RestoreInv
<1>q. UNCHANGED <<status, name>> =>
        /\ Serving' = Serving
        /\ \A c : Exists(c)' <=> Exists(c)
  BY <1>t, CallEffects, ServingSame, ContainerAssumption DEF Exists
<1>1. CASE terminal(op.stage)
  <2>1. UNCHANGED <<status, name>>
    BY <1>1, TerminalIsQuiet DEF UpdaterInv
  <2>2. CASE Prepared
    <3>1. found'.serving = Serving /\ found'.ended = Outcome
          /\ ~terminal(op'.stage)
      BY <2>2 DEF Prepared, terminal
    <3>2. QED
      BY <1>1, <1>t, <3>1 DEF EndedServing, Restorable
  <2>3. CASE UNCHANGED <<op, found>> /\ journal' \in {journal, NoContainer}
    <3>1. Outcome' = Outcome /\ Serving' = Serving
      BY <1>q, <2>1, <2>3 DEF Outcome
    <3>2. JournalOf(Serving) => JournalOf(Serving)'
      BY <1>q, <2>1, <2>3, <3>1 DEF JournalOf
    <3>3. QED
      BY <1>1, <1>t, <2>3, <3>1, <3>2 DEF EndedServing, Restorable
  <2>4. QED
    BY <1>1, <2>2, <2>3, TerminalIsQuiet DEF UpdaterInv
<1>2. CASE ~terminal(op.stage)
  <2>1. found' = found
    <3>1. ~Prepared
      BY <1>2, <1>t DEF Prepared, StageFollowsPosition
    <3>2. QED
      BY <3>1, FoundChanges
  <2>2. CASE terminal(op'.stage)
    <3>1. UNCHANGED <<status, name, journal, validated>>
      BY <1>t, <1>2, <2>2, EndingStep
    <3>2. Serving' = Serving /\ (JournalOf(Serving) => JournalOf(Serving)')
      BY <1>q, <3>1 DEF JournalOf
    <3>3. CASE pc = "succeed"
      <4>1. Serving \in Container /\ JournalOf(Serving)
        BY <1>t, <3>3
           DEF InstalledWhenSucceeding, Installed, JournalOf, TypeOK
      <4>2. QED
        BY <1>t, <2>1, <3>2, <4>1, ContainerAssumption
           DEF EndedServing, Restorable
    <3>4. CASE /\ \/ pc \in {"fail", "recovery_recorded"}
                  \/ pc = "down" /\ journal = NoContainer
               /\ op'.stage = "failed"
      <4>1. Outcome' # "unrestored" => Restorable
        BY <2>1, <3>4 DEF Outcome, Restorable
      <4>2. Restorable => Serving = found.serving
        BY <1>2, <1>t, <3>4 DEF RestoredAlready
      <4>3. Restorable => JournalOf(Serving)
        BY <1>2, <1>t, <4>2 DEF BusyJournal
      <4>4. QED
        BY <1>t, <2>1, <3>2, <4>1, <4>2, <4>3 DEF EndedServing, Restorable
    <3>5. CASE op'.stage = "failed" /\ op'.rollbackError
      BY <1>t, <2>1, <3>5 DEF EndedServing, Restorable, Outcome
    <3>6. QED
      BY <1>t, <1>2, <2>2, <3>3, <3>4, <3>5, EndingStep
  <2>3. CASE ~terminal(op'.stage)
    BY <1>t, <2>1, <2>3 DEF EndedServing, Restorable
  <2>4. QED
    BY <2>2, <2>3
<1>3. QED
  BY <1>1, <1>2

LEMMA DockerChanges ==
  ASSUME [Next]_vars
  PROVE  UNCHANGED <<status, name>> \/ pc \in Replacing
BY DEF Next, vars, System, run, Activate, Rollback, Finish, Recovery, Crash,
       disk, history, docker, memory, Start, Prepared, Replacing,
       CheckPreconditions, FetchAndBackup, Prepare, ActivateStop,
       ActivateRename, ActivateUndoStop, ActivateCreate, ActivateStart,
       ActivateDiscard, SetValidating, Validate, Finalize, BeginRollback,
       RollbackFind, RollbackStopNew, RollbackRemoveNew, RollbackRename,
       RollbackInPlace, RollbackPreviousGone, RollbackStart, FinishSuccess,
       FinishFailed, FinishUnrestored, finish, ForgetTransaction, NewService,
       RecoverInterrupted, RecoverForget, RecoverFinish

(* A rollback reports success only with the previous instance running      *)
(* under the service name.                                                 *)
LEMMA RestoringStep ==
  ASSUME UpdaterInv, [Next]_vars,
         pc' \in {"fail", "recovered", "recovery_recorded"}
  PROVE  \/ /\ UNCHANGED <<status, name>>
            /\ pc \in Untouched \cup {"fail", "recovered", "recovery_recorded"}
         \/ /\ pc \in Replacing
            /\ previous \in (NamedService \cap Running)'
            /\ UNCHANGED <<journal, previous>>
<1>t. TypeOK /\ NamesFollowStatus /\ PreviousKnown
  BY DEF UpdaterInv, ContainerInv
<1> DEFINE P ==
      \/ /\ UNCHANGED <<status, name>>
         /\ pc \in Untouched \cup {"fail", "recovered", "recovery_recorded"}
      \/ /\ pc \in Replacing
         /\ previous \in (NamedService \cap Running)'
         /\ UNCHANGED <<journal, previous>>
<1> USE DEF docker, disk, memory, history
<1>1. CASE \E r \in Request : Start(r)
  BY <1>1 DEF Start
<1>2. CASE run
  <2>1. CASE CheckPreconditions \/ FetchAndBackup \/ Prepare
    BY <2>1 DEF CheckPreconditions, FetchAndBackup, Prepare, Untouched
  <2>2. CASE Activate
    BY <2>2 DEF Activate, ActivateStop, ActivateRename, ActivateUndoStop,
       ActivateCreate, ActivateStart, ActivateDiscard, Stop, Rename,
       StartContainer, Remove, simple
  <2>3. CASE Prepared \/ SetValidating \/ Validate \/ Finalize
    BY <2>3 DEF Prepared, SetValidating, Validate, Finalize, Remove, simple
  <2>4. QED
    BY <1>2, <2>1, <2>2, <2>3 DEF run
<1>3. CASE Rollback
  <2> USE DEF rolledBack, notRolledBack, Replacing
  <2>n. pc \in Replacing => previous \in Container
    BY <1>t DEF PreviousKnown
  <2>1. CASE \/ BeginRollback \/ RollbackFind \/ RollbackStopNew
             \/ RollbackRemoveNew \/ RollbackPreviousGone
    BY <2>1 DEF BeginRollback, RollbackFind, RollbackStopNew,
                RollbackRemoveNew, RollbackPreviousGone, Stop, Remove, simple
  <2>2. CASE RollbackRename
    <3>1. /\ pc = "restoring" /\ UNCHANGED <<journal, previous>>
          /\ Exists(previous) /\ previous \in Container
      BY <2>2, <2>n DEF RollbackRename
    <3>2. /\ status' = status
          /\ name' = [name EXCEPT ![previous] = "service"]
          /\ previous \in Running
      BY <2>2 DEF RollbackRename, Rename, simple
    <3>3. /\ NamedService' = NamedService \cup {previous}
          /\ Running' = Running
      BY <1>t, <3>1, <3>2, CallEffects
    <3>4. QED
      BY <3>1, <3>2, <3>3
  <2>3. CASE RollbackInPlace
    <3>1. /\ pc = "restoring" /\ UNCHANGED <<journal, previous, status, name>>
          /\ previous \in Running /\ previous \in Container
          /\ Exists(previous) /\ name[previous] = "service"
      BY <2>3, <2>n DEF RollbackInPlace
    <3>2. QED
      BY <3>1 DEF NamedService, Running, Exists
  <2>4. CASE RollbackStart
    <3>1. /\ pc = "restarting_previous" /\ UNCHANGED <<journal, previous>>
          /\ previous \in NamedService /\ previous \in Container
      BY <2>4, <2>n, <1>t DEF RollbackStart, PreviousKnown
    <3>2. /\ status' = [status EXCEPT ![previous] = "running"]
          /\ name' = name /\ status[previous] = "stopped"
      BY <2>4 DEF RollbackStart, StartContainer, simple
    <3>3. NamedService' = NamedService /\ Running' = Running \cup {previous}
      BY <1>t, <3>1, <3>2, CallEffects
    <3>4. QED
      BY <3>1, <3>3
  <2>5. QED
    BY <1>3, <2>1, <2>2, <2>3, <2>4 DEF Rollback
<1>4. CASE Finish
  BY <1>4 DEF Finish, FinishSuccess, FinishFailed, FinishUnrestored, finish,
              ForgetTransaction
<1>5. CASE Recovery
  BY <1>5 DEF Recovery, NewService, RecoverInterrupted, RecoverForget,
              RecoverFinish
<1>6. CASE Crash \/ UNCHANGED vars
  BY <1>6 DEF Crash, vars
<1>7. QED
  BY <1>1, <1>2, <1>3, <1>4, <1>5, <1>6 DEF Next, System

LEMMA NextRestoredAlready ==
  ASSUME UpdaterInv, [Next]_vars
  PROVE  RestoredAlready'
<1>t. /\ TypeOK /\ NamesFollowStatus /\ UniqueService /\ PreviousKnown
      /\ StageFollowsPosition /\ FoundBeforeStopping /\ RestoredAlready
      /\ TypeOK' /\ UniqueService' /\ StageFollowsPosition' /\ BusyJournal'
  BY NextTypeOK, NextPlacement, NextOutageInv, NextBusyJournal
     DEF UpdaterInv, ContainerInv, OutageInv, SuccessInv, RestoreInv, Placement
<1>q. UNCHANGED <<status, name>> => Serving' = Serving
  BY <1>t, CallEffects, ServingSame, ContainerAssumption
<1>1. CASE Prepared
  BY <1>1, <1>q DEF Prepared, RestoredAlready, docker
<1>2. CASE ~Prepared /\ terminal(op.stage)
  <2>1. terminal(op'.stage)
    BY <1>2, TerminalIsQuiet DEF UpdaterInv
  <2>2. pc' \notin {"fail", "recovered", "recovery_recorded"}
    BY <1>t, <2>1 DEF StageFollowsPosition
  <2>3. QED
    BY <2>1, <2>2 DEF RestoredAlready
<1>3. CASE ~Prepared /\ ~terminal(op.stage)
  <2>1. found' = found
    BY <1>3, FoundChanges
  <2>2. ASSUME Restorable', journal' = NoContainer
        PROVE  Serving' = found'.serving
    <3>1. CASE journal' = journal
      <4>1. UNCHANGED <<status, name>>
        BY <1>t, <2>2, <3>1, DockerChanges, ContainerAssumption
           DEF PreviousKnown
      <4>2. QED
        BY <1>3, <1>t, <1>q, <2>1, <2>2, <3>1, <4>1
           DEF RestoredAlready, Restorable
    <3>2. CASE pc \in {"forgetting", "recovered"}
      <4>1. pc = "recovered"
        BY <1>3, <1>t, <3>2 DEF StageFollowsPosition
      <4>2. UNCHANGED <<status, name>>
        BY <4>1, DockerChanges DEF Replacing
      <4>3. QED
        BY <1>t, <1>q, <2>1, <2>2, <4>1, <4>2 DEF RestoredAlready, Restorable
    <3>3. CASE Prepare /\ journal' = Holder
      BY <2>2, <3>3, <1>q, <1>t, <2>1
         DEF Prepare, docker, FoundBeforeStopping, Untouched
    <3>4. QED
      BY <3>1, <3>2, <3>3, JournalChanges
  <2>3. ASSUME Restorable', pc' \in {"fail", "recovered", "recovery_recorded"}
        PROVE  Serving' = found'.serving
    <3>1. CASE /\ UNCHANGED <<status, name>>
               /\ pc \in Untouched \cup {"fail", "recovered", "recovery_recorded"}
      BY <1>t, <1>q, <2>1, <2>3, <3>1
         DEF RestoredAlready, FoundBeforeStopping, Restorable
    <3>2. CASE /\ pc \in Replacing
               /\ previous \in (NamedService \cap Running)'
               /\ UNCHANGED <<journal, previous>>
      <4>1. journal' = previous /\ previous \in Container
        BY <1>t, <3>2 DEF PreviousKnown
      <4>2. Exists(journal)'
        BY <3>2, <4>1 DEF NamedService, Exists
      <4>3. ~terminal(op'.stage)
        BY <1>t, <2>3 DEF StageFollowsPosition
      <4>4. previous = found'.serving
        BY <1>t, <2>3, <4>1, <4>2, <4>3, ContainerAssumption
           DEF BusyJournal, JournalOf
      <4>5. Serving' = previous
        BY <1>t, <3>2 DEF UniqueService, Serving, Holder
      <4>6. QED
        BY <4>4, <4>5
    <3>3. QED
      BY <2>3, <3>1, <3>2, RestoringStep
  <2>4. QED
    BY <2>2, <2>3 DEF RestoredAlready
<1>4. QED
  BY <1>1, <1>2, <1>3

LEMMA UpdaterSafe == Spec => []UpdaterInv
<1>1. ASSUME Init PROVE RestoreInv
  <2>1. /\ NamedService = {Original} /\ Running = {Original}
        /\ Original # NoContainer
    BY <1>1, ContainerAssumption DEF Init, NamedService, Running, Exists
  <2>2. Serving = Original
    BY <2>1 DEF Serving, Holder
  <2>3. QED
    BY <1>1, <2>1, <2>2
       DEF Init, RestoreInv, EndedServing, BusyJournal, RestoredAlready,
           JournalOf, Restorable
<1>2. UpdaterInv /\ [Next]_vars => RestoreInv'
  BY NextEndedServing, NextBusyJournal, NextRestoredAlready DEF RestoreInv
<1>3. UpdaterInv <=> /\ ContainerInv /\ OutageInv /\ SuccessInv /\ OrphanInv
                     /\ RestoreInv
  BY DEF UpdaterInv
<1>4. QED
  BY <1>1, <1>2, <1>3, OrphansSafe, PTL DEF Spec

(* Every step of the updater begins, installs, aborts or loses an update,  *)
(* or changes nothing that is seen of it from outside.                     *)
LEMMA AbstractStep ==
  ASSUME UpdaterInv, [Next]_vars
  PROVE  \/ Abstract!AbstractNext
         \/ UNCHANGED <<IF terminal(op.stage) THEN "idle" ELSE "busy",
                        IF terminal(op.stage) THEN Serving ELSE found.serving,
                        Outcome>>
<1> DEFINE phase == IF terminal(op.stage) THEN "idle" ELSE "busy"
           serving == IF terminal(op.stage) THEN Serving ELSE found.serving
<1>t. /\ TypeOK /\ NamesFollowStatus /\ UniqueService /\ StageFollowsPosition
      /\ OutageInv /\ SuccessInv /\ RestoreInv
      /\ TypeOK'
  BY NextTypeOK DEF UpdaterInv, ContainerInv, OutageInv
<1>q. UNCHANGED <<status, name>> => Serving' = Serving
  BY <1>t, CallEffects, ServingSame, ContainerAssumption
<1>s. Serving \in Container \cup {NoContainer}
  BY HolderIsService DEF Serving, NamedService
<1>u. Serving # NoContainer <=> Up
  BY <1>t, ServingIsUp
<1>1. CASE terminal(op.stage)
  <2>1. Serving' = Serving
    BY <1>1, <1>q, <1>t, TerminalIsQuiet
  <2>2. CASE Prepared
    <3>1. /\ ~terminal(op'.stage) /\ found'.serving = Serving
          /\ found'.ended = Outcome
          /\ op'.stage = "preparing"
      BY <2>2 DEF Prepared, terminal
    <3>2. Outcome' = Outcome
      BY <3>1 DEF Outcome
    <3>3. Abstract!Begin
      BY <1>1, <3>1, <3>2 DEF Abstract!Begin
    <3>4. QED
      BY <3>3 DEF Abstract!AbstractNext
  <2>3. CASE UNCHANGED <<op, found>>
    <3>1. Outcome' = Outcome
      BY <2>3 DEF Outcome
    <3>2. QED
      BY <1>1, <2>1, <2>3, <3>1
  <2>4. QED
    BY <1>1, <1>t, <2>2, <2>3, TerminalIsQuiet
<1>2. CASE ~terminal(op.stage)
  <2>1. found' = found
    <3>1. ~Prepared
      BY <1>2, <1>t DEF Prepared, StageFollowsPosition
    <3>2. QED
      BY <3>1, FoundChanges
  <2>2. Outcome = found.ended
    BY <1>2 DEF Outcome, terminal
  <2>3. CASE ~terminal(op'.stage)
    <3>1. Outcome' = found'.ended
      BY <2>3 DEF Outcome, terminal
    <3>2. QED
      BY <1>2, <2>1, <2>2, <2>3, <3>1
  <2>4. CASE terminal(op'.stage)
    <3>1. Serving' = Serving
      BY <1>2, <1>q, <1>t, <2>4, EndingStep
    <3>2. CASE pc = "succeed" /\ op'.stage = "success"
      <4>1. Outcome' = "installed"
        BY <3>2 DEF Outcome
      <4>2. Serving \in Container /\ Serving # found.serving
        BY <1>t, <3>2
           DEF SuccessInv, InstalledWhenSucceeding, Installed, TypeOK
      <4>3. Abstract!Install
        BY <1>2, <2>4, <3>1, <4>1, <4>2 DEF Abstract!Install
      <4>4. QED
        BY <4>3 DEF Abstract!AbstractNext
    <3>3. CASE Outcome' = "unrestored" /\ op'.stage = "failed"
      <4>1. Abstract!Lose
        BY <1>2, <1>s, <2>4, <3>1, <3>3 DEF Abstract!Lose
      <4>2. QED
        BY <4>1 DEF Abstract!AbstractNext
    <3>4. CASE /\ \/ pc \in {"fail", "recovery_recorded"}
                  \/ pc = "down" /\ journal = NoContainer
               /\ op'.stage = "failed"
               /\ Outcome' # "unrestored"
      <4>1. Outcome' = Outcome /\ Restorable
        BY <2>1, <2>2, <3>4 DEF Outcome, Restorable
      <4>2. Serving = found.serving
        BY <1>2, <1>t, <3>4, <4>1 DEF RestoreInv, RestoredAlready
      <4>3. Abstract!Abort
        BY <1>2, <2>4, <3>1, <4>1, <4>2 DEF Abstract!Abort
      <4>4. QED
        BY <4>3 DEF Abstract!AbstractNext
    <3>5. QED
      <4>1. op'.stage = "failed" /\ op'.rollbackError
              => Outcome' = "unrestored"
        BY DEF Outcome
      <4>2. QED
        BY <1>2, <1>t, <2>4, <3>2, <3>3, <3>4, <4>1, EndingStep
  <2>5. QED
    BY <2>3, <2>4
<1>3. QED
  BY <1>1, <1>2

(***************************************************************************)
(* Seen between operations, an update installs another container, leaves   *)
(* the one it found, or says that it could not restore it.                 *)
(***************************************************************************)
THEOREM UpdateIsReplacement == Spec => AbstractUpdate
<1>1. ASSUME Init PROVE Abstract!AbstractInit
  <2>1. /\ NamedService = {Original} /\ Running = {Original}
        /\ Original \in Container
    BY <1>1, ContainerAssumption DEF Init, NamedService, Running, Exists
  <2>2. Serving = Original
    BY <2>1 DEF Serving, Holder
  <2>3. QED
    BY <1>1, <2>1, <2>2 DEF Init, Abstract!AbstractInit, terminal, Outcome
<1>2. UpdaterInv /\ [Next]_vars =>
        [Abstract!AbstractNext]_<<
          IF terminal(op.stage) THEN "idle" ELSE "busy",
          IF terminal(op.stage) THEN Serving ELSE found.serving,
          Outcome>>
  BY AbstractStep
<1>3. QED
  BY <1>1, <1>2, UpdaterSafe, PTL
     DEF Spec, AbstractUpdate, Abstract!AbstractSpec
=============================================================================
