------------------------------ MODULE Updater ------------------------------
(***************************************************************************)
(* The isolated updater process (updater/service.go) together with the     *)
(* Docker supervisor it drives (updater/docker.go): one update operation,  *)
(* Docker call by Docker call, its two journals on disk, the crash of the  *)
(* updater between any two steps, and the recovery NewService performs.    *)
(*                                                                         *)
(* A Docker call may be refused (no effect, an error) or its answer may be *)
(* lost (effect, an error).  Reads of Docker that precede a change are     *)
(* taken together with it: nobody else changes these containers.           *)
(***************************************************************************)
EXTENDS Naturals, Sequences, FiniteSets

CONSTANTS Container,     \* container IDs Docker may hand out
          Original,      \* the bridge container of the first installation
          NoContainer,   \* "no container", an empty ID
          Request,       \* request_id values of the callers
          Remembered,    \* how many request ids are kept (50 in the code)
          MaxOperations, \* bound: operations started
          MaxCrashes,    \* bound: crashes of the updater
          MaxFaults      \* bound: Docker calls that fail although possible

ASSUME ContainerAssumption ==
  /\ Original \in Container
  /\ NoContainer \notin Container
ASSUME BoundAssumption ==
  /\ Remembered \in Nat \ {0}
  /\ MaxOperations \in Nat
  /\ MaxCrashes \in Nat
  /\ MaxFaults \in Nat

VARIABLES
  status,    \* Docker: what each container is doing
  name,      \* Docker: the name each container has
  op,        \* update-operation.json (Service.operation is its copy)
  journal,   \* update-transaction.json: the previous instance, if any
  used,      \* update-request-ids.json (usedIDs and usedSet are its copy)
  pc,        \* where the updater is; "down" when it is not running
  previous,  \* replacement.PreviousInstance of the run or the recovery
  booting,   \* the rollback under way belongs to recoverInterrupted
  crashes, faults,
  found,     \* history: what served and existed when it began,
             \* and how the last one before it that did not abort ended
  validated, \* history: containers that passed health and version checks
  admitted   \* history: request ids of the operations, in order

docker  == <<status, name>>
disk    == <<op, journal, used>>
memory  == <<previous, booting>>
history == <<found, validated, admitted>>
vars    == <<docker, disk, memory, pc, crashes, faults, history>>

Stage == {"idle", "preparing", "pulling", "backing_up", "restarting",
          "validating", "success", "rollback", "failed"}

terminal(stage) == stage \in {"idle", "success", "failed"}

Exists(c) == status[c] # "absent"
Present   == {c \in Container : Exists(c)}

(* How the last operation that did not abort ended.                        *)
Outcome ==
  CASE op.stage = "success" -> "installed"
    [] op.stage = "failed" /\ op.rollbackError -> "unrestored"
    [] OTHER -> found.ended

(* The containers that answer to replacement.ServiceName: Docker keeps     *)
(* names unique, so there is at most one.                                  *)
NamedService == {c \in Container : Exists(c) /\ name[c] = "service"}

Running == {c \in Container : status[c] = "running"}

Holder  == IF NamedService = {} THEN NoContainer
           ELSE CHOOSE c \in NamedService : TRUE
Serving == IF Holder \in Running THEN Holder ELSE NoContainer

Init ==
  /\ status = [c \in Container |->
                 IF c = Original THEN "running" ELSE "absent"]
  /\ name = [c \in Container |->
               IF c = Original THEN "service" ELSE "unused"]
  /\ op = [stage |-> "idle", rollbackError |-> FALSE]
  /\ journal = NoContainer
  /\ used = <<>>
  /\ pc = "ready"
  /\ previous = NoContainer
  /\ booting = FALSE
  /\ crashes = 0
  /\ faults = 0
  /\ found = [serving |-> Original, present |-> {Original},
              ended |-> "none"]
  /\ validated = {}
  /\ admitted = <<>>

-----------------------------------------------------------------------------
(* Docker API calls                                                        *)

(* A call that would leave the containers in (newStatus, newName) if       *)
(* `possible`, after which the updater is at onSuccess or onError.  A      *)
(* fault refuses the call or loses its answer.                             *)
simple(possible, newStatus, newName, onSuccess, onError) ==
  \/ /\ possible
     /\ status' = newStatus
     /\ name' = newName
     /\ pc' = onSuccess
     /\ UNCHANGED faults
  \/ /\ ~possible
     /\ pc' = onError
     /\ UNCHANGED <<docker, faults>>
  \/ /\ faults < MaxFaults
     /\ faults' = faults + 1
     /\ pc' = onError
     /\ \/ UNCHANGED docker
        \/ /\ possible
           /\ status' = newStatus
           /\ name' = newName

(* Stopping an idle container or starting a running one answers 304, which *)
(* the client takes for an error.                                          *)
Stop(c, onSuccess, onError) ==
  simple(status[c] = "running", [status EXCEPT ![c] = "stopped"], name,
         onSuccess, onError)

StartContainer(c, onSuccess, onError) ==
  simple(status[c] = "stopped", [status EXCEPT ![c] = "running"], name,
         onSuccess, onError)

Remove(c, onSuccess, onError) ==
  simple(Exists(c), [status EXCEPT ![c] = "absent"],
         [name EXCEPT ![c] = "removed"], onSuccess, onError)

Rename(c, new, onSuccess, onError) ==
  simple(Exists(c) /\ (new = "service" => NamedService = {}), status,
         [name EXCEPT ![c] = new], onSuccess, onError)

-----------------------------------------------------------------------------
(* Start and run                                                           *)

persist(stage) == op' = [op EXCEPT !.stage = stage]

(* Mutant: the request id is recorded but never looked up.                 *)
Mutant_Start(r) ==
  /\ pc = "ready"
  /\ Len(admitted) < MaxOperations
  /\ used' = Append(used, r)
  /\ admitted' = Append(admitted, r)
  /\ pc' = "admitted"
  /\ UNCHANGED <<docker, op, journal, memory, crashes, faults, found, validated>>

(* Start: one operation at a time, an id only once among those remembered; *)
(* the id is on disk before the operation is.                              *)
Start(r) ==
  /\ pc = "ready"
  /\ Len(admitted) < MaxOperations
  /\ \A i \in 1..Len(used) : used[i] # r
  /\ used' = LET ids == Append(used, r)
             IN  IF Len(ids) > Remembered THEN Tail(ids) ELSE ids
  /\ admitted' = Append(admitted, r)
  /\ pc' = "admitted"
  /\ UNCHANGED <<docker, op, journal, memory, crashes, faults, found, validated>>

Prepared ==
  /\ pc = "admitted"
  /\ op' = [stage |-> "preparing", rollbackError |-> FALSE]
  /\ found' = [serving |-> Serving, present |-> Present, ended |-> Outcome]
  /\ previous' = NoContainer
  /\ pc' = "checking"
  /\ UNCHANGED <<docker, journal, used, booting, crashes, faults,
                 validated, admitted>>

(* Free space, registry and CurrentArtifact, then the pull, then the       *)
(* backup: each can fail for reasons of its own and changes no container.  *)
CheckPreconditions ==
  /\ pc = "checking"
  /\ \/ /\ Holder # NoContainer
        /\ persist("pulling")
        /\ pc' = "pulling"
     \/ /\ pc' = "fail"
        /\ UNCHANGED op
  /\ UNCHANGED <<docker, journal, used, memory, crashes, faults, history>>

FetchAndBackup ==
  /\ \/ /\ pc = "pulling"
        /\ persist("backing_up")
        /\ pc' = "backing_up"
     \/ /\ pc = "backing_up"
        /\ persist("restarting")
        /\ pc' = "preparing"
     \/ /\ pc \in {"pulling", "backing_up"}
        /\ pc' = "fail"
        /\ UNCHANGED op
  /\ UNCHANGED <<docker, journal, used, memory, crashes, faults, history>>

(* Mutant: the transaction is not journalled before Activate.              *)
Mutant_Prepare ==
  /\ pc = "preparing"
  /\ \/ /\ Holder # NoContainer
        /\ previous' = Holder
        /\ pc' = "stopping"
     \/ /\ pc' = "fail"
        /\ UNCHANGED previous
  /\ UNCHANGED <<docker, disk, booting, crashes, faults, history>>

(* Prepare names the instance to be replaced, persistTransaction records   *)
(* it; neither touches a container.                                        *)
Prepare ==
  /\ pc = "preparing"
  /\ \/ /\ Holder # NoContainer
        /\ previous' = Holder
        /\ journal' = Holder
        /\ pc' = "stopping"
     \/ /\ pc' = "fail"
        /\ UNCHANGED <<previous, journal>>
  /\ UNCHANGED <<docker, op, used, booting, crashes, faults, history>>

(* Mutant: Activate ignores the error of the stop call.                    *)
Mutant_ActivateStop ==
  /\ pc = "stopping"
  /\ Stop(previous, "renaming", "renaming")
  /\ UNCHANGED <<disk, memory, crashes, history>>

(* Activate                                                                *)
ActivateStop ==
  /\ pc = "stopping"
  /\ Stop(previous, "renaming", "rollback")
  /\ UNCHANGED <<disk, memory, crashes, history>>

ActivateRename ==
  /\ pc = "renaming"
  /\ Rename(previous, "aside", "creating", "undo_stop")
  /\ UNCHANGED <<disk, memory, crashes, history>>

ActivateUndoStop ==
  /\ pc = "undo_stop"
  /\ StartContainer(previous, "rollback", "rollback")
  /\ UNCHANGED <<disk, memory, crashes, history>>

ActivateCreate ==
  /\ pc = "creating"
  /\ \E c \in Container :
       /\ name[c] = "unused"
       /\ simple(NamedService = {}, [status EXCEPT ![c] = "stopped"],
                 [name EXCEPT ![c] = "service"], "starting", "rollback")
  /\ UNCHANGED <<disk, memory, crashes, history>>

ActivateStart ==
  /\ pc = "starting"
  /\ StartContainer(Holder, "activated", "discarding")
  /\ UNCHANGED <<disk, memory, crashes, history>>

ActivateDiscard ==
  /\ pc = "discarding"
  /\ Remove(Holder, "rollback", "rollback")
  /\ UNCHANGED <<disk, memory, crashes, history>>

SetValidating ==
  /\ pc = "activated"
  /\ persist("validating")
  /\ pc' = "validating"
  /\ UNCHANGED <<docker, journal, used, memory, crashes, faults, history>>

(* Mutant: a health check that times out passes.                           *)
Mutant_Validate ==
  /\ pc = "validating"
  /\ pc' = "finalizing"
  /\ UNCHANGED <<docker, disk, memory, crashes, faults, history>>

(* WaitHealthy and VerifyVersion: the new bridge passes both or not.       *)
Validate ==
  /\ pc = "validating"
  /\ \/ /\ Holder \in Running
        /\ validated' = validated \cup {Holder}
        /\ pc' = "finalizing"
     \/ /\ pc' = "rollback"
        /\ UNCHANGED validated
  /\ UNCHANGED <<docker, disk, memory, crashes, faults, found, admitted>>

(* Mutant: an error of Finalize is ignored.                                *)
Mutant_Finalize ==
  /\ pc = "finalizing"
  /\ Remove(previous, "succeed", "succeed")
  /\ UNCHANGED <<disk, memory, crashes, history>>

Finalize ==
  /\ pc = "finalizing"
  /\ Remove(previous, "succeed", "rollback")
  /\ UNCHANGED <<disk, memory, crashes, history>>

-----------------------------------------------------------------------------
(* Rollback, for run and for recoverInterrupted                            *)

(* Mutant: a failed validation is reported without rolling back.           *)
Mutant_BeginRollback ==
  /\ pc = "rollback"
  /\ persist("rollback")
  /\ pc' = "fail"
  /\ UNCHANGED <<docker, journal, used, memory, crashes, faults, history>>

BeginRollback ==
  /\ pc = "rollback"
  /\ persist("rollback")
  /\ pc' = "finding"
  /\ UNCHANGED <<docker, journal, used, memory, crashes, faults, history>>

(* Mutant: the error of Rollback is dropped.                               *)
Mutant_notRolledBack == IF booting THEN "recovered" ELSE "fail"

rolledBack    == IF booting THEN "recovered" ELSE "fail"
notRolledBack == IF booting THEN "unrecovered" ELSE "fail_unrestored"

(* Whatever answers to the service name and is not the previous instance   *)
(* has to go; an unanswered inspect leaves it alone.                       *)
RollbackFind ==
  /\ pc = "finding"
  /\ \/ /\ Holder \notin {NoContainer, previous}
        /\ pc' = "stopping_new"
        /\ UNCHANGED faults
     \/ /\ Holder \in {NoContainer, previous}
        /\ pc' = "restoring"
        /\ UNCHANGED faults
     \/ /\ faults < MaxFaults
        /\ faults' = faults + 1
        /\ pc' = "restoring"
  /\ UNCHANGED <<docker, disk, memory, crashes, history>>

RollbackStopNew ==
  /\ pc = "stopping_new"
  /\ Stop(Holder, "removing_new", "removing_new")
  /\ UNCHANGED <<disk, memory, crashes, history>>

RollbackRemoveNew ==
  /\ pc = "removing_new"
  /\ Remove(Holder, "restoring", notRolledBack)
  /\ UNCHANGED <<disk, memory, crashes, history>>

RollbackRename ==
  /\ pc = "restoring"
  /\ Exists(previous)
  /\ name[previous] # "service"
  /\ Rename(previous, "service",
            IF previous \in Running THEN rolledBack ELSE "restarting_previous",
            notRolledBack)
  /\ UNCHANGED <<disk, memory, crashes, history>>

RollbackInPlace ==
  /\ pc = "restoring"
  /\ Exists(previous)
  /\ name[previous] = "service"
  /\ \/ /\ pc' = IF previous \in Running THEN rolledBack
                                         ELSE "restarting_previous"
        /\ UNCHANGED faults
     \/ /\ faults < MaxFaults
        /\ faults' = faults + 1
        /\ pc' = notRolledBack
  /\ UNCHANGED <<docker, disk, memory, crashes, history>>

RollbackPreviousGone ==
  /\ pc = "restoring"
  /\ ~Exists(previous)
  /\ pc' = notRolledBack
  /\ UNCHANGED <<docker, disk, memory, crashes, faults, history>>

RollbackStart ==
  /\ pc = "restarting_previous"
  /\ StartContainer(previous, rolledBack, notRolledBack)
  /\ UNCHANGED <<disk, memory, crashes, history>>

-----------------------------------------------------------------------------
(* finish: the outcome is on disk first, then the journal is removed       *)

finish(from, stage, rollbackError, next) ==
  /\ pc = from
  /\ op' = [stage |-> stage, rollbackError |-> rollbackError]
  /\ pc' = next
  /\ UNCHANGED <<docker, journal, used, memory, crashes, faults, history>>

FinishSuccess    == finish("succeed", "success", FALSE, "forgetting")
FinishFailed     == finish("fail", "failed", FALSE, "forgetting")
FinishUnrestored == finish("fail_unrestored", "failed", TRUE, "ready")

ForgetTransaction ==
  /\ pc = "forgetting"
  /\ journal' = NoContainer
  /\ pc' = "ready"
  /\ UNCHANGED <<docker, op, used, memory, crashes, faults, history>>

-----------------------------------------------------------------------------
(* Crash, NewService and recoverInterrupted                                *)

Crash ==
  /\ pc # "down"
  /\ crashes < MaxCrashes
  /\ crashes' = crashes + 1
  /\ pc' = "down"
  /\ previous' = NoContainer
  /\ booting' = FALSE
  /\ UNCHANGED <<docker, disk, faults, history>>

NewService ==
  /\ pc = "down"
  /\ terminal(op.stage)
  /\ pc' = "ready"
  /\ UNCHANGED <<docker, disk, memory, crashes, faults, history>>

(* Mutant: an operation without a journal stays as it is on disk.          *)
Mutant_RecoverInterrupted ==
  /\ pc = "down"
  /\ ~terminal(op.stage)
  /\ \/ /\ journal # NoContainer
        /\ persist("rollback")
        /\ previous' = journal
        /\ booting' = TRUE
        /\ pc' = "finding"
     \/ /\ journal = NoContainer
        /\ pc' = "ready"
        /\ UNCHANGED <<op, memory>>
  /\ UNCHANGED <<docker, journal, used, crashes, faults, history>>

RecoverInterrupted ==
  /\ pc = "down"
  /\ ~terminal(op.stage)
  /\ \/ /\ journal # NoContainer
        /\ persist("rollback")
        /\ previous' = journal
        /\ booting' = TRUE
        /\ pc' = "finding"
     \/ /\ journal = NoContainer
        /\ persist("failed")
        /\ pc' = "ready"
        /\ UNCHANGED memory
  /\ UNCHANGED <<docker, journal, used, crashes, faults, history>>

(* Unlike finish, recovery removes the journal before it persists.         *)
RecoverForget ==
  /\ pc = "recovered"
  /\ journal' = NoContainer
  /\ pc' = "recovery_recorded"
  /\ UNCHANGED <<docker, op, used, memory, crashes, faults, history>>

(* Mutant: recovery leaves the operation in a stage nobody knows.          *)
Mutant_RecoverFinish(from, rollbackError) ==
  /\ pc = from
  /\ op' = [stage |-> "recovered", rollbackError |-> rollbackError]
  /\ booting' = FALSE
  /\ pc' = "ready"
  /\ UNCHANGED <<docker, journal, used, previous, crashes, faults, history>>

RecoverFinish(from, rollbackError) ==
  /\ pc = from
  /\ op' = [stage |-> "failed", rollbackError |-> rollbackError]
  /\ booting' = FALSE
  /\ pc' = "ready"
  /\ UNCHANGED <<docker, journal, used, previous, crashes, faults, history>>

-----------------------------------------------------------------------------
Activate == \/ ActivateStop \/ ActivateRename \/ ActivateUndoStop
            \/ ActivateCreate \/ ActivateStart \/ ActivateDiscard

run == \/ Prepared \/ CheckPreconditions \/ FetchAndBackup \/ Prepare
       \/ Activate \/ SetValidating \/ Validate \/ Finalize

Rollback == \/ BeginRollback \/ RollbackFind \/ RollbackStopNew
            \/ RollbackRemoveNew \/ RollbackRename \/ RollbackInPlace
            \/ RollbackPreviousGone \/ RollbackStart

Finish == FinishSuccess \/ FinishFailed \/ FinishUnrestored \/ ForgetTransaction

Recovery == \/ NewService \/ RecoverInterrupted \/ RecoverForget
            \/ RecoverFinish("recovery_recorded", FALSE)
            \/ RecoverFinish("unrecovered", TRUE)

System == run \/ Rollback \/ Finish \/ Recovery

Next == (\E r \in Request : Start(r)) \/ System \/ Crash

Spec == Init /\ [][Next]_vars

(* An admitted operation runs on (every call has a timeout), and Docker's  *)
(* restart policy brings a crashed updater back; nobody has to start an    *)
(* operation, and nothing has to crash.                                    *)
FairSpec == Spec /\ WF_vars(System)

-----------------------------------------------------------------------------
(* Properties                                                              *)

Position ==
  {"down", "ready", "admitted", "checking", "pulling", "backing_up",
   "preparing", "stopping", "renaming", "undo_stop", "creating", "starting",
   "discarding", "activated", "validating", "finalizing", "rollback",
   "finding", "stopping_new", "removing_new", "restoring",
   "restarting_previous", "succeed", "fail", "fail_unrestored", "forgetting",
   "recovered", "recovery_recorded", "unrecovered"}

(* The type of every variable of the updater and of Docker's containers.   *)
TypeOK ==
  /\ status \in [Container -> {"absent", "stopped", "running"}]
  /\ name \in [Container -> {"unused", "service", "aside", "removed"}]
  /\ op \in [stage : Stage, rollbackError : BOOLEAN]
  /\ journal \in Container \cup {NoContainer}
  /\ used \in Seq(Request)
  /\ pc \in Position
  /\ previous \in Container \cup {NoContainer}
  /\ booting \in BOOLEAN
  /\ crashes \in Nat
  /\ faults \in Nat
  /\ found \in [serving : Container \cup {NoContainer},
                present : SUBSET Container,
                ended : {"none", "installed", "unrestored"}]
  /\ validated \subseteq Container
  /\ admitted \in Seq(Request)

(* Two bridges never run at once, whichever Docker calls fail and wherever *)
(* the updater crashes: Activate stops before it starts, Rollback removes  *)
(* before it restarts, and Docker's unique names catch the rest.           *)
OneBridgeRunning == \A c, d \in Running : c = d

(* When a failed operation carries no rollback_error, a bridge that served *)
(* before it is serving again: no outage is reported as a plain failure.   *)
OutageIsReported ==
  (op.stage = "failed" /\ ~op.rollbackError /\ found.serving # NoContainer)
    => Serving # NoContainer

(* "success" means that the container that serves is not the one that did, *)
(* that it passed health and version checks, and that the old one is gone. *)
SuccessIsServing ==
  op.stage = "success" => /\ Serving \in validated
                          /\ Serving # found.serving
                          /\ found.serving \notin Present

(* An operation that ends without a rollback_error leaves no more bridge   *)
(* containers behind than it found, rejected ones included.                *)
EndLeavesNoOrphan ==
  (op.stage \in {"success", "failed"} /\ ~op.rollbackError)
    => Cardinality(Present) <= Cardinality(found.present)

(* As long as an unfinished operation has the service down, the journal    *)
(* that NewService needs to bring it back is on disk.                      *)
JournalCoversOutage ==
  (~terminal(op.stage) /\ found.serving # NoContainer /\ Serving = NoContainer)
    => journal # NoContainer

(* Among Remembered consecutive operations no request_id occurs twice,     *)
(* crashes of the updater included.                                        *)
NoReplay ==
  \A i, j \in 1..Len(admitted) :
    (i < j /\ admitted[i] = admitted[j]) => j - i > Remembered

(* Every operation ends, in success or failure, through rollbacks and      *)
(* restarts of the updater.                                                *)
OperationEnds == ~terminal(op.stage) ~> terminal(op.stage)

(* README.md:100: the updater "restores the previous container on          *)
(* failure".                                                               *)
FailureRestoresService ==
  (op.stage = "failed" /\ found.serving # NoContainer) => Serving # NoContainer

(* service.go:160: an operation interrupted in a stage before "restarting" *)
(* ended "before service replacement"; there is nothing to roll back.      *)
NoRollbackBeforeReplacement ==
  [][(pc = "down" /\ op.stage \in {"preparing", "pulling", "backing_up"})
       => ~booting']_vars

(* The updater implements the abstract replacement of the service: while   *)
(* an operation is not terminal on disk, what served is what it found.     *)
Abstract ==
  INSTANCE ServiceReplacement WITH
    phase <- IF terminal(op.stage) THEN "idle" ELSE "busy",
    serving <- IF terminal(op.stage) THEN Serving ELSE found.serving,
    result <- Outcome

AbstractUpdate == Abstract!AbstractSpec
=============================================================================
