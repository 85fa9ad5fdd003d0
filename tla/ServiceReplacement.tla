------------------------- MODULE ServiceReplacement -------------------------
(***************************************************************************)
(* What the updater promises about the bridge service, seen only when no   *)
(* operation is in progress: an operation either installs another          *)
(* container, or leaves the one it found, or says that it could not        *)
(* restore it.  It is the "transactional rollback" that                    *)
(* supervisor.UpdateSupervisor asks of its implementations.                *)
(***************************************************************************)
CONSTANTS Container,      \* containers that may come to serve the bridge
          NoContainer     \* nothing is serving

VARIABLES phase,          \* "idle" or "busy"
          serving,        \* the container that served when last idle
          result          \* how the last operation that did not abort ended

AbstractInit ==
  /\ phase = "idle"
  /\ serving \in Container
  /\ result = "none"

Begin ==
  /\ phase = "idle"
  /\ phase' = "busy"
  /\ UNCHANGED <<serving, result>>

(* The target container replaced whatever was serving.                     *)
Install ==
  /\ phase = "busy"
  /\ phase' = "idle"
  /\ serving' \in Container \ {serving}
  /\ result' = "installed"

(* The operation failed and the service is what it was.                    *)
Abort ==
  /\ phase = "busy"
  /\ phase' = "idle"
  /\ UNCHANGED <<serving, result>>

(* The operation failed and so did its rollback, and it says so; until     *)
(* another container is installed, later failures vouch for no more.       *)
Lose ==
  /\ phase = "busy"
  /\ phase' = "idle"
  /\ serving' \in Container \cup {NoContainer}
  /\ result' = "unrestored"

AbstractNext == Begin \/ Install \/ Abort \/ Lose

AbstractSpec == AbstractInit /\ [][AbstractNext]_<<phase, serving, result>>
=============================================================================
