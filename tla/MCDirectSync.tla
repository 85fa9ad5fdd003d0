---------------------------- MODULE MCDirectSync ----------------------------
(***************************************************************************)
(* Instances of DirectSync for TLC: a field of a robot, and the heartbeat, *)
(* which sorts before it and reconnects and delays it.                     *)
(***************************************************************************)
EXTENDS DirectSync

CONSTANTS beat, battery, v1, v2, api, g1

OneField     == <<beat, battery>>
TwoValues    == {v1, v2}
TwoResenders == {api, g1}
=============================================================================
