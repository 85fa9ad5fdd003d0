----------------------------- MODULE MCUpdater -----------------------------
(***************************************************************************)
(* Instances of Updater for TLC: several operations, so that a later one  *)
(* meets whatever the earlier left behind, and one container more than     *)
(* they can create.                                                        *)
(***************************************************************************)
EXTENDS Updater

CONSTANTS c1, c2, c3, c4, r1, r2

MCContainer == {c1, c2, c3, c4}
MCRequest   == {r1, r2}
=============================================================================
