---------------------------- MODULE MCSchedules ----------------------------
(***************************************************************************)
(* Instances of Schedules for TLC: days of two minutes, of which a working *)
(* day cleans in the first and runs a scene in the second; the schedule of *)
(* the browser has a scene on working days and a start on days away.       *)
(***************************************************************************)
EXTENDS Schedules, TLC

Never == 0 :> "none" @@ 1 :> "none"
MCProvisioned ==
    [d \in DayTypes |-> IF d = "normal" THEN 0 :> "start" @@ 1 :> "scene" ELSE Never]
MCUserSchedules ==
    {[d \in DayTypes |-> CASE d = "normal" -> 0 :> "scene" @@ 1 :> "none"
                           [] d = "notAtHome" -> 0 :> "none" @@ 1 :> "start"
                           [] OTHER -> Never]}
=============================================================================
