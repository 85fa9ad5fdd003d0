------------------------- MODULE MCCommandLifecycle -------------------------
(***************************************************************************)
(* Instances of CommandLifecycle for TLC.                                  *)
(***************************************************************************)
EXTENDS CommandLifecycle

report(state, inCleaning, error) ==
  [state |-> state, inCleaning |-> inCleaning, error |-> error, shows |-> {}]

Idle      == report("idle", FALSE, 0)
Cleaning  == report("cleaning", TRUE, 0)
Paused    == report("paused", FALSE, 0)
Returning == report("returning", FALSE, 0)
Charging  == report("charging", FALSE, 0)
Washing   == report("washing_mop", TRUE, 0)
Recharge  == report("charging", TRUE, 0)
Stuck     == report("error", FALSE, 5)
Worn      == report("cleaning", TRUE, 7)
Gentle    == [Idle EXCEPT !.shows = {"set_fan_speed"}]

FewStatuses  == {Idle, Cleaning}
AllStatuses  == {Idle, Cleaning, Paused, Returning, Charging, Washing,
                 Recharge, Stuck, Worn, Gentle}
OneCommand   == {"start"}
FewCommands  == {"start", "locate"}
SomeCommands == {"start", "pause", "dock", "locate", "set_fan_speed"}
OneReporter  == {"poll"}
TwoReporters == {"poll", "push"}
NoRoom       == {}
OneRoom      == {16}
=============================================================================
