----------------------------- MODULE MCFanGroup -----------------------------
(***************************************************************************)
(* FanGroup for TLC: duties 0..4 with the floor at 1, temperatures that    *)
(* are idle (0), normal (1) and critical (2), and a clock of 10 ticks,     *)
(* which turns in one of the environments.                                 *)
(***************************************************************************)
EXTENDS FanGroup

Config(enabled, mask, floor, delay) ==
  [enabled |-> enabled, expectedFanMask |-> mask, minimumDuty |-> floor,
   startupDuty |-> floor + 1, startupTime |-> 3 * (floor - 1), warning |-> 1, critical |-> 2,
   curve |-> [t \in 0 .. 2 |-> t], faultDelay |-> delay]

(* A calibration that was measured but found no fan that stops, or was verified
   to stop the given fans. *)
Measured(stops) ==
  [measured |-> TRUE, stops |-> stops, minimumRunningDuty |-> 1,
   startDuty |-> [f \in Fans |-> 2]]

Unmeasured ==
  [measured |-> FALSE, stops |-> {}, minimumRunningDuty |-> 0,
   startDuty |-> [f \in Fans |-> 0]]

(* An invalid reading comes with the value 0 (the daemon sends no other). *)
Reading(t) == [value |-> t, valid |-> TRUE]
Invalid == [value |-> 0, valid |-> FALSE]

-----------------------------------------------------------------------------
(* The modes: one fan that is never slow, a raised floor, a disabled group,
   and every way to stop. *)
Modes ==
  [configs |-> {Config(TRUE, {1}, 1, 1), Config(TRUE, {1}, 2, 1),
                Config(FALSE, {1}, 1, 1)},
   calibrations |-> {Unmeasured, Measured({1})},
   readings |-> {Reading(0), Reading(1), Reading(2), Invalid},
   overrides |-> {[mode |-> "Automatic", duty |-> 0, timeout |-> 0],
                  [mode |-> "Manual", duty |-> 0, timeout |-> 3],
                  [mode |-> "Manual", duty |-> 1, timeout |-> 2],
                  [mode |-> "Off", duty |-> 0, timeout |-> 0]},
   inputs |-> {[demand |-> d, slow |-> {}, current |-> "normal"] : d \in {0, 3}},
   duties |-> {0},
   alarms |-> BOOLEAN,
   until |-> 4]

(* The fault timers: two fans that turn slow and recover, one of which may not
   be expected, and a current that wanders. *)
Faults ==
  [configs |-> {Config(TRUE, {1, 2}, 2, 2), Config(TRUE, {1}, 2, 2)},
   calibrations |-> {Unmeasured},
   readings |-> {Reading(1), Invalid},
   overrides |-> {[mode |-> "Off", duty |-> 0, timeout |-> 2]},
   inputs |-> {[demand |-> 2, slow |-> fans, current |-> c] :
                 <<fans, c>> \in {<<{}, "normal">>, <<{}, "low">>, <<{1}, "low">>,
                                  <<{1, 2}, "high">>, <<{1, 2}, "invalid">>,
                                  <<{}, "unknown">>}},
   duties |-> {2},
   alarms |-> BOOLEAN,
   until |-> 5]

(* The turn of the clock: a group in automatic control, with a boost and without one,
   that may stop and be calibrated, for more than half a turn after its last boost. *)
Steady ==
  [configs |-> {Config(TRUE, {1}, 1, 1), Config(TRUE, {1, 2}, 2, 1)},
   calibrations |-> {Unmeasured, Measured({1})},
   readings |-> {Reading(0), Reading(1)},
   overrides |-> {[mode |-> "Automatic", duty |-> 0, timeout |-> 0]},
   inputs |-> {[demand |-> d, slow |-> {}, current |-> "normal"] : d \in {0, 3}},
   duties |-> {2},
   alarms |-> {FALSE},
   until |-> 14]

ModesFaultsAndTurn == {Modes, Faults, Steady}

=============================================================================
