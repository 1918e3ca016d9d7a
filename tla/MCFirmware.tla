----------------------------- MODULE MCFirmware -----------------------------
(***************************************************************************)
(* Firmware for TLC: two groups of one fan, three duties, temperatures     *)
(* that are cool (0), warm (1, the warning) and critical (2).              *)
(***************************************************************************)
EXTENDS Firmware

Group(enabled, mask) ==
  [enabled |-> enabled, expectedFanMask |-> mask, minimumDuty |-> 1,
   startupDuty |-> 2, startupTime |-> 1, warning |-> 1, critical |-> 2,
   curve |-> [t \in 0 .. 2 |-> 1], faultDelay |-> 1]

(* The last group is enabled, or disabled and without fans. *)
Settings(last) ==
  [g \in Groups |-> IF last \/ \E h \in Groups : h > g
                      THEN Group(TRUE, {1}) ELSE Group(FALSE, {})]

Candidate(last, timeout) ==
  [generation |-> 1, timeout |-> timeout, cfg |-> Settings(last)]

Stored(last, generation, cal) ==
  [generation |-> generation, timeout |-> 2, id |-> "none",
   cfg |-> Settings(last), cal |-> [g \in Groups |-> cal],
   calGeneration |-> 0]

Measured ==
  [measured |-> TRUE, stops |-> {1}, minimumRunningDuty |-> 1,
   startDuty |-> [f \in Fans |-> 1]]

Cool == [value |-> 0, valid |-> TRUE]
Critical == [value |-> 2, valid |-> TRUE]
Invalid == [value |-> 0, valid |-> FALSE]

OffOverride == [mode |-> "Off", duty |-> 0, timeout |-> 3]
ClearAll == [groups |-> Groups, global |-> TRUE]

TwoGroups == {1, 2}
QuietInput == {[demand |-> 1, slow |-> {}, current |-> "normal"]}

-----------------------------------------------------------------------------
(* Everything that may happen to the first group, with the second one disabled. *)
Disabled(data) == [data EXCEPT !.cfg[1] = Group(FALSE, {})]

Safety ==
  [data |-> {Stored(FALSE, 0, NoCalibration)},
   candidates |-> {Candidate(FALSE, 1), Disabled(Candidate(FALSE, 2))},
   ids |-> {"none"},
   snapshots |-> {<<r, Cool>> : r \in {Cool, Critical, Invalid}},
   clears |-> {},
   overrides |-> {OffOverride},
   supplies |-> {{}},
   results |-> {Measured},
   saveTimes |-> {0},
   frames |-> 2,
   until |-> 3]

(* Two groups whose settings, calibrations and identity are saved. *)
Storage ==
  [data |-> {Stored(FALSE, 1, NoCalibration)},
   candidates |-> {Candidate(TRUE, 1), Candidate(FALSE, 1)},
   ids |-> {"none", "assigned"},
   snapshots |-> {<<Cool, Cool>>},
   clears |-> {},
   overrides |-> {},
   supplies |-> {{}},
   results |-> {Measured, [Measured EXCEPT !.stops = {}, !.minimumRunningDuty = 2]},
   saveTimes |-> {0},
   frames |-> 1,
   until |-> 4]

(* Two groups that take turns at being calibrated. *)
Turns ==
  [data |-> {Stored(TRUE, 1, NoCalibration)},
   candidates |-> {},
   ids |-> {"none"},
   snapshots |-> {Cool, Invalid} \X {Cool, Invalid},
   clears |-> {ClearAll},
   overrides |-> {OffOverride},
   supplies |-> {{}},
   results |-> {Measured},
   saveTimes |-> {0, 1},
   frames |-> 1,
   until |-> 4]

Everything == {Safety, Storage, Turns}
Pipelined == {[Turns EXCEPT !.frames = 2, !.until = 3]}

=============================================================================
