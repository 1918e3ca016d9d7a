---- MODULE MCCalibrationManager ----
(* The constants of MCCalibrationManager.cfg. *)
EXTENDS CalibrationManager

OneOrBoth == {{"fan1"}, {"fan1", "fan2"}}

====
