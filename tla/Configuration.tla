--------------------------- MODULE Configuration ---------------------------
(***************************************************************************)
(* What the firmware does to its persisted data in RAM: a configuration    *)
(* that the host sends is applied, and the result of a calibration is      *)
(* committed, or taken back when it could not be stored.                   *)
(*                                                                         *)
(* The data is a record of the two generations, the watchdog timeout, the  *)
(* identity, and per group a configuration and a calibration.              *)
(***************************************************************************)
EXTENDS FanGroupController

CONSTANTS
  Groups,        (* The two fan groups.                                    *)
  Ids,           (* The identities a Nano may have.                        *)
  GenModulus     (* The generations are uint32_t.                          *)

ASSUME ConfigurationAssumption ==
  /\ GenModulus \in Nat /\ GenModulus >= 2
  /\ Groups # {}

Generations == 0 .. GenModulus - 1

ControllerConfigs ==
  [generation : Generations, timeout : Nat, cfg : [Groups -> GroupConfigs]]

PersistedData ==
  [generation : Generations, timeout : Nat, id : Ids,
   cfg : [Groups -> GroupConfigs], cal : [Groups -> GroupCalibrations],
   calGeneration : Generations]

NextGeneration(n) == IF n = GenModulus - 1 THEN 0 ELSE n + 1
PriorGeneration(n) == IF n = 0 THEN GenModulus - 1 ELSE n - 1

(* A GroupCalibration of zeros. *)
NoCalibration ==
  [measured |-> FALSE, stops |-> {}, minimumRunningDuty |-> 0,
   startDuty |-> [f \in Fans |-> 0]]

Apply_NoVersionFault(data, candidate) ==
  [data EXCEPT
     !.generation = candidate.generation,
     !.timeout = candidate.timeout,
     !.cfg = candidate.cfg,
     !.cal = [g \in Groups |->
                IF data.cfg[g].expectedFanMask # candidate.cfg[g].expectedFanMask
                  THEN NoCalibration ELSE data.cal[g]]]

(* Configuration::apply: a group whose set of fans changes loses its
   calibration, "current and startup/RPM data must not survive". *)
Apply(data, candidate) ==
  LET moved == {g \in Groups : data.cfg[g].expectedFanMask
                                 # candidate.cfg[g].expectedFanMask}
  IN  [data EXCEPT
         !.generation = candidate.generation,
         !.timeout = candidate.timeout,
         !.cfg = candidate.cfg,
         !.cal = [g \in Groups |-> IF g \in moved THEN NoCalibration
                                                  ELSE data.cal[g]],
         !.calGeneration = IF moved = {} THEN @ ELSE NextGeneration(@)]

(* The startup duty that a commit configures: every expected fan starts. *)
CommittedStartup(cfg, measured) ==
  Highest({measured.minimumRunningDuty} \cup
          {BoostedStart(measured, f) : f \in cfg.expectedFanMask})

(* CalibrationManager::prepareCommit. *)
PrepareCommit(data, g, measured) ==
  [data EXCEPT
     !.cal[g] = measured,
     !.calGeneration = NextGeneration(@),
     !.cfg[g] = [@ EXCEPT !.minimumDuty = measured.minimumRunningDuty,
                          !.startupDuty = CommittedStartup(data.cfg[g], measured),
                          !.startupTime = MeasuredStartupTime],
     !.generation = NextGeneration(@)]

RollBack_KeepsTimeFault(prepared, old, g) ==
  [prepared EXCEPT
     !.cal[g] = old.cal[g],
     !.calGeneration = PriorGeneration(@),
     !.cfg[g] = [@ EXCEPT !.minimumDuty = old.cfg[g].minimumDuty,
                          !.startupDuty = old.cfg[g].startupDuty],
     !.generation = PriorGeneration(@)]

(* CalibrationManager::finishCommit after a failed save: the table was swapped
   with the old one, the three settings were kept aside. *)
RollBack(prepared, old, g) ==
  [prepared EXCEPT
     !.cal[g] = old.cal[g],
     !.calGeneration = PriorGeneration(@),
     !.cfg[g] = [@ EXCEPT !.minimumDuty = old.cfg[g].minimumDuty,
                          !.startupDuty = old.cfg[g].startupDuty,
                          !.startupTime = old.cfg[g].startupTime],
     !.generation = PriorGeneration(@)]

=============================================================================
