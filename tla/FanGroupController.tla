------------------------- MODULE FanGroupController -------------------------
(***************************************************************************)
(* FanGroupController: the control of one group of fans, as operators on   *)
(* the state of the object.  The firmware has two such objects; FanGroup   *)
(* runs one of them on its own and Firmware runs both.                     *)
(*                                                                         *)
(* cfg and cal are the GroupConfig and GroupCalibration the object points  *)
(* to.  They live in the persisted data and are changed in place, so they  *)
(* are parameters here and not part of the group.                          *)
(*                                                                         *)
(* Data that is abstracted: the fan curve is a function from temperatures  *)
(* to target speeds of which only zero and nonzero matter; the duty that   *)
(* feed-forward and RPM trim ask for in automatic control is any duty      *)
(* (in.demand); whether a fan turns slower than its reference speed        *)
(* (in.slow) and how the current compares with the calibrated one          *)
(* (in.current) are inputs.                                                *)
(***************************************************************************)
EXTENDS PwmRamp, FiniteSets

CONSTANTS
  Fans,                  (* The fans of a group: 1 and 2.                  *)
  Temperatures,          (* The values of a reading; 0 is one of them.     *)
  UnmeasuredFloor,       (* 20: the running floor without a calibration.   *)
  StartMargin,           (* 3: added to the duty a fan was seen to start.  *)
  MeasuredStartupTime,   (* 5000 ms: least boost of a calibrated group.    *)
  DefaultOverrideTime    (* 300 s: an override that names no timeout.      *)

ASSUME GroupAssumption ==
  /\ Fans \subseteq {1, 2}
  /\ 0 \in Temperatures
  /\ Temperatures \subseteq Int
  /\ UnmeasuredFloor \in 1 .. FullDuty
  /\ StartMargin \in Nat
  /\ MeasuredStartupTime \in Nat \ {0}
  /\ 2 * MeasuredStartupTime < TimeModulus
  /\ DefaultOverrideTime \in Nat \ {0}

OperatingModes == {"Disabled", "Automatic", "Manual", "Full", "Off",
                   "Calibration", "Failsafe", "Alarm"}

RequestedModes == {"Automatic", "Manual", "Full", "Off"}

FanSlow(f) == IF f = 1 THEN "Fan1Slow" ELSE "Fan2Slow"

GroupFaults ==
  {"TemperatureInvalid", "TemperatureWarning", "TemperatureCritical",
   "CurrentLow", "CurrentHigh", "CalibrationAborted"}
  \cup {FanSlow(f) : f \in Fans}

(* GroupConfig and GroupCalibration, as far as they are modelled.  cal.measured
   stands for a valid table of the full length with measured limits, cal.stops
   for the fans verified to stop at 0%. *)
GroupConfigs ==
  [enabled : BOOLEAN, expectedFanMask : SUBSET Fans,
   minimumDuty : Duties \ {0}, startupDuty : Duties, startupTime : Nat,
   warning : Int, critical : Int, curve : [Temperatures -> Nat],
   faultDelay : Nat]

GroupCalibrations ==
  [measured : BOOLEAN, stops : SUBSET Fans, minimumRunningDuty : Duties,
   startDuty : [Fans -> Duties]]

(* The members of the object. *)
FanGroups ==
  [mode : OperatingModes, duty : Duties, ramp : Ramps, target : Nat,
   active : SUBSET GroupFaults, latched : SUBSET GroupFaults,
   temperature : Temperatures, temperatureValid : BOOLEAN,
   startupUntil : Times, overrideMode : RequestedModes, overrideDuty : Duties,
   overrideUntil : Times, calibrationOverride : BOOLEAN,
   calibrationDuty : Duties, configuredEnabled : BOOLEAN,
   configuredFanMask : SUBSET Fans, fanBadSince : [Fans -> Times],
   currentLowSince : Times, currentHighSince : Times]

(* What the host sends, and what a pass measures of a group. *)
Reports == [value : Temperatures, valid : BOOLEAN]
ModeRequests == [mode : RequestedModes, duty : Nat, timeout : Nat]
GroupInputs ==
  [demand : Duties, slow : SUBSET Fans,
   current : {"invalid", "unknown", "normal", "low", "high"}]

Larger(a, b) == IF a > b THEN a ELSE b

Highest(S) == CHOOSE d \in S : \A e \in S : e <= d

-----------------------------------------------------------------------------
(* What the configuration and the calibration allow. *)

CanStop(cfg, cal) == cal.measured /\ cfg.expectedFanMask \subseteq cal.stops

MinimumDuty(cfg, cal) ==
  Larger(cfg.minimumDuty,
         IF cal.measured THEN cal.minimumRunningDuty ELSE UnmeasuredFloor)

(* The duty at which fan f starts, plus the margin, or 100%. *)
BoostedStart(cal, f) == Capped(cal.startDuty[f] + StartMargin, FullDuty)

StartupDuty(cfg, cal) ==
  Highest({cfg.startupDuty, MinimumDuty(cfg, cal)} \cup
          {BoostedStart(cal, f) :
             f \in IF cal.measured THEN cfg.expectedFanMask ELSE {}})

StartupTime(cfg, cal) ==
  IF cal.measured THEN Larger(cfg.startupTime, MeasuredStartupTime)
                  ELSE cfg.startupTime

-----------------------------------------------------------------------------
(* begin() on a freshly constructed object, up to its applyConfiguration. *)
ConstructedGroup(now) ==
  [mode |-> "Failsafe", duty |-> FullDuty, ramp |-> RampReset(FullDuty, now),
   target |-> 0, active |-> {}, latched |-> {},
   temperature |-> 0, temperatureValid |-> FALSE,
   startupUntil |-> 0,
   overrideMode |-> "Automatic", overrideDuty |-> FullDuty, overrideUntil |-> 0,
   calibrationOverride |-> FALSE, calibrationDuty |-> FullDuty,
   configuredEnabled |-> FALSE, configuredFanMask |-> {},
   fanBadSince |-> [f \in Fans |-> 0],
   currentLowSince |-> 0, currentHighSince |-> 0]

StopFanTimers_KeptFault(g) == g
StopFanTimers(g) == [g EXCEPT !.fanBadSince = [f \in Fans |-> 0]]

StopCurrentTimers_KeptFault(g) == g
StopCurrentTimers(g) == [g EXCEPT !.currentLowSince = 0, !.currentHighSince = 0]

ClearFaultTimers(g) == StopFanTimers(StopCurrentTimers(g))

(* applyConfiguration: only a change of enable or of the expected fans cancels
   an override and starts a boost. *)
ApplyConfiguration(g, cfg, cal, now) ==
  LET controlsChanged == \/ g.configuredEnabled # cfg.enabled
                         \/ g.configuredFanMask # cfg.expectedFanMask
      restarted ==
        [ClearFaultTimers(g) EXCEPT
           !.overrideMode = "Automatic",
           !.overrideUntil = 0,
           !.startupUntil =
             TimeAdd(now, IF cfg.enabled THEN StartupTime(cfg, cal) ELSE 0)]
  IN  [(IF controlsChanged THEN restarted ELSE g) EXCEPT
         !.configuredEnabled = cfg.enabled,
         !.configuredFanMask = cfg.expectedFanMask]

Begin(cfg, cal, now) == ApplyConfiguration(ConstructedGroup(now), cfg, cal, now)

SetTemperature(g, temperature, valid) ==
  [g EXCEPT !.temperature = temperature, !.temperatureValid = valid]

(* setOverride: a timeout of zero is the default one; Automatic cancels the
   override and starts a boost. *)
SetOverride(g, cfg, cal, mode, duty, timeout, now) ==
  IF mode = "Automatic"
    THEN [g EXCEPT !.overrideMode = mode, !.overrideDuty = Capped(duty, FullDuty),
                   !.overrideUntil = 0,
                   !.startupUntil = TimeAdd(now, StartupTime(cfg, cal))]
    ELSE [g EXCEPT !.overrideMode = mode, !.overrideDuty = Capped(duty, FullDuty),
                   !.overrideUntil =
                     TimeAdd(now, IF timeout = 0 THEN DefaultOverrideTime
                                                 ELSE timeout)]

SetCalibrationOverride(g, on, duty) ==
  [g EXCEPT !.calibrationOverride = on,
            !.calibrationDuty = Capped(duty, FullDuty)]

ClearLatchedFaults(g) == [g EXCEPT !.latched = {}]

(* The output was set outside update(): the next ramp starts from it. *)
SynchronizeAppliedDuty(g, duty, now) ==
  IF g.duty = duty THEN g
  ELSE [g EXCEPT !.duty = duty, !.ramp = RampReset(duty, now)]

(* Active for one pass only: update() clears it, the latch stays. *)
SetCalibrationAbortedFault(g) ==
  [g EXCEPT !.active = @ \cup {"CalibrationAborted"},
            !.latched = @ \cup {"CalibrationAborted"}]

-----------------------------------------------------------------------------
(* update(): the stages of one control update, in the order of the code. *)

(* The host is silent: full speed whatever else holds. *)
AlarmUpdate(g, now) ==
  [ClearFaultTimers(g) EXCEPT
     !.mode = "Alarm", !.target = 0, !.duty = FullDuty,
     !.ramp = RampReset(FullDuty, now), !.active = {}]

DisabledUpdate(g, now) ==
  [ClearFaultTimers(g) EXCEPT
     !.mode = "Disabled", !.target = 0, !.duty = 0,
     !.ramp = RampReset(0, now), !.active = {}]

ReadTemperature(g, cfg) ==
  IF g.temperatureValid
    THEN [g EXCEPT
            !.target = cfg.curve[g.temperature],
            !.active =
              {fault \in {"TemperatureWarning", "TemperatureCritical"} :
                 g.temperature >= IF fault = "TemperatureWarning"
                                    THEN cfg.warning ELSE cfg.critical}]
    ELSE [g EXCEPT !.target = 0, !.active = {"TemperatureInvalid"}]

ExpireOverride_NeverFault(g, cfg, cal, now) == g

(* overrideUntil = 0 stands for "no override". *)
ExpireOverride(g, cfg, cal, now) ==
  IF g.overrideUntil # 0 /\ TimeReached(now, g.overrideUntil)
    THEN [g EXCEPT !.overrideMode = "Automatic", !.overrideUntil = 0,
                   !.startupUntil = TimeAdd(now, StartupTime(cfg, cal))]
    ELSE g

AutoStop(g, cfg, cal) ==
  g.overrideMode = "Automatic" /\ g.target = 0 /\ CanStop(cfg, cal)

UnsupportedStop(g, cfg, cal) ==
  /\ g.temperatureValid
  /\ g.target = 0
  /\ ~CanStop(cfg, cal)
  /\ ~cal.measured

PrepareRun_NoBoostFault(g, cfg, cal, now) ==
  IF ~g.temperatureValid \/ AutoStop(g, cfg, cal) THEN g
  ELSE [g EXCEPT !.target = IF cal.measured THEN Larger(@, 1) ELSE @]

PrepareRun_EndlessBoostFault(g, cfg, cal, now) ==
  IF ~g.temperatureValid \/ AutoStop(g, cfg, cal) THEN g
  ELSE [g EXCEPT
          !.target = IF cal.measured THEN Larger(@, 1) ELSE @,
          !.startupUntil = IF g.overrideMode = "Automatic" /\ g.mode = "Full"
                             THEN TimeAdd(now, StartupTime(cfg, cal)) ELSE @]

(* A calibrated group that is not stopping runs at least at its lowest measured
   speed, which is not zero; and a group at rest that is to run is boosted. *)
PrepareRun(g, cfg, cal, now) ==
  IF ~g.temperatureValid \/ AutoStop(g, cfg, cal) THEN g
  ELSE [g EXCEPT
          !.target = IF cal.measured THEN Larger(@, 1) ELSE @,
          !.startupUntil = IF g.overrideMode = "Automatic" /\ g.duty = 0
                             THEN TimeAdd(now, StartupTime(cfg, cal)) ELSE @]

Unsafe_CriticalFault(g, noStop) == ~g.temperatureValid \/ noStop

(* What forces full speed whatever was requested. *)
Unsafe(g, noStop) ==
  \/ ~g.temperatureValid
  \/ noStop
  \/ "TemperatureCritical" \in g.active

(* The mode and the duty it asks for, before the ramp; stopping is AutoStop
   and noStop is UnsupportedStop, both decided before the speed was raised to
   the minimum. *)
ChooseMode(g, cfg, cal, now, in, stopping, noStop) ==
  LET is(mode, duty) == [g EXCEPT !.mode = mode, !.duty = duty]
      requested      == [Manual |-> g.overrideDuty, Full |-> FullDuty, Off |-> 0]
  IN  IF Unsafe(g, noStop)          THEN is("Failsafe", FullDuty)
      ELSE IF g.calibrationOverride THEN is("Calibration", g.calibrationDuty)
      ELSE IF stopping              THEN is("Automatic", 0)
      ELSE IF g.overrideMode # "Automatic"
        THEN is(g.overrideMode, requested[g.overrideMode])
      ELSE IF ~TimeReached(now, g.startupUntil)
        THEN is("Full", StartupDuty(cfg, cal))
        ELSE is("Automatic", Larger(in.demand, MinimumDuty(cfg, cal)))

RampStart_BelowFloorFault(r, floor, now) == r

(* A running ramp never starts below the floor. *)
RampStart(r, floor, now) == IF r.duty < floor THEN RampReset(floor, now) ELSE r

(* Only automatic control ramps.  It never dwells below the floor: it starts at
   it, and stops from it. *)
RampOutput(g, cfg, cal, now) ==
  LET floor   == MinimumDuty(cfg, cal)
      running == RampStep(RampStart(g.ramp, floor, now), g.duty, now)
      halting == RampStep(g.ramp, floor, now)
  IN  IF g.mode # "Automatic" THEN [g EXCEPT !.ramp = RampReset(g.duty, now)]
      ELSE IF g.duty # 0
        THEN [g EXCEPT !.ramp = running, !.duty = running.duty]
      ELSE IF halting.duty > floor
        THEN [g EXCEPT !.ramp = halting, !.duty = halting.duty]
        ELSE [g EXCEPT !.ramp = RampReset(0, now), !.duty = 0]

(* A timer of 0 is not running; one that runs out raises its fault. *)
Armed(since, now) == IF since = 0 THEN now ELSE since

(* updateFanFaults. *)
UpdateFanFaults(g, cfg, cal, now, in) ==
  IF \/ g.duty < MinimumDuty(cfg, cal)
     \/ g.target = 0
     \/ g.mode \in {"Calibration", "Manual", "Off"}
    THEN StopFanTimers(g)
    ELSE LET bad   == in.slow \cap cfg.expectedFanMask
             since == [f \in Fans |-> IF f \in bad
                                        THEN Armed(g.fanBadSince[f], now) ELSE 0]
         IN  [g EXCEPT
                !.fanBadSince = since,
                !.active = @ \cup
                  {FanSlow(f) : f \in {x \in bad :
                     Elapsed(now, since[x]) >= cfg.faultDelay}}]

(* updateCurrentFaults: nothing is compared, and no timer is touched, where the
   calibration expects hardly any current. *)
UpdateCurrentFaults(g, cfg, cal, now, in) ==
  LET low  == IF in.current = "low" THEN Armed(g.currentLowSince, now) ELSE 0
      high == IF in.current = "high" THEN Armed(g.currentHighSince, now) ELSE 0
      raised ==
        {fault \in {"CurrentLow", "CurrentHigh"} :
           IF fault = "CurrentLow"
             THEN in.current = "low" /\ Elapsed(now, low) >= cfg.faultDelay
             ELSE in.current = "high" /\ Elapsed(now, high) >= cfg.faultDelay}
  IN  IF \/ in.current = "invalid"
         \/ g.duty < MinimumDuty(cfg, cal)
         \/ g.mode \in {"Calibration", "Off"}
        THEN StopCurrentTimers(g)
      ELSE IF in.current = "unknown" THEN g
      ELSE [g EXCEPT !.currentLowSince = low, !.currentHighSince = high,
                     !.active = @ \cup raised]

(* A slow fan takes automatic control to full speed; then faults are latched. *)
ProtectSlowFan(g, now) ==
  LET slow == \E f \in Fans : FanSlow(f) \in g.active
      safe == IF slow /\ g.mode = "Automatic"
                THEN [g EXCEPT !.mode = "Failsafe", !.duty = FullDuty,
                               !.ramp = RampReset(FullDuty, now)]
                ELSE g
  IN  [safe EXCEPT !.latched = @ \cup g.active]

ControlUpdate(g, cfg, cal, now, in) ==
  LET read     == ReadTemperature(g, cfg)
      expired  == ExpireOverride(read, cfg, cal, now)
      stopping == AutoStop(expired, cfg, cal)
      noStop   == UnsupportedStop(expired, cfg, cal)
      prepared == PrepareRun(expired, cfg, cal, now)
      chosen   == ChooseMode(prepared, cfg, cal, now, in, stopping, noStop)
      output   == RampOutput(chosen, cfg, cal, now)
      fans     == UpdateFanFaults(output, cfg, cal, now, in)
      current  == UpdateCurrentFaults(fans, cfg, cal, now, in)
  IN  ProtectSlowFan(current, now)

Update(g, cfg, cal, now, hostAlarm, in) ==
  IF hostAlarm THEN AlarmUpdate(g, now)
  ELSE IF ~cfg.enabled THEN DisabledUpdate(g, now)
  ELSE ControlUpdate(g, cfg, cal, now, in)

=============================================================================
