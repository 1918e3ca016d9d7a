------------------------------ MODULE FanGroup ------------------------------
(***************************************************************************)
(* One FanGroupController on its own, driven by everything that drives it  *)
(* in the firmware: temperatures, overrides, new configurations, the       *)
(* calibration override, and a control update in every pass of the loop.   *)
(* The clock counts from the boot and its low bits are millis().           *)
(***************************************************************************)
EXTENDS FanGroupController

CONSTANTS
  Environments,  (* What may surround the group; a behaviour has one:      *)
                 (* configs, calibrations: what may be applied,            *)
                 (* readings: temperatures received, with their validity,  *)
                 (* overrides: SetMode requests - mode, duty and timeout,  *)
                 (* inputs: what a pass can measure,                       *)
                 (* duties: what a calibration may ask for,                *)
                 (* alarms: whether the host watchdog may fire,            *)
                 (* until: bound, the passes stop when the clock gets here.*)
  Gaps           (* The times that may lie between two passes.             *)

ASSUME FanGroupAssumption ==
  /\ Gaps \subseteq Nat
  /\ \A e \in Environments :
       /\ e.configs \subseteq GroupConfigs
       /\ e.calibrations \subseteq GroupCalibrations
       /\ e.readings \subseteq Reports
       /\ e.overrides \subseteq ModeRequests
       /\ e.inputs \subseteq GroupInputs
       /\ e.duties \subseteq Duties
       /\ e.alarms \subseteq BOOLEAN
       /\ e.until \in Nat

VARIABLES
  env,        (* The environment of this behaviour.                        *)
  uptime,     (* Ticks since boot; never wraps.                            *)
  cfg, cal,   (* The persisted configuration and calibration in use.       *)
  group,      (* The FanGroupController object.                            *)
  fresh,      (* The last step was a control update.                       *)
  expiry,     (* History: when the override in force runs out.             *)
  boostEnd,   (* History: when the last boost runs out that was due: at a  *)
              (* start from rest, the end of an override, new settings.    *)
  boostSet,   (* History: when the deadline of the boost was changed last.  *)
  slowSince,  (* History: per fan, the pass since which it measured slow.  *)
  oddSince    (* History: the same for a low and a high current, counting  *)
              (* on through passes that cannot compare it.                 *)

vars == <<env, uptime, cfg, cal, group, fresh,
          expiry, boostEnd, boostSet, slowSince, oddSince>>

now == uptime % TimeModulus

Never == -1

Currents == {"low", "high"}

-----------------------------------------------------------------------------
Init ==
  /\ env \in Environments
  /\ uptime = 1   (* setup() has taken a while. *)
  /\ cfg \in env.configs
  /\ cal \in env.calibrations
  /\ group = Begin(cfg, cal, now)
  /\ fresh = FALSE
  /\ expiry = Never
  /\ boostEnd = uptime + StartupTime(cfg, cal)
  /\ boostSet = IF group.startupUntil = 0 THEN 0 ELSE uptime
  /\ slowSince = [f \in Fans |-> Never]
  /\ oddSince = [c \in Currents |-> Never]

(* What is recorded of a step that leaves the object as g: when an override
   begins or ends, and when a boost begins. *)
Record(g, began) ==
  /\ group' = g
  /\ expiry' = IF g.overrideMode = "Automatic" THEN Never ELSE began
  /\ boostEnd' = IF g.startupUntil # group.startupUntil
                   THEN uptime + StartupTime(cfg', cal') ELSE boostEnd
  /\ boostSet' = IF g.startupUntil # group.startupUntil THEN uptime ELSE boostSet

NewTemperature(r) ==
  /\ fresh' = FALSE
  /\ UNCHANGED <<env, uptime, cfg, cal, slowSince, oddSince>>
  /\ Record(SetTemperature(group, r.value, r.valid), expiry)

(* MessageSetMode, which the firmware refuses for a disabled group and during a
   calibration. *)
SetMode(o) ==
  /\ cfg.enabled
  /\ ~group.calibrationOverride
  /\ fresh' = FALSE
  /\ UNCHANGED <<env, uptime, cfg, cal, slowSince, oddSince>>
  /\ Record(SetOverride(group, cfg, cal, o.mode, o.duty, o.timeout, now),
            uptime + IF o.timeout = 0 THEN DefaultOverrideTime ELSE o.timeout)

(* A new configuration; another set of expected fans drops the calibration. *)
NewConfiguration(c) ==
  /\ ~group.calibrationOverride
  /\ cfg' = c
  /\ cal' \in IF c.expectedFanMask = cfg.expectedFanMask THEN {cal}
              ELSE {k \in env.calibrations : ~k.measured}
  /\ fresh' = FALSE
  /\ UNCHANGED <<env, uptime, slowSince, oddSince>>
  /\ Record(ApplyConfiguration(group, cfg', cal', now), expiry)

(* The firmware hands the group to a calibration, which then sets its output,
   and takes it back at full speed and in automatic control. *)
Calibrate(duty) ==
  /\ cfg.enabled
  /\ fresh' = FALSE
  /\ UNCHANGED <<env, uptime, cfg, cal, slowSince, oddSince>>
  /\ Record(SynchronizeAppliedDuty(SetCalibrationOverride(group, TRUE, duty),
                                   duty, now), expiry)

EndCalibration ==
  /\ group.calibrationOverride
  /\ fresh' = FALSE
  /\ UNCHANGED <<env, uptime, cfg, cal, slowSince, oddSince>>
  /\ Record(SynchronizeAppliedDuty(
              SetOverride(SetCalibrationOverride(group, FALSE, FullDuty),
                          cfg, cal, "Automatic", 0, 0, now),
              FullDuty, now), Never)

(* A pass of the loop, some time after the last: the control update. *)
Pass(gap, hostAlarm, in) ==
  LET at        == uptime + gap
      monitored == cfg.enabled /\ ~hostAlarm
      since(h, on) == IF ~(monitored /\ on) THEN Never
                      ELSE IF h = Never THEN at ELSE h
      g == Update(group, cfg, cal, at % TimeModulus, hostAlarm, in)
  IN  /\ at <= env.until
      /\ uptime' = at
      /\ group' = g
      /\ fresh' = TRUE
      /\ expiry' = IF g.overrideMode = "Automatic" THEN Never ELSE expiry
      /\ boostEnd' = IF \/ group.duty = 0
                        \/ group.overrideMode # "Automatic"
                             /\ g.overrideMode = "Automatic"
                       THEN Larger(boostEnd, at + StartupTime(cfg, cal)) ELSE boostEnd
      /\ boostSet' = IF g.startupUntil # group.startupUntil THEN at ELSE boostSet
      /\ slowSince' = [f \in Fans |-> since(slowSince[f], f \in in.slow)]
      /\ oddSince' = [c \in Currents |->
                         since(oddSince[c], \/ in.current = c
                                            \/ in.current = "unknown" /\ oddSince[c] # Never)]
      /\ UNCHANGED <<env, cfg, cal>>

Next ==
  \/ \E r \in env.readings : NewTemperature(r)
  \/ \E o \in env.overrides : SetMode(o)
  \/ \E c \in env.configs : NewConfiguration(c)
  \/ \E d \in env.duties : Calibrate(d)
  \/ EndCalibration
  \/ \E gap \in Gaps, hostAlarm \in env.alarms, in \in env.inputs :
       Pass(gap, hostAlarm, in)

Spec == Init /\ [][Next]_vars

-----------------------------------------------------------------------------
TypeOK ==
  /\ env \in Environments
  /\ uptime \in Nat
  /\ cfg \in env.configs
  /\ cal \in env.calibrations
  /\ group \in FanGroups
  /\ fresh \in BOOLEAN
  /\ expiry \in Nat \cup {Never}
  /\ boostEnd \in Nat
  /\ boostSet \in Nat
  /\ slowSince \in [Fans -> Nat \cup {Never}]
  /\ oddSince \in [Currents -> Nat \cup {Never}]

(* After every control update of an enabled group, an invalid or a critical
   temperature means full speed - whatever override is in force, also during a
   boost, a ramp, a verified stop and a calibration - and so does a silent host
   whether the group is enabled or not. *)
UnsafeIsFullSpeed ==
  fresh =>
    \/ group.duty = FullDuty
    \/ /\ group.mode # "Alarm"
       /\ cfg.enabled =>
            /\ group.temperatureValid
            /\ group.temperature < cfg.critical

(* Automatic control never runs a fan below the floor in force: it stands still,
   which only a verified stop allows, or turns at the floor or above, also right
   after a configuration has raised the floor or the ramp has come down. *)
NeverBelowFloor ==
  fresh /\ group.mode = "Automatic" =>
    \/ group.duty >= MinimumDuty(cfg, cal)
    \/ group.duty = 0 /\ CanStop(cfg, cal) /\ group.target = 0

(* A group at rest is never taken into automatic running directly: whichever way
   it came to rest - a stop, Off, a zero manual duty or a disabled group - it
   first gets its boost ("a nonzero restart boosts immediately"). *)
NoColdStart ==
  [][/\ fresh'
     /\ group.duty = 0
     /\ group'.mode = "Automatic"
     /\ StartupTime(cfg, cal) > 0
     => group'.duty = 0]_vars

(* No override is obeyed past its timeout, whatever configurations, alarms and
   calibrations came in between. *)
OverrideExpires ==
  fresh /\ group.mode \in {"Manual", "Full", "Off"} /\ expiry # Never =>
    uptime < expiry

(* A boost ends when its time is over, and only what calls for one starts one: a
   group at rest, the end of an override or of a calibration, new settings.  The one
   exception: a deadline that nothing has changed for half a turn of the clock is
   ahead of it once more. *)
BoostEnds ==
  fresh /\ group.mode = "Full" /\ group.overrideMode = "Automatic" =>
    \/ uptime < boostEnd
    \/ 2 * (uptime - boostSet) >= TimeModulus

(* A slow fan is reported only after it has measured slow in every control
   update for the configured delay, and then automatic control that is past its
   boost runs at full speed. *)
SlowFanConfirmed ==
  fresh =>
    \A f \in Fans : FanSlow(f) \in group.active =>
      /\ slowSince[f] # Never
      /\ uptime - slowSince[f] >= cfg.faultDelay
      /\ \/ group.duty = FullDuty
         \/ group.mode = "Full" /\ uptime < boostEnd

(* A current fault is reported only after the current was off, in the same
   direction, in every control update of the configured delay that had a
   reference to compare it with. *)
CurrentFaultConfirmed ==
  fresh =>
    \A c \in Currents :
      (IF c = "low" THEN "CurrentLow" ELSE "CurrentHigh") \in group.active =>
        /\ oddSince[c] # Never
        /\ uptime - oddSince[c] >= cfg.faultDelay

=============================================================================
