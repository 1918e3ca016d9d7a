------------------------------ MODULE Firmware ------------------------------
(***************************************************************************)
(* FirmwareApp: the main loop of the Nano.  A pass reads the clock,        *)
(* handles the frames that have arrived, controls both groups and the      *)
(* calibration, and publishes what has changed.                            *)
(*                                                                         *)
(* app is the volatile state; stored is what the EEPROM would load         *)
(* (DurableRecord says why a save can be one step that succeeds or fails). *)
(* The measurements of a calibration are abstracted: in a pass it asks for *)
(* any duty, fails, or completes with any of env.results.                 *)
(***************************************************************************)
EXTENDS Configuration

CONSTANTS
  Environments,      (* What may surround the Nano; a behaviour has one:   *)
                     (* data: what the EEPROM may hold at the first boot,  *)
                     (* candidates: valid configurations the host sends,   *)
                     (* ids: identities the host assigns,                  *)
                     (* snapshots: a value and its validity per group,     *)
                     (* clears: faults to clear, of groups and global,     *)
                     (* overrides: SetMode requests,                       *)
                     (* supplies: sets of supply faults a pass measures,   *)
                     (* results: calibrations that may be measured,        *)
                     (* saveTimes: how long saving a calibration takes,    *)
                     (* frames: bound on the frames handled in one pass,   *)
                     (* until: bound, no pass starts later.                *)
  Inputs,            (* What a pass measures of a group.                   *)
  CalibrationDuties, (* Duties a calibration asks for.                     *)
  Gaps               (* Times between the starts of two passes.            *)

GlobalFaults == {"InaMissing", "InputVoltageLow", "InputVoltageCritical",
                 "InputVoltageHigh", "DefaultConfiguration", "HostTimeout"}

(* A group warns before it is critical: Configuration::validate refuses other
   thresholds.  And a floor that was measured is never zero: it is a duty at
   which every fan turned, plus a margin (CalibrationManager!MinimumMeasured). *)
Ordered(config) == \A g \in Groups : config.cfg[g].warning < config.cfg[g].critical

ASSUME FirmwareAssumption ==
  /\ Inputs \subseteq GroupInputs
  /\ CalibrationDuties \subseteq Duties
  /\ Gaps \subseteq Nat
  /\ \A e \in Environments :
       /\ e.data \subseteq PersistedData
       /\ e.candidates \subseteq ControllerConfigs
       /\ \A config \in e.data \cup e.candidates : Ordered(config)
       /\ e.ids \subseteq Ids
       /\ e.snapshots \subseteq [Groups -> Reports]
       /\ e.overrides \subseteq ModeRequests
       /\ e.results \subseteq GroupCalibrations
       /\ \A r \in e.results : r.minimumRunningDuty > 0
       /\ e.supplies \subseteq SUBSET GlobalFaults
       /\ e.saveTimes \subseteq Nat
       /\ e.until \in Nat \ {0}

VARIABLES
  env,       (* The environment of this behaviour.                         *)
  uptime,    (* When this pass started, in ticks since the boot.           *)
  stage,     (* "poll" while frames are handled, "idle" between passes.    *)
  frames,    (* Frames handled in this pass.                               *)
  spent,     (* Time spent on a save since the pass started.               *)
  app,       (* The FirmwareApp object and what it owns.                   *)
  stored,    (* The persisted data in the EEPROM.                          *)
  silentFrom,   (* History: when the last snapshot was accepted.           *)
  unsaved,      (* History: the last save that RAM still shows had failed. *)
  owed,         (* History: groups calibrated and not returned since.      *)
  overtaken     (* History: those whose end another start hid from the     *)
                (* loop, in the pass in which they were aborted.           *)

vars == <<env, uptime, stage, frames, spent, app, stored,
          silentFrom, unsaved, owed, overtaken>>

now == uptime % TimeModulus

-----------------------------------------------------------------------------
(* setup() *)
Booted(data, t) ==
  [data |-> data,
   groups |-> [g \in Groups |-> Begin(data.cfg[g], data.cal[g], t)],
   pwm |-> [g \in Groups |-> FullDuty],
   phase |-> "Idle", group |-> CHOOSE g \in Groups : TRUE,
   duty |-> FullDuty, aborted |-> FALSE,
   lastHost |-> t, heartbeatPending |-> FALSE,
   globalActive |-> {}, globalLatched |-> {},
   published |-> [g \in Groups |-> {}]]

(* CalibrationManager::active() between two passes; the phases of a running
   calibration are one here, and Complete does not outlive the pass. *)
Calibrating(a) == a.phase = "Running"

Target(a) == a.group

(* hostUpdateTimedOut *)
TimedOut(a, t) == Elapsed(t, a.lastHost) >= a.data.timeout

-----------------------------------------------------------------------------
(* handleFrame: the frames that change state and are accepted; a frame that is
   refused, for its length, its values or as busy or unsafe, changes nothing. *)

Received(a, snapshot, t) ==
  [a EXCEPT
     !.groups = [g \in Groups |->
                   SetTemperature(@[g], snapshot[g].value, snapshot[g].valid)],
     !.lastHost = t,
     !.heartbeatPending = TRUE]

Reconfigured(a, data, t) ==
  [a EXCEPT
     !.data = data,
     !.groups = [g \in Groups |->
                   ApplyConfiguration(@[g], data.cfg[g], data.cal[g], t)]]

(* The checks of MessageStartCalibration and of CalibrationManager::start; the
   active faults are those of the last pass, the temperature may be newer.  The
   current monitor, which must be present, is taken to be. *)
MayStart(a, g) ==
  /\ ~Calibrating(a)
  /\ "TemperatureInvalid" \notin a.groups[g].active
  /\ a.groups[g].temperature < a.data.cfg[g].warning
  /\ a.data.cfg[g].enabled
  /\ a.data.cfg[g].expectedFanMask # {}

Started(a, g) ==
  [a EXCEPT !.phase = "Running", !.group = g, !.duty = 0, !.aborted = FALSE]

(* CalibrationManager::abort, for whatever reason. *)
Aborted(a) ==
  IF Calibrating(a)
    THEN [a EXCEPT !.phase = "Aborted", !.duty = FullDuty, !.aborted = TRUE]
    ELSE a

-----------------------------------------------------------------------------
(* updateControllers.  A calibration's progress in a pass is a record: "measure"
   and the duty it asks for, "fail", or "complete" and the result. *)
Progress ==
  [step : {"measure"}, duty : CalibrationDuties]
  \cup [step : {"complete"}, result : env.results]
  \cup {[step |-> "fail"]}

(* The control update of both groups. *)
GroupsUpdated(a, t, in) ==
  [a EXCEPT !.groups =
     [g \in Groups |->
        Update(SetCalibrationOverride(@[g], Calibrating(a) /\ g = Target(a), a.duty),
               a.data.cfg[g], a.data.cal[g], t, TimedOut(a, t), in[g])]]

MustAbort_SilenceFault(a, t) ==
  LET g == a.groups[Target(a)]
  IN  \/ "TemperatureInvalid" \in g.active
      \/ g.temperature >= a.data.cfg[Target(a)].warning

MustAbort_InvalidFault(a, t) ==
  \/ TimedOut(a, t)
  \/ a.groups[Target(a)].temperature >= a.data.cfg[Target(a)].warning

MustAbort_WarmFault(a, t) ==
  TimedOut(a, t) \/ "TemperatureInvalid" \in a.groups[Target(a)].active

(* The host is silent, or the calibrated group is not known to be cool. *)
MustAbort(a, t) ==
  LET g == a.groups[Target(a)]
  IN  \/ TimedOut(a, t)
      \/ "TemperatureInvalid" \in g.active
      \/ g.temperature >= a.data.cfg[Target(a)].warning

CalibrationUpdated(a, t, p) ==
  IF ~Calibrating(a) THEN a
  ELSE IF MustAbort(a, t) \/ p.step = "fail" THEN Aborted(a)
  ELSE IF p.step = "measure" THEN [a EXCEPT !.duty = p.duty]
  ELSE [a EXCEPT !.phase = "Complete", !.duty = FullDuty]

(* The measurements are saved; a save that fails is taken back. *)
Committed(a, p, saved, t) ==
  IF a.phase # "Complete" THEN a
  ELSE LET prepared == PrepareCommit(a.data, Target(a), p.result)
           data     == IF saved THEN prepared
                       ELSE RollBack(prepared, a.data, Target(a))
       IN  [Reconfigured(a, data, t) EXCEPT
              !.phase = IF saved THEN "Saved" ELSE "StorageFailed",
              !.aborted = ~saved,
              !.duty = FullDuty]

Returned_OverrideFault(a, g, t) ==
  LET released == SetCalibrationOverride(a.groups[g], FALSE, FullDuty)
  IN  [a EXCEPT !.groups[g] = IF a.aborted THEN SetCalibrationAbortedFault(released)
                                           ELSE released,
                !.aborted = FALSE]

(* The group of a calibration that ended goes back to automatic control. *)
Returned(a, g, t) ==
  LET released == SetOverride(SetCalibrationOverride(a.groups[g], FALSE, FullDuty),
                              a.data.cfg[g], a.data.cal[g], "Automatic", 0, 0, t)
  IN  [a EXCEPT !.groups[g] = IF a.aborted THEN SetCalibrationAbortedFault(released)
                                           ELSE released,
                !.aborted = FALSE]

(* The outputs are set, to the duty of the group unless it is calibrated or was
   until this pass. *)
Output(a, ended, t) ==
  LET duty == [g \in Groups |->
                 IF g = Target(a) /\ ended THEN FullDuty
                 ELSE IF g = Target(a) /\ Calibrating(a) THEN a.duty
                 ELSE a.groups[g].duty]
  IN  [a EXCEPT
         !.pwm = duty,
         !.groups = [g \in Groups |-> SynchronizeAppliedDuty(@[g], duty[g], t)]]

UpdateControllers(a, t, in, p, saved, delay) ==
  LET measured  == CalibrationUpdated(GroupsUpdated(a, t, in), t, p)
      later     == IF measured.phase = "Complete" THEN TimeAdd(t, delay) ELSE t
      committed == Committed(measured, p, saved, later)
      ended     == \/ committed.aborted
                   \/ Calibrating(a) /\ ~Calibrating(committed)
  IN  Output(IF ended THEN Returned(committed, Target(a), later) ELSE committed,
             ended, later)

(* updateGlobalFaults, with the clock the pass began with. *)
UpdateGlobalFaults(a, t, supply) ==
  LET active == supply
                \cup (IF a.data.generation = 0 THEN {"DefaultConfiguration"} ELSE {})
                \cup (IF TimedOut(a, t) THEN {"HostTimeout"} ELSE {})
  IN  [a EXCEPT !.globalActive = active, !.globalLatched = @ \cup active]

(* AlertPublisher::update remembers what it published; then a snapshot that was
   accepted in this pass is answered. *)
Published(a) ==
  [a EXCEPT !.published = [g \in Groups |-> a.groups[g].active],
            !.heartbeatPending = FALSE]

-----------------------------------------------------------------------------
Init ==
  /\ env \in Environments
  /\ uptime = 1   (* setup() has taken a while. *)
  /\ stage = "poll"
  /\ frames = 0
  /\ spent = 0
  /\ stored \in env.data
  /\ app = Booted(stored, now)
  /\ silentFrom = uptime
  /\ unsaved = FALSE
  /\ owed = {}
  /\ overtaken = {}

(* A frame is handled in the pass that found it, at the time the pass began. *)
Frame ==
  /\ stage = "poll"
  /\ frames < env.frames
  /\ frames' = frames + 1
  /\ UNCHANGED <<env, uptime, stage, spent>>

HandleTemperatures(snapshot) ==
  /\ Frame
  /\ app' = Received(app, snapshot, now)
  /\ silentFrom' = uptime
  /\ UNCHANGED <<stored, unsaved, owed, overtaken>>

(* The new configuration controls the fans from now on, saved or not. *)
HandleSetConfiguration(candidate, saved) ==
  /\ Frame
  /\ ~Calibrating(app)
  /\ app' = Reconfigured(app, Apply(app.data, candidate), now)
  /\ stored' = IF saved THEN app'.data ELSE stored
  /\ unsaved' = ~saved
  /\ UNCHANGED <<silentFrom, owed, overtaken>>

HandleSetControllerId(id, saved) ==
  /\ Frame
  /\ app' = [app EXCEPT !.data.id = id]
  /\ stored' = IF saved THEN app'.data ELSE stored
  /\ unsaved' = ~saved
  /\ UNCHANGED <<silentFrom, owed, overtaken>>

HandleSetMode(g, o) ==
  /\ Frame
  /\ ~Calibrating(app)
  /\ app.data.cfg[g].enabled
  /\ app' = [app EXCEPT !.groups[g] =
               SetOverride(@, app.data.cfg[g], app.data.cal[g],
                           o.mode, o.duty, o.timeout, now)]
  /\ UNCHANGED <<stored, silentFrom, unsaved, owed, overtaken>>

HandleStartCalibration(g) ==
  /\ Frame
  /\ MayStart(app, g)
  /\ app' = Started(app, g)
  /\ owed' = owed \cup {g}
  /\ overtaken' = (IF app.aborted THEN overtaken \cup {Target(app)}
                                  ELSE overtaken) \ {g}
  /\ UNCHANGED <<stored, silentFrom, unsaved>>

HandleAbortCalibration ==
  /\ Frame
  /\ app' = Aborted(app)
  /\ UNCHANGED <<stored, silentFrom, unsaved, owed, overtaken>>

HandleClearFaults(r) ==
  /\ Frame
  /\ app' = [app EXCEPT
               !.groups = [g \in Groups |-> IF g \in r.groups
                                             THEN ClearLatchedFaults(@[g]) ELSE @[g]],
               !.globalLatched = IF r.global THEN {} ELSE @]
  /\ UNCHANGED <<stored, silentFrom, unsaved, owed, overtaken>>

(* Group g left a calibration as it should: at full speed, in automatic control,
   and with a fault unless the result was saved. *)
IsReturned(a, g) ==
  /\ ~(Calibrating(a) /\ g = Target(a))
  /\ a.pwm[g] = FullDuty
  /\ a.groups[g].overrideMode = "Automatic"
  /\ \/ a.phase = "Saved" /\ g = Target(a)
     \/ /\ "CalibrationAborted" \in a.groups[g].active
        /\ "CalibrationAborted" \in a.groups[g].latched

(* The rest of the pass, after the frames: control, faults, alert, heartbeat. *)
Control(in, supply, p, saved, delay) ==
  /\ stage = "poll"
  /\ stage' = "idle"
  /\ app' = Published(UpdateGlobalFaults(
               UpdateControllers(app, now, in, p, saved, delay), now, supply))
  /\ LET committed == app'.phase = "Saved" /\ Calibrating(app)
     IN  /\ stored' = IF committed THEN app'.data ELSE stored
         /\ unsaved' = (unsaved /\ ~committed)
  /\ spent' = delay
  /\ owed' = {g \in owed : ~IsReturned(app', g)}
  /\ overtaken' = overtaken \cap owed'
  /\ UNCHANGED <<env, uptime, frames, silentFrom>>

(* loop() runs again; a save has kept it waiting. *)
Wake(gap) ==
  /\ stage = "idle"
  /\ gap >= spent
  /\ uptime + gap <= env.until
  /\ uptime' = uptime + gap
  /\ stage' = "poll"
  /\ frames' = 0
  /\ spent' = 0
  /\ UNCHANGED <<env, app, stored, silentFrom, unsaved, owed, overtaken>>

(* Power is lost, or the serial adapter resets the Nano; the clock restarts. *)
Reset ==
  /\ uptime' = 1
  /\ stage' = "poll"
  /\ frames' = 0
  /\ spent' = 0
  /\ app' = Booted(stored, 1)
  /\ silentFrom' = 1
  /\ unsaved' = FALSE
  /\ owed' = {}
  /\ overtaken' = {}
  /\ UNCHANGED <<env, stored>>

Next ==
  \/ \E s \in env.snapshots : HandleTemperatures(s)
  \/ \E c \in env.candidates, saved \in BOOLEAN : HandleSetConfiguration(c, saved)
  \/ \E id \in env.ids, saved \in BOOLEAN : HandleSetControllerId(id, saved)
  \/ \E g \in Groups, o \in env.overrides : HandleSetMode(g, o)
  \/ \E g \in Groups : HandleStartCalibration(g)
  \/ HandleAbortCalibration
  \/ \E r \in env.clears : HandleClearFaults(r)
  \/ \E in \in [Groups -> Inputs], supply \in env.supplies, p \in Progress,
        saved \in BOOLEAN, delay \in env.saveTimes : Control(in, supply, p, saved, delay)
  \/ \E gap \in Gaps : Wake(gap)
  \/ Reset

Spec == Init /\ [][Next]_vars

-----------------------------------------------------------------------------
(* When the host has been silent for the timeout, both outputs are at 100%: of
   a disabled group, one that is Off or stopped, and one that is calibrated;
   also when the timeout was changed meanwhile. *)
SilenceIsFullSpeed ==
  stage = "idle" /\ uptime - silentFrom >= app.data.timeout =>
    \A g \in Groups : app.pwm[g] = FullDuty

(* At the output itself, past calibration and its direct access to the PWM: an
   enabled group whose temperature is not known or critical gets 100%. *)
UnsafeOutputIsFull ==
  stage = "idle" =>
    \A g \in Groups :
      LET a == app.groups[g]
      IN  /\ app.data.cfg[g].enabled
          /\ ~a.temperatureValid \/ a.temperature >= app.data.cfg[g].critical
          => app.pwm[g] = FullDuty

(* No pass ends with a calibration in progress on a group that is disabled, of
   unknown temperature, at its warning threshold or without its host, however
   the start, the snapshots and the passes interleave. *)
CalibratesCoolGroup ==
  stage = "idle" /\ Calibrating(app) =>
    LET g == Target(app)
    IN  /\ app.data.cfg[g].enabled
        /\ app.groups[g].temperatureValid
        /\ app.groups[g].temperature < app.data.cfg[g].warning
        /\ uptime - silentFrom < app.data.timeout

(* Every group whose calibration is over was returned at full speed, to Auto
   ("A prior manual Off override does not resume"), and with a latched fault
   unless its result was saved. *)
CalibrationsReturned ==
  stage = "idle" => owed \subseteq {g \in {Target(app)} : Calibrating(app)}

(* The same of every calibration but one that was aborted and followed by the
   start of another in the frames of one pass. *)
ReturnedUnlessOvertaken ==
  stage = "idle" => owed \ overtaken \subseteq {g \in {Target(app)} : Calibrating(app)}

(* While no failed save is outstanding, RAM and EEPROM agree: a calibration that
   could not be stored leaves no trace in the settings, the generations or the
   table, so a restart never changes what controls the fans. *)
SavedIsInForce == ~unsaved => app.data = stored

(* Between restarts a calibration table never changes without its generation,
   which is how the host, that sees it in every heartbeat, learns to read the
   table again. *)
TablesAreVersioned ==
  [][app'.data.cal # app.data.cal /\ ~Reset =>
       app'.data.calGeneration # app.data.calGeneration]_vars

=============================================================================
