--------------------------- MODULE FirmwareProofs ---------------------------
(***************************************************************************)
(* Theorems about the main loop of the Nano: silence and an unsafe         *)
(* temperature mean full speed at the outputs, only a cool group is        *)
(* calibrated and every calibration is returned, and what controls the     *)
(* fans is what the EEPROM holds unless a save has failed.                 *)
(***************************************************************************)
EXTENDS Firmware, FanGroupControllerProofs

-----------------------------------------------------------------------------
(* The persisted data. *)

LEMMA GenerationSteps ==
  ASSUME NEW n \in Generations
  PROVE  /\ NextGeneration(n) \in Generations /\ PriorGeneration(n) \in Generations
         /\ NextGeneration(n) # n
         /\ PriorGeneration(NextGeneration(n)) = n
BY ConfigurationAssumption DEF Generations, NextGeneration, PriorGeneration

LEMMA NoCalibrationType == NoCalibration \in GroupCalibrations
BY RampAssumption DEF NoCalibration, GroupCalibrations, Duties

LEMMA CommittedStartupType ==
  ASSUME NEW c \in GroupConfigs, NEW k \in GroupCalibrations
  PROVE  CommittedStartup(c, k) \in Duties
<1> DEFINE a == k.minimumRunningDuty
           h == [f \in Fans |-> BoostedStart(k, f)]
           M == c.expectedFanMask
<1>1. M \in SUBSET Fans /\ a \in Duties
  BY DEF GroupConfigs, GroupCalibrations
<1>2. Duties \subseteq Int
  BY RampAssumption DEF Duties
<1>3. h \in [Fans -> Duties]
  <2> SUFFICES ASSUME NEW f \in Fans PROVE BoostedStart(k, f) \in Duties
    OBVIOUS
  <2>1. k.startDuty[f] + StartMargin \in Nat
    BY GroupAssumption, RampAssumption DEF GroupCalibrations, Duties
  <2>2. QED
    BY <2>1, RampAssumption DEF BoostedStart, Capped, Duties
<1>4. {BoostedStart(k, f) : f \in M} = {h[f] : f \in M}
  BY <1>1
<1>5. CommittedStartup(c, k) = Highest(FanNumbers(a, a, h, M))
  BY <1>4 DEF CommittedStartup, FanNumbers
<1> HIDE DEF a, h, M
<1>6. Highest(FanNumbers(a, a, h, M)) \in FanNumbers(a, a, h, M)
  BY <1>1, <1>2, <1>3, HighestOfFans
<1>7. QED
  BY <1>1, <1>3, <1>5, <1>6 DEF FanNumbers

LEMMA ApplyType ==
  ASSUME NEW d \in PersistedData, NEW c \in ControllerConfigs
  PROVE  /\ Apply(d, c) \in PersistedData
         /\ Apply(d, c).cfg = c.cfg
         /\ Apply(d, c).cal # d.cal => Apply(d, c).calGeneration # d.calGeneration
<1> DEFINE moved == {g \in Groups : d.cfg[g].expectedFanMask # c.cfg[g].expectedFanMask}
           cal == [g \in Groups |-> IF g \in moved THEN NoCalibration ELSE d.cal[g]]
           next == IF moved = {} THEN d.calGeneration ELSE NextGeneration(d.calGeneration)
           x == Apply(d, c)
<1>1. cal \in [Groups -> GroupCalibrations]
  BY NoCalibrationType DEF PersistedData
<1>2. moved = {} => cal = d.cal
  BY DEF PersistedData
<1>3. next \in Generations /\ (moved # {} => next # d.calGeneration)
  BY GenerationSteps DEF PersistedData
<1>4. x = [d EXCEPT !.generation = c.generation, !.timeout = c.timeout, !.cfg = c.cfg,
                    !.cal = cal, !.calGeneration = next]
  BY DEF Apply
<1> HIDE DEF moved, cal, next, x
<1>5. x \in PersistedData /\ x.cfg = c.cfg /\ x.cal = cal /\ x.calGeneration = next
  BY <1>1, <1>3, <1>4 DEF PersistedData, ControllerConfigs
<1>6. QED
  BY <1>2, <1>3, <1>5 DEF x

(* The settings of a group with what a calibration of it measured. *)
Measured(c, k) ==
  [c EXCEPT !.minimumDuty = k.minimumRunningDuty,
            !.startupDuty = CommittedStartup(c, k),
            !.startupTime = MeasuredStartupTime]

LEMMA MeasuredType ==
  ASSUME NEW c \in GroupConfigs, NEW k \in GroupCalibrations, k.minimumRunningDuty > 0
  PROVE  LET x == Measured(c, k)
         IN  /\ x \in GroupConfigs
             /\ x.enabled = c.enabled
             /\ x.warning = c.warning /\ x.critical = c.critical
             /\ [x EXCEPT !.minimumDuty = c.minimumDuty,
                          !.startupDuty = c.startupDuty,
                          !.startupTime = c.startupTime] = c
<1>1. k.minimumRunningDuty \in Duties \ {0} /\ MeasuredStartupTime \in Nat
  BY GroupAssumption DEF GroupCalibrations
<1>2. CommittedStartup(c, k) \in Duties
  BY CommittedStartupType
<1>3. QED
  BY <1>1, <1>2 DEF GroupConfigs, Measured

(* A commit changes the settings of the calibrated group that it measured, the
   table and both generations; nothing else. *)
LEMMA PrepareCommitType ==
  ASSUME NEW d \in PersistedData, NEW g \in Groups, NEW k \in GroupCalibrations,
         k.minimumRunningDuty > 0
  PROVE  LET x == PrepareCommit(d, g, k)
         IN  /\ x \in PersistedData
             /\ x.timeout = d.timeout /\ x.id = d.id
             /\ x.cfg = [d.cfg EXCEPT ![g] = Measured(d.cfg[g], k)]
             /\ x.cal = [d.cal EXCEPT ![g] = k]
             /\ x.generation = NextGeneration(d.generation)
             /\ x.calGeneration = NextGeneration(d.calGeneration)
<1> DEFINE cfg == [d.cfg EXCEPT ![g] = Measured(d.cfg[g], k)]
           cal == [d.cal EXCEPT ![g] = k]
           x == PrepareCommit(d, g, k)
<1>1. d.cfg \in [Groups -> GroupConfigs] /\ d.cal \in [Groups -> GroupCalibrations]
  BY DEF PersistedData
<1>2. cfg \in [Groups -> GroupConfigs] /\ cal \in [Groups -> GroupCalibrations]
  BY <1>1, MeasuredType
<1>3. x = [d EXCEPT !.cal = cal, !.calGeneration = NextGeneration(d.calGeneration),
                    !.cfg = cfg, !.generation = NextGeneration(d.generation)]
  BY DEF PrepareCommit, PersistedData, Measured
<1> HIDE DEF cfg, cal, x
<1>4. /\ NextGeneration(d.generation) \in Generations
      /\ NextGeneration(d.calGeneration) \in Generations
  BY GenerationSteps DEF PersistedData
<1>5. /\ x \in PersistedData /\ x.timeout = d.timeout /\ x.id = d.id
      /\ x.cfg = cfg /\ x.cal = cal
      /\ x.generation = NextGeneration(d.generation)
      /\ x.calGeneration = NextGeneration(d.calGeneration)
  BY <1>2, <1>3, <1>4 DEF PersistedData
<1>6. QED
  BY <1>5 DEF cfg, cal, x

(* What a commit keeps of the settings. *)
SameThresholds(x, d) ==
  /\ x.timeout = d.timeout
  /\ \A g \in Groups : /\ x.cfg[g].enabled = d.cfg[g].enabled
                       /\ x.cfg[g].warning = d.cfg[g].warning
                       /\ x.cfg[g].critical = d.cfg[g].critical

LEMMA PrepareCommitSettings ==
  ASSUME NEW d \in PersistedData, NEW g \in Groups, NEW k \in GroupCalibrations,
         k.minimumRunningDuty > 0
  PROVE  LET x == PrepareCommit(d, g, k)
         IN  /\ x \in PersistedData /\ SameThresholds(x, d)
             /\ x.calGeneration # d.calGeneration
<1> DEFINE x == PrepareCommit(d, g, k)
<1>1. /\ x \in PersistedData
      /\ x.timeout = d.timeout /\ x.id = d.id
      /\ x.cfg = [d.cfg EXCEPT ![g] = Measured(d.cfg[g], k)]
      /\ x.cal = [d.cal EXCEPT ![g] = k]
      /\ x.generation = NextGeneration(d.generation)
      /\ x.calGeneration = NextGeneration(d.calGeneration)
  BY PrepareCommitType
<1>2. d.cfg \in [Groups -> GroupConfigs] /\ d.calGeneration \in Generations
  BY DEF PersistedData
<1>3. LET c == Measured(d.cfg[g], k)
      IN  /\ c.enabled = d.cfg[g].enabled
          /\ c.warning = d.cfg[g].warning /\ c.critical = d.cfg[g].critical
  BY <1>2, MeasuredType
<1> HIDE DEF x
<1>4. SameThresholds(x, d)
  BY <1>1, <1>2, <1>3 DEF SameThresholds
<1>5. QED
  BY <1>1, <1>2, <1>4, GenerationSteps DEF x

(* A commit that could not be stored is undone to the last field, also where a
   generation wraps. *)
LEMMA RollBackUndoes ==
  ASSUME NEW d \in PersistedData, NEW g \in Groups, NEW k \in GroupCalibrations,
         k.minimumRunningDuty > 0
  PROVE  RollBack(PrepareCommit(d, g, k), d, g) = d
<1> DEFINE p == PrepareCommit(d, g, k)
           c == [Measured(d.cfg[g], k) EXCEPT !.minimumDuty = d.cfg[g].minimumDuty,
                                              !.startupDuty = d.cfg[g].startupDuty,
                                              !.startupTime = d.cfg[g].startupTime]
           x == RollBack(p, d, g)
<1>1. /\ d.cfg \in [Groups -> GroupConfigs] /\ d.cal \in [Groups -> GroupCalibrations]
      /\ d.cfg[g] \in GroupConfigs
      /\ PriorGeneration(NextGeneration(d.generation)) = d.generation
      /\ PriorGeneration(NextGeneration(d.calGeneration)) = d.calGeneration
  BY GenerationSteps DEF PersistedData
<1>2. /\ p \in PersistedData
      /\ p.timeout = d.timeout /\ p.id = d.id
      /\ p.cfg = [d.cfg EXCEPT ![g] = Measured(d.cfg[g], k)]
      /\ p.cal = [d.cal EXCEPT ![g] = k]
      /\ p.generation = NextGeneration(d.generation)
      /\ p.calGeneration = NextGeneration(d.calGeneration)
  BY PrepareCommitType
<1> HIDE DEF p
<1>3. c = d.cfg[g] /\ p.cfg[g] = Measured(d.cfg[g], k)
  BY <1>1, <1>2, MeasuredType
<1>4. x = [p EXCEPT !.cal = [p.cal EXCEPT ![g] = d.cal[g]],
                    !.calGeneration = PriorGeneration(p.calGeneration),
                    !.cfg = [p.cfg EXCEPT ![g] = c],
                    !.generation = PriorGeneration(p.generation)]
  BY <1>2, <1>3 DEF RollBack, PersistedData
<1> HIDE DEF c, x
<1>5. [p.cal EXCEPT ![g] = d.cal[g]] = d.cal /\ [p.cfg EXCEPT ![g] = c] = d.cfg
  BY <1>1, <1>2, <1>3
<1>6. x = d
  BY <1>1, <1>2, <1>4, <1>5, ZenonT(60) DEF PersistedData
<1>7. QED
  BY <1>6 DEF p, x

-----------------------------------------------------------------------------
(* The methods of a group that a pass calls besides its control update. *)

(* Neither the reading nor the output changes. *)
SameOutput(x, g) == SameReading(x, g) /\ x.duty = g.duty

LEMMA SetCalibrationOverrideOutput ==
  ASSUME NEW g \in FanGroups, NEW on \in BOOLEAN, NEW duty \in Duties
  PROVE  LET x == SetCalibrationOverride(g, on, duty)
         IN  x \in FanGroups /\ SameOutput(x, g)
<1>1. SetCalibrationOverride(g, on, duty) \in FanGroups
  BY SetCalibrationOverrideType
<1>2. QED
  BY <1>1 DEF SetCalibrationOverride, FanGroups, SameOutput, SameReading

LEMMA ApplyConfigurationOutput ==
  ASSUME NEW g \in FanGroups, NEW c \in GroupConfigs, NEW k \in GroupCalibrations,
         NEW t \in Times
  PROVE  LET x == ApplyConfiguration(g, c, k, t)
         IN  x \in FanGroups /\ SameOutput(x, g)
<1>1. ApplyConfiguration(g, c, k, t) \in FanGroups
  BY ApplyConfigurationType
<1>2. ClearFaultTimers(g) \in FanGroups /\ SameOutput(ClearFaultTimers(g), g)
  BY TimersType DEF ClearFaultTimers, StopFanTimers, StopCurrentTimers, FanGroups,
                    SameOutput, SameReading
<1>3. QED
  BY <1>1, <1>2 DEF ApplyConfiguration, FanGroups, SameOutput, SameReading

LEMMA AutomaticOutput ==
  ASSUME NEW g \in FanGroups, NEW c \in GroupConfigs, NEW k \in GroupCalibrations,
         NEW t \in Times
  PROVE  LET x == SetOverride(g, c, k, "Automatic", 0, 0, t)
         IN  x \in FanGroups /\ SameOutput(x, g) /\ x.overrideMode = "Automatic"
<1>1. SetOverride(g, c, k, "Automatic", 0, 0, t) \in FanGroups
  BY SetOverrideType DEF RequestedModes
<1>2. QED
  BY <1>1 DEF SetOverride, FanGroups, SameOutput, SameReading

LEMMA CalibrationAbortedOutput ==
  ASSUME NEW g \in FanGroups
  PROVE  LET x == SetCalibrationAbortedFault(g)
         IN  /\ x \in FanGroups /\ SameOutput(x, g) /\ x.overrideMode = g.overrideMode
             /\ "CalibrationAborted" \in x.active
             /\ "CalibrationAborted" \in x.latched
BY DEF SetCalibrationAbortedFault, FanGroups, GroupFaults, SameOutput, SameReading

LEMMA SynchronizedReading ==
  ASSUME NEW g \in FanGroups, NEW duty \in Duties, NEW t \in Times
  PROVE  LET x == SynchronizeAppliedDuty(g, duty, t)
         IN  /\ x \in FanGroups /\ SameReading(x, g)
             /\ x.overrideMode = g.overrideMode
             /\ x.active = g.active /\ x.latched = g.latched
<1>1. SynchronizeAppliedDuty(g, duty, t) \in FanGroups
  BY SynchronizeAppliedDutyType
<1>2. QED
  BY <1>1 DEF SynchronizeAppliedDuty, FanGroups, SameReading

-----------------------------------------------------------------------------
(* The stages of updateControllers. *)

Phases == {"Idle", "Running", "Complete", "Saved", "StorageFailed", "Aborted"}

(* The members of FirmwareApp and of what it owns. *)
Apps ==
  [data : PersistedData, groups : [Groups -> FanGroups], pwm : [Groups -> Duties],
   phase : Phases, group : Groups, duty : Duties, aborted : BOOLEAN,
   lastHost : Times, heartbeatPending : BOOLEAN,
   globalActive : SUBSET GlobalFaults, globalLatched : SUBSET GlobalFaults,
   published : [Groups -> SUBSET GroupFaults]]

(* What a control update leaves of a group, with or without the host's alarm. *)
Controlled(x, c, alarm) ==
  /\ alarm => x.duty = FullDuty
  /\ c.enabled => x.duty = FullDuty \/ (x.temperatureValid /\ x.temperature < c.critical)
  /\ ~alarm /\ c.enabled /\ "TemperatureInvalid" \notin x.active => x.temperatureValid

LEMMA GroupsUpdatedType ==
  ASSUME NEW a \in Apps, NEW t \in Times, NEW in \in [Groups -> GroupInputs]
  PROVE  \E groups \in [Groups -> FanGroups] :
           /\ GroupsUpdated(a, t, in) = [a EXCEPT !.groups = groups]
           /\ \A g \in Groups : Controlled(groups[g], a.data.cfg[g], TimedOut(a, t))
<1> DEFINE handed(g) == SetCalibrationOverride(a.groups[g],
                                               Calibrating(a) /\ g = Target(a), a.duty)
           updated(g) == Update(handed(g), a.data.cfg[g], a.data.cal[g], t,
                                TimedOut(a, t), in[g])
           groups == [g \in Groups |-> updated(g)]
<1>1. /\ a.duty \in Duties /\ TimedOut(a, t) \in BOOLEAN /\ Calibrating(a) \in BOOLEAN
      /\ \A g \in Groups : /\ a.groups[g] \in FanGroups
                            /\ a.data.cfg[g] \in GroupConfigs
                            /\ a.data.cal[g] \in GroupCalibrations
                            /\ in[g] \in GroupInputs
  BY DEF Apps, PersistedData, TimedOut, Calibrating
<1>2. ASSUME NEW g \in Groups
      PROVE  /\ updated(g) \in FanGroups
             /\ Controlled(updated(g), a.data.cfg[g], TimedOut(a, t))
  <2>1. handed(g) \in FanGroups
    BY <1>1, SetCalibrationOverrideOutput
  <2> HIDE DEF handed
  <2>2. /\ updated(g) \in FanGroups
        /\ \/ updated(g).duty = FullDuty
           \/ a.data.cfg[g].enabled =>
                /\ updated(g).temperatureValid
                /\ updated(g).temperature < a.data.cfg[g].critical
    BY <1>1, <2>1, UpdateType
  <2>3. /\ TimedOut(a, t) => updated(g).duty = FullDuty
        /\ /\ ~TimedOut(a, t) /\ a.data.cfg[g].enabled
           /\ "TemperatureInvalid" \notin updated(g).active
           => updated(g).temperatureValid
    BY <1>1, <2>1, UpdateReading
  <2> HIDE DEF updated
  <2>4. QED
    BY <2>2, <2>3 DEF Controlled
<1>3. GroupsUpdated(a, t, in) = [a EXCEPT !.groups = groups]
  BY DEF GroupsUpdated
<1> HIDE DEF updated
<1>4. groups \in [Groups -> FanGroups] /\ \A g \in Groups : groups[g] = updated(g)
  BY <1>2
<1>5. QED
  BY <1>2, <1>3, <1>4

(* A step of a calibration that the pass may take. *)
Progresses(p) ==
  \/ p.step = "measure" /\ p.duty \in Duties
  \/ p.step = "fail"
  \/ /\ p.step = "complete"
     /\ p.result \in GroupCalibrations /\ p.result.minimumRunningDuty > 0

LEMMA CalibrationUpdatedType ==
  ASSUME NEW a \in Apps, NEW t \in Times, NEW p, Progresses(p), a.phase # "Complete"
  PROVE  LET x == CalibrationUpdated(a, t, p)
         IN  /\ x \in Apps /\ x.group = a.group /\ x.lastHost = a.lastHost
             /\ x.data = a.data /\ x.groups = a.groups
             /\ \/ ~Calibrating(a) /\ x = a
                \/ Calibrating(a) /\ x.phase = "Aborted" /\ x.aborted
                \/ /\ Calibrating(a) /\ ~MustAbort(a, t)
                   /\ x.phase = "Running" /\ x.aborted = a.aborted
                \/ /\ Calibrating(a) /\ p.step = "complete"
                   /\ x.phase = "Complete" /\ x.aborted = a.aborted
<1>1. FullDuty \in Duties
  BY RampAssumption DEF Duties
<1>2. CASE ~Calibrating(a)
  BY <1>2 DEF CalibrationUpdated
<1>3. CASE Calibrating(a) /\ (MustAbort(a, t) \/ p.step = "fail")
  BY <1>1, <1>3 DEF CalibrationUpdated, Aborted, Apps, Phases
<1>4. CASE Calibrating(a) /\ ~MustAbort(a, t) /\ p.step = "measure"
  BY <1>4 DEF CalibrationUpdated, Calibrating, Progresses, Apps, Phases
<1>5. CASE Calibrating(a) /\ ~MustAbort(a, t) /\ p.step = "complete"
  BY <1>1, <1>5 DEF CalibrationUpdated, Apps, Phases
<1>6. QED
  BY <1>2, <1>3, <1>4, <1>5 DEF Progresses

LEMMA CommittedType ==
  ASSUME NEW a \in Apps, NEW p, Progresses(p), NEW saved \in BOOLEAN, NEW t \in Times,
         a.phase = "Complete" => p.step = "complete"
  PROVE  LET x == Committed(a, p, saved, t)
         IN  /\ x \in Apps /\ x.group = a.group /\ x.lastHost = a.lastHost
             /\ \A g \in Groups : SameOutput(x.groups[g], a.groups[g])
             /\ SameThresholds(x.data, a.data)
             /\ a.phase # "Complete" => x = a
             /\ a.phase = "Complete" =>
                  IF saved THEN /\ x.phase = "Saved" /\ ~x.aborted
                                /\ x.data.calGeneration # a.data.calGeneration
                  ELSE x.phase = "StorageFailed" /\ x.aborted /\ x.data = a.data
<1>1. CASE a.phase # "Complete"
  <2>1. Committed(a, p, saved, t) = a
    BY <1>1 DEF Committed
  <2>2. QED
    BY <1>1, <2>1 DEF SameOutput, SameReading, SameThresholds
<1>2. CASE a.phase = "Complete"
  <2> DEFINE prepared == PrepareCommit(a.data, a.group, p.result)
             data == IF saved THEN prepared ELSE RollBack(prepared, a.data, a.group)
             groups == [g \in Groups |->
                          ApplyConfiguration(a.groups[g], data.cfg[g], data.cal[g], t)]
             x == Committed(a, p, saved, t)
  <2>1. /\ a.data \in PersistedData /\ a.group \in Groups
        /\ p.result \in GroupCalibrations /\ p.result.minimumRunningDuty > 0
        /\ a.data.cfg \in [Groups -> GroupConfigs]
        /\ a.data.cfg[a.group] \in GroupConfigs
    BY <1>2 DEF Apps, PersistedData, Progresses
  <2>2. /\ prepared \in PersistedData /\ SameThresholds(prepared, a.data)
        /\ prepared.calGeneration # a.data.calGeneration
    BY <2>1, PrepareCommitSettings
  <2>3. RollBack(prepared, a.data, a.group) = a.data
    BY <2>1, RollBackUndoes
  <2> HIDE DEF prepared
  <2>4. /\ data \in PersistedData /\ SameThresholds(data, a.data)
        /\ IF saved THEN data.calGeneration # a.data.calGeneration ELSE data = a.data
    BY <2>1, <2>2, <2>3 DEF SameThresholds
  <2>5. x = [a EXCEPT !.data = data, !.groups = groups,
                      !.phase = IF saved THEN "Saved" ELSE "StorageFailed",
                      !.aborted = ~saved, !.duty = FullDuty]
    BY <1>2 DEF Committed, Reconfigured, Target, Apps, prepared
  <2> HIDE DEF data, x
  <2>6. ASSUME NEW g \in Groups
        PROVE  /\ ApplyConfiguration(a.groups[g], data.cfg[g], data.cal[g], t) \in FanGroups
               /\ SameOutput(ApplyConfiguration(a.groups[g], data.cfg[g], data.cal[g], t),
                             a.groups[g])
    <3>1. /\ a.groups[g] \in FanGroups /\ data.cfg[g] \in GroupConfigs
          /\ data.cal[g] \in GroupCalibrations
      BY <2>4 DEF Apps, PersistedData
    <3>2. QED
      BY <3>1, ApplyConfigurationOutput
  <2>7. /\ groups \in [Groups -> FanGroups]
        /\ \A g \in Groups : SameOutput(groups[g], a.groups[g])
    BY <2>6
  <2>8. FullDuty \in Duties
    BY RampAssumption DEF Duties
  <2> HIDE DEF groups
  <2>9. /\ x \in Apps /\ x.group = a.group /\ x.lastHost = a.lastHost
        /\ x.data = data /\ x.groups = groups /\ x.aborted = ~saved
        /\ x.phase = IF saved THEN "Saved" ELSE "StorageFailed"
    BY <2>4, <2>5, <2>7, <2>8 DEF Apps, Phases
  <2>10. QED
    BY <1>2, <2>4, <2>7, <2>9 DEF x
<1>3. QED
  BY <1>1, <1>2

LEMMA ReturnedType ==
  ASSUME NEW a \in Apps, NEW g \in Groups, NEW t \in Times
  PROVE  LET x == Returned(a, g, t)
         IN  /\ x \in Apps /\ x.group = a.group /\ x.lastHost = a.lastHost
             /\ x.data = a.data /\ x.phase = a.phase /\ ~x.aborted
             /\ \A h \in Groups : SameOutput(x.groups[h], a.groups[h])
             /\ x.groups[g].overrideMode = "Automatic"
             /\ a.aborted => /\ "CalibrationAborted" \in x.groups[g].active
                             /\ "CalibrationAborted" \in x.groups[g].latched
<1> DEFINE back == SetCalibrationOverride(a.groups[g], FALSE, FullDuty)
           auto == SetOverride(back, a.data.cfg[g], a.data.cal[g], "Automatic", 0, 0, t)
           new  == IF a.aborted THEN SetCalibrationAbortedFault(auto) ELSE auto
           x    == Returned(a, g, t)
<1>1. /\ a.groups[g] \in FanGroups /\ a.groups \in [Groups -> FanGroups]
      /\ a.data.cfg[g] \in GroupConfigs
      /\ a.data.cal[g] \in GroupCalibrations /\ FullDuty \in Duties
  BY RampAssumption DEF Apps, PersistedData, Duties
<1>2. back \in FanGroups /\ SameOutput(back, a.groups[g])
  BY <1>1, SetCalibrationOverrideOutput
<1> HIDE DEF back
<1>3. auto \in FanGroups /\ SameOutput(auto, back) /\ auto.overrideMode = "Automatic"
  BY <1>1, <1>2, AutomaticOutput
<1> HIDE DEF auto
<1>4. /\ new \in FanGroups /\ SameOutput(new, a.groups[g])
      /\ new.overrideMode = "Automatic"
      /\ a.aborted => /\ "CalibrationAborted" \in new.active
                      /\ "CalibrationAborted" \in new.latched
  BY <1>2, <1>3, CalibrationAbortedOutput DEF SameOutput, SameReading
<1>5. x = [a EXCEPT !.groups = [a.groups EXCEPT ![g] = new], !.aborted = FALSE]
  BY DEF Returned, Apps, auto, back
<1> HIDE DEF new, x
<1>6. /\ x \in Apps /\ x.group = a.group /\ x.lastHost = a.lastHost
      /\ x.data = a.data /\ x.phase = a.phase /\ x.aborted = FALSE
      /\ x.groups = [a.groups EXCEPT ![g] = new]
  BY <1>1, <1>4, <1>5 DEF Apps
<1>7. /\ x.groups[g] = new
      /\ \A h \in Groups : SameOutput(x.groups[h], a.groups[h])
  BY <1>1, <1>4, <1>6 DEF SameOutput, SameReading
<1>8. QED
  BY <1>4, <1>6, <1>7 DEF x

LEMMA OutputType ==
  ASSUME NEW a \in Apps, NEW ended \in BOOLEAN, NEW t \in Times
  PROVE  LET x == Output(a, ended, t)
         IN  /\ x \in Apps /\ x.group = a.group /\ x.lastHost = a.lastHost
             /\ x.data = a.data /\ x.phase = a.phase /\ x.aborted = a.aborted
             /\ \A g \in Groups :
                  /\ x.pwm[g] = IF g = a.group /\ ended THEN FullDuty
                                ELSE IF g = a.group /\ a.phase = "Running" THEN a.duty
                                ELSE a.groups[g].duty
                  /\ SameReading(x.groups[g], a.groups[g])
                  /\ x.groups[g].overrideMode = a.groups[g].overrideMode
                  /\ x.groups[g].active = a.groups[g].active
                  /\ x.groups[g].latched = a.groups[g].latched
<1> DEFINE pwm == [g \in Groups |->
                     IF g = a.group /\ ended THEN FullDuty
                     ELSE IF g = a.group /\ a.phase = "Running" THEN a.duty
                     ELSE a.groups[g].duty]
           groups == [g \in Groups |-> SynchronizeAppliedDuty(a.groups[g], pwm[g], t)]
           x == Output(a, ended, t)
<1>1. pwm \in [Groups -> Duties]
  BY RampAssumption DEF Apps, FanGroups, Duties
<1>2. x = [a EXCEPT !.pwm = pwm, !.groups = groups]
  BY DEF Output, Target, Calibrating
<1>3. ASSUME NEW g \in Groups
      PROVE  /\ SynchronizeAppliedDuty(a.groups[g], pwm[g], t) \in FanGroups
             /\ SameReading(SynchronizeAppliedDuty(a.groups[g], pwm[g], t), a.groups[g])
             /\ SynchronizeAppliedDuty(a.groups[g], pwm[g], t).overrideMode
                  = a.groups[g].overrideMode
             /\ SynchronizeAppliedDuty(a.groups[g], pwm[g], t).active
                  = a.groups[g].active
             /\ SynchronizeAppliedDuty(a.groups[g], pwm[g], t).latched
                  = a.groups[g].latched
  <2>1. a.groups[g] \in FanGroups /\ pwm[g] \in Duties
    BY <1>1 DEF Apps
  <2> HIDE DEF pwm
  <2>2. QED
    BY <2>1, SynchronizedReading
<1> HIDE DEF x
<1>4. groups \in [Groups -> FanGroups]
  BY <1>3
<1>5. /\ x \in Apps /\ x.group = a.group /\ x.lastHost = a.lastHost
      /\ x.data = a.data /\ x.phase = a.phase /\ x.aborted = a.aborted
      /\ x.pwm = pwm /\ x.groups = groups
  <2> HIDE DEF pwm, groups
  <2>1. QED
    BY <1>1, <1>2, <1>4 DEF Apps
<1>6. QED
  BY <1>3, <1>5 DEF x

(* All that one pass does to the groups and the outputs, and when it ends a
   calibration. *)
LEMMA UpdateControllersType ==
  ASSUME NEW a \in Apps, NEW t \in Times, NEW in \in [Groups -> GroupInputs],
         NEW p, Progresses(p), NEW saved \in BOOLEAN, NEW delay \in Nat,
         a.phase # "Complete", Calibrating(a) => ~a.aborted
  PROVE  LET x == UpdateControllers(a, t, in, p, saved, delay)
         IN  /\ x \in Apps /\ x.group = a.group /\ x.lastHost = a.lastHost
             /\ x.phase # "Complete" /\ ~x.aborted
             /\ SameThresholds(x.data, a.data)
             /\ \/ x.data = a.data
                \/ /\ Calibrating(a) /\ x.phase = "Saved"
                   /\ x.data.calGeneration # a.data.calGeneration
             (* The outputs. *)
             /\ \A g \in Groups :
                  /\ TimedOut(a, t) => x.pwm[g] = FullDuty
                  /\ a.data.cfg[g].enabled =>
                       \/ x.pwm[g] = FullDuty
                       \/ Calibrating(x) /\ g = x.group
                       \/ /\ x.groups[g].temperatureValid
                          /\ x.groups[g].temperature < a.data.cfg[g].critical
             (* The calibration that goes on. *)
             /\ Calibrating(x) =>
                  /\ Calibrating(a) /\ ~TimedOut(a, t)
                  /\ a.data.cfg[x.group].enabled => x.groups[x.group].temperatureValid
                  /\ x.groups[x.group].temperature < a.data.cfg[x.group].warning
             (* The one that ends. *)
             /\ (Calibrating(a) \/ a.aborted) /\ ~Calibrating(x) => IsReturned(x, x.group)
<1> DEFINE updated   == GroupsUpdated(a, t, in)
           measured  == CalibrationUpdated(updated, t, p)
           later     == IF measured.phase = "Complete" THEN TimeAdd(t, delay) ELSE t
           committed == Committed(measured, p, saved, later)
           ended     == committed.aborted \/ (Calibrating(a) /\ ~Calibrating(committed))
           returned  == IF ended THEN Returned(committed, Target(a), later) ELSE committed
           x         == Output(returned, ended, later)
<1>0. UpdateControllers(a, t, in, p, saved, delay) = x
  BY DEF UpdateControllers
<1>1. /\ updated \in Apps /\ updated.group = a.group /\ updated.lastHost = a.lastHost
      /\ updated.data = a.data /\ updated.phase = a.phase /\ updated.aborted = a.aborted
      /\ \A g \in Groups : Controlled(updated.groups[g], a.data.cfg[g], TimedOut(a, t))
  <2>1. PICK groups \in [Groups -> FanGroups] :
               /\ updated = [a EXCEPT !.groups = groups]
               /\ \A g \in Groups : Controlled(groups[g], a.data.cfg[g], TimedOut(a, t))
    BY GroupsUpdatedType
  <2> HIDE DEF updated
  <2>2. QED
    BY <2>1 DEF Apps
<1> HIDE DEF updated
<1>2. /\ TimedOut(updated, t) = TimedOut(a, t) /\ Calibrating(updated) = Calibrating(a)
      /\ Target(updated) = a.group
  BY <1>1 DEF TimedOut, Calibrating, Target
<1>3. /\ measured \in Apps /\ measured.group = a.group /\ measured.lastHost = a.lastHost
      /\ measured.data = a.data /\ measured.groups = updated.groups
      /\ \/ ~Calibrating(a) /\ measured = updated
         \/ Calibrating(a) /\ measured.phase = "Aborted" /\ measured.aborted
         \/ /\ Calibrating(a) /\ ~MustAbort(updated, t)
            /\ measured.phase = "Running" /\ measured.aborted = a.aborted
         \/ /\ Calibrating(a) /\ p.step = "complete"
            /\ measured.phase = "Complete" /\ measured.aborted = a.aborted
  BY <1>1, <1>2, CalibrationUpdatedType
<1> HIDE DEF measured
<1>4. later \in Times
  <2>1. t \in Int /\ delay \in Int
    BY TimeAssumption DEF Times
  <2>2. TimeAdd(t, delay) \in Times
    BY <2>1, TimesClosed
  <2>3. QED
    BY <2>2
<1> HIDE DEF later
<1>5. /\ committed \in Apps /\ committed.group = a.group /\ committed.lastHost = a.lastHost
      /\ \A g \in Groups : SameOutput(committed.groups[g], updated.groups[g])
      /\ SameThresholds(committed.data, a.data)
      /\ measured.phase # "Complete" => committed = measured
      /\ measured.phase = "Complete" =>
           IF saved THEN /\ committed.phase = "Saved" /\ ~committed.aborted
                         /\ committed.data.calGeneration # a.data.calGeneration
           ELSE committed.phase = "StorageFailed" /\ committed.aborted
                /\ committed.data = a.data
  BY <1>1, <1>3, <1>4, CommittedType
<1> HIDE DEF committed
(* The three ways through the pass. *)
<1>6. \/ (* no calibration, or one that was aborted before the pass *)
         /\ ~Calibrating(a) /\ ~Calibrating(committed)
         /\ committed.phase # "Complete" /\ committed.aborted = a.aborted
         /\ committed.data = a.data
      \/ (* one that ends in it *)
         /\ Calibrating(a) /\ ~Calibrating(committed)
         /\ committed.phase # "Complete"
         /\ \/ committed.aborted /\ committed.data = a.data
            \/ /\ committed.phase = "Saved"
               /\ committed.data.calGeneration # a.data.calGeneration
      \/ (* one that goes on *)
         /\ Calibrating(a) /\ Calibrating(committed) /\ ~committed.aborted
         /\ committed.phase # "Complete"
         /\ ~MustAbort(updated, t)
         /\ committed.data = a.data /\ committed.groups = updated.groups
  BY <1>1, <1>3, <1>5 DEF Calibrating
<1>7. ended \in BOOLEAN /\ (ended <=> (Calibrating(a) \/ a.aborted) /\ ~Calibrating(committed))
  BY <1>6 DEF Apps
<1>8. /\ returned \in Apps /\ returned.group = a.group /\ returned.lastHost = a.lastHost
      /\ returned.data = committed.data /\ returned.phase = committed.phase
      /\ ~returned.aborted
      /\ \A g \in Groups : SameOutput(returned.groups[g], updated.groups[g])
      /\ ~ended => returned = committed
      /\ ended => /\ returned.groups[a.group].overrideMode = "Automatic"
                  /\ committed.aborted =>
                       /\ "CalibrationAborted" \in returned.groups[a.group].active
                       /\ "CalibrationAborted" \in returned.groups[a.group].latched
  <2>1. Target(a) \in Groups
    BY DEF Target, Apps
  <2>2. CASE ended
    BY <1>4, <1>5, <2>1, <2>2, ReturnedType DEF Target, SameOutput, SameReading
  <2>3. CASE ~ended
    BY <1>5, <2>3
  <2>4. QED
    BY <2>2, <2>3
<1> HIDE DEF returned, ended
<1>9. /\ x \in Apps /\ x.group = a.group /\ x.lastHost = a.lastHost
      /\ x.data = committed.data /\ x.phase = committed.phase /\ ~x.aborted
      /\ \A g \in Groups :
           /\ x.pwm[g] = IF g = a.group /\ ended THEN FullDuty
                         ELSE IF g = a.group /\ committed.phase = "Running"
                           THEN returned.duty
                         ELSE returned.groups[g].duty
           /\ SameReading(x.groups[g], returned.groups[g])
           /\ x.groups[g].overrideMode = returned.groups[g].overrideMode
           /\ x.groups[g].active = returned.groups[g].active
           /\ x.groups[g].latched = returned.groups[g].latched
  <2>1. /\ x \in Apps /\ x.group = returned.group /\ x.lastHost = returned.lastHost
        /\ x.data = returned.data /\ x.phase = returned.phase
        /\ x.aborted = returned.aborted
        /\ \A g \in Groups :
             /\ x.pwm[g] = IF g = returned.group /\ ended THEN FullDuty
                           ELSE IF g = returned.group /\ returned.phase = "Running"
                             THEN returned.duty
                           ELSE returned.groups[g].duty
             /\ SameReading(x.groups[g], returned.groups[g])
             /\ x.groups[g].overrideMode = returned.groups[g].overrideMode
             /\ x.groups[g].active = returned.groups[g].active
             /\ x.groups[g].latched = returned.groups[g].latched
    BY <1>4, <1>7, <1>8, OutputType, SMTT(60)
  <2> HIDE DEF x
  <2>2. QED
    BY <1>8, <2>1
<1> HIDE DEF x
<1>10. a.group \in Groups /\ a.data \in PersistedData
  BY DEF Apps
<1>11. ASSUME NEW g \in Groups, ~(g = a.group /\ Calibrating(committed))
       PROVE  /\ TimedOut(a, t) => x.pwm[g] = FullDuty
              /\ a.data.cfg[g].enabled =>
                   \/ x.pwm[g] = FullDuty
                   \/ /\ x.groups[g].temperatureValid
                      /\ x.groups[g].temperature < a.data.cfg[g].critical
  <2>1. x.pwm[g] = FullDuty \/ x.pwm[g] = updated.groups[g].duty
    BY <1>8, <1>9, <1>11 DEF SameOutput, Calibrating
  <2>2. SameReading(x.groups[g], updated.groups[g])
    BY <1>8, <1>9 DEF SameOutput, SameReading
  <2>3. Controlled(updated.groups[g], a.data.cfg[g], TimedOut(a, t))
    BY <1>1
  <2>4. QED
    BY <2>1, <2>2, <2>3 DEF Controlled, SameReading
<1>12. ASSUME Calibrating(committed)
       PROVE  /\ Calibrating(a) /\ ~TimedOut(a, t)
              /\ a.data.cfg[a.group].enabled => x.groups[a.group].temperatureValid
              /\ x.groups[a.group].temperature < a.data.cfg[a.group].warning
  <2>1. Calibrating(a) /\ ~MustAbort(updated, t)
    BY <1>6, <1>12
  <2>2. /\ ~TimedOut(a, t)
        /\ "TemperatureInvalid" \notin updated.groups[a.group].active
        /\ ~(updated.groups[a.group].temperature >= a.data.cfg[a.group].warning)
    BY <1>1, <1>2, <2>1 DEF MustAbort
  <2>3. updated.groups[a.group].temperature \in Int /\ a.data.cfg[a.group].warning \in Int
    BY <1>1, <1>10, GroupAssumption DEF Apps, PersistedData, FanGroups, GroupConfigs
  <2>4. Controlled(updated.groups[a.group], a.data.cfg[a.group], TimedOut(a, t))
    BY <1>1, <1>10
  <2>5. SameReading(x.groups[a.group], updated.groups[a.group])
    BY <1>8, <1>9, <1>10 DEF SameOutput, SameReading
  <2>6. QED
    BY <2>1, <2>2, <2>3, <2>4, <2>5 DEF Controlled, SameReading
<1>13. ASSUME Calibrating(a) \/ a.aborted, ~Calibrating(x)
       PROVE  IsReturned(x, x.group)
  <2>1. ended /\ ~Calibrating(committed)
    BY <1>7, <1>9, <1>13 DEF Calibrating
  <2>2. /\ x.pwm[a.group] = FullDuty
        /\ x.groups[a.group].overrideMode = "Automatic"
    BY <1>8, <1>9, <1>10, <2>1
  <2>3. committed.aborted \/ committed.phase = "Saved"
    BY <1>6, <1>13, <2>1
  <2>4. QED
    BY <1>8, <1>9, <1>10, <1>13, <2>1, <2>2, <2>3 DEF IsReturned, Target
<1>14. \A g \in Groups :
         /\ TimedOut(a, t) => x.pwm[g] = FullDuty
         /\ a.data.cfg[g].enabled =>
              \/ x.pwm[g] = FullDuty
              \/ Calibrating(x) /\ g = x.group
              \/ /\ x.groups[g].temperatureValid
                 /\ x.groups[g].temperature < a.data.cfg[g].critical
  <2>1. Calibrating(x) = Calibrating(committed)
    BY <1>9 DEF Calibrating
  <2>2. QED
    BY <1>9, <1>11, <1>12, <2>1
<1>15. Calibrating(x) =>
         /\ Calibrating(a) /\ ~TimedOut(a, t)
         /\ a.data.cfg[x.group].enabled => x.groups[x.group].temperatureValid
         /\ x.groups[x.group].temperature < a.data.cfg[x.group].warning
  BY <1>9, <1>12 DEF Calibrating
<1>16. /\ x.phase # "Complete"
       /\ SameThresholds(x.data, a.data)
       /\ \/ x.data = a.data
          \/ /\ Calibrating(a) /\ x.phase = "Saved"
             /\ x.data.calGeneration # a.data.calGeneration
  BY <1>5, <1>6, <1>9
<1>17. QED
  BY <1>0, <1>9, <1>13, <1>14, <1>15, <1>16

-----------------------------------------------------------------------------
(* The invariant on which the others rest: the type of the state, what validated
   settings and a calibration in progress have, and that no pass ends with a
   calibration that is complete and not yet committed. *)
TypeOK ==
  /\ env \in Environments
  /\ uptime \in Nat /\ silentFrom \in Nat
  /\ stage \in {"poll", "idle"}
  /\ app \in Apps
  /\ stored \in PersistedData
  /\ unsaved \in BOOLEAN

Calibratable(a) ==
  /\ a.phase # "Complete"
  /\ Calibrating(a) => a.data.cfg[a.group].enabled /\ ~a.aborted

Sound ==
  /\ TypeOK
  /\ Ordered(app.data) /\ Ordered(stored)
  /\ Calibratable(app)

LEMMA ClockType == ASSUME NEW u \in Nat PROVE u % TimeModulus \in Times
BY TimeAssumption DEF Times

LEMMA FirmwareEnvironment ==
  ASSUME NEW e \in Environments
  PROVE  /\ e.data \subseteq PersistedData /\ e.candidates \subseteq ControllerConfigs
         /\ \A config \in e.data \cup e.candidates : Ordered(config)
         /\ e.ids \subseteq Ids /\ e.snapshots \subseteq [Groups -> Reports]
         /\ e.overrides \subseteq ModeRequests /\ e.results \subseteq GroupCalibrations
         /\ \A r \in e.results : r.minimumRunningDuty > 0
         /\ e.supplies \subseteq SUBSET GlobalFaults
         /\ e.saveTimes \subseteq Nat /\ e.until \in Nat \ {0}
BY FirmwareAssumption

LEMMA BootedType ==
  ASSUME NEW data \in PersistedData, NEW t \in Times
  PROVE  LET x == Booted(data, t)
         IN  /\ x \in Apps /\ x.data = data /\ x.phase = "Idle"
             /\ ~x.aborted /\ x.lastHost = t
<1>1. \A g \in Groups : Begin(data.cfg[g], data.cal[g], t) \in FanGroups
  BY BeginType DEF PersistedData
<1>2. (CHOOSE g \in Groups : TRUE) \in Groups
  BY ConfigurationAssumption
<1>3. FullDuty \in Duties
  BY RampAssumption DEF Duties
<1>4. QED
  BY <1>1, <1>2, <1>3 DEF Booted, Apps, Phases

LEMMA ReconfiguredType ==
  ASSUME NEW a \in Apps, NEW data \in PersistedData, NEW t \in Times
  PROVE  LET x == Reconfigured(a, data, t)
         IN  /\ x \in Apps /\ x.data = data /\ x.phase = a.phase /\ x.group = a.group
             /\ x.aborted = a.aborted /\ x.lastHost = a.lastHost
<1>1. \A g \in Groups :
        ApplyConfiguration(a.groups[g], data.cfg[g], data.cal[g], t) \in FanGroups
  BY ApplyConfigurationType DEF Apps, PersistedData
<1>2. QED
  BY <1>1 DEF Reconfigured, Apps

(* The pass after its frames: what UpdateControllersType says of its outputs also
   holds of what the pass leaves, which adds faults and what was published. *)
LEMMA ControlOutcome ==
  ASSUME Sound, NEW in \in [Groups -> Inputs], NEW supply \in env.supplies,
         NEW p \in Progress, NEW saved \in BOOLEAN, NEW delay \in env.saveTimes,
         Control(in, supply, p, saved, delay)
  PROVE  /\ app' \in Apps /\ app'.group = app.group /\ app'.lastHost = app.lastHost
         /\ app'.phase # "Complete" /\ ~app'.aborted
         /\ SameThresholds(app'.data, app.data)
         /\ \/ app'.data = app.data
            \/ /\ Calibrating(app) /\ app'.phase = "Saved"
               /\ app'.data.calGeneration # app.data.calGeneration
         /\ \A g \in Groups :
              /\ TimedOut(app, now) => app'.pwm[g] = FullDuty
              /\ app.data.cfg[g].enabled =>
                   \/ app'.pwm[g] = FullDuty
                   \/ Calibrating(app') /\ g = app'.group
                   \/ /\ app'.groups[g].temperatureValid
                      /\ app'.groups[g].temperature < app.data.cfg[g].critical
         /\ Calibrating(app') =>
              /\ Calibrating(app) /\ ~TimedOut(app, now)
              /\ app'.groups[app'.group].temperatureValid
              /\ app'.groups[app'.group].temperature < app.data.cfg[app'.group].warning
         /\ (Calibrating(app) \/ app.aborted) /\ ~Calibrating(app') =>
              IsReturned(app', app'.group)
<1> DEFINE x == UpdateControllers(app, now, in, p, saved, delay)
           y == UpdateGlobalFaults(x, now, supply)
<1>1. /\ app \in Apps /\ now \in Times /\ in \in [Groups -> GroupInputs]
      /\ Progresses(p) /\ delay \in Nat /\ supply \in SUBSET GlobalFaults
      /\ app.phase # "Complete" /\ (Calibrating(app) => ~app.aborted)
  <2>1. env \in Environments /\ uptime \in Nat /\ app \in Apps
    BY DEF Sound, TypeOK
  <2>2. Progresses(p)
    BY <2>1, FirmwareEnvironment, FirmwareAssumption DEF Progress, Progresses
  <2>3. QED
    BY <2>1, <2>2, ClockType, FirmwareEnvironment, FirmwareAssumption
       DEF Sound, Calibratable, now
<1>2. /\ x \in Apps /\ x.group = app.group /\ x.lastHost = app.lastHost
      /\ x.phase # "Complete" /\ ~x.aborted
      /\ SameThresholds(x.data, app.data)
      /\ \/ x.data = app.data
         \/ /\ Calibrating(app) /\ x.phase = "Saved"
            /\ x.data.calGeneration # app.data.calGeneration
      /\ \A g \in Groups :
           /\ TimedOut(app, now) => x.pwm[g] = FullDuty
           /\ app.data.cfg[g].enabled =>
                \/ x.pwm[g] = FullDuty
                \/ Calibrating(x) /\ g = x.group
                \/ /\ x.groups[g].temperatureValid
                   /\ x.groups[g].temperature < app.data.cfg[g].critical
      /\ Calibrating(x) =>
           /\ Calibrating(app) /\ ~TimedOut(app, now)
           /\ app.data.cfg[x.group].enabled => x.groups[x.group].temperatureValid
           /\ x.groups[x.group].temperature < app.data.cfg[x.group].warning
      /\ (Calibrating(app) \/ app.aborted) /\ ~Calibrating(x) => IsReturned(x, x.group)
  BY <1>1, UpdateControllersType
<1>3. app' = Published(y)
  BY DEF Control
<1> HIDE DEF x
<1>4. /\ app' \in Apps /\ app'.data = x.data /\ app'.groups = x.groups /\ app'.pwm = x.pwm
      /\ app'.phase = x.phase /\ app'.group = x.group /\ app'.aborted = x.aborted
      /\ app'.lastHost = x.lastHost
  <2>1. /\ y \in Apps /\ y.data = x.data /\ y.groups = x.groups /\ y.pwm = x.pwm
        /\ y.phase = x.phase /\ y.group = x.group /\ y.aborted = x.aborted
        /\ y.lastHost = x.lastHost
    <3> DEFINE active == supply
                 \cup (IF x.data.generation = 0 THEN {"DefaultConfiguration"} ELSE {})
                 \cup (IF TimedOut(x, now) THEN {"HostTimeout"} ELSE {})
    <3>1. active \in SUBSET GlobalFaults
      BY <1>1 DEF GlobalFaults
    <3>2. y = [x EXCEPT !.globalActive = active, !.globalLatched = @ \cup active]
      BY DEF UpdateGlobalFaults
    <3> HIDE DEF active, y
    <3>3. QED
      BY <1>2, <3>1, <3>2 DEF Apps
  <2> HIDE DEF y
  <2>2. [g \in Groups |-> y.groups[g].active] \in [Groups -> SUBSET GroupFaults]
    BY <2>1 DEF Apps, FanGroups
  <2>3. QED
    BY <1>3, <2>1, <2>2 DEF Published, Apps
<1>5. (IsReturned(x, x.group) => IsReturned(app', app'.group))
      /\ Calibrating(app') = Calibrating(x)
  BY <1>4 DEF IsReturned, Calibrating, Target
<1>6. Calibrating(app) => app.data.cfg[app.group].enabled
  BY DEF Sound, Calibratable
<1>7. QED
  BY <1>2, <1>4, <1>5, <1>6 DEF Calibrating

(* A calibration that is over and was not overtaken waits for the pass to return
   its group: its abort is noted in the object. *)
Ending == owed \ overtaken \subseteq {g \in {app.group} : Calibrating(app) \/ app.aborted}

(* A step of the frames. *)
Frames ==
  \/ \E s \in env.snapshots : HandleTemperatures(s)
  \/ \E c \in env.candidates, saved \in BOOLEAN : HandleSetConfiguration(c, saved)
  \/ \E id \in env.ids, saved \in BOOLEAN : HandleSetControllerId(id, saved)
  \/ \E g \in Groups, o \in env.overrides : HandleSetMode(g, o)
  \/ \E g \in Groups : HandleStartCalibration(g)
  \/ HandleAbortCalibration
  \/ \E r \in env.clears : HandleClearFaults(r)

LEMMA FrameOutcome ==
  ASSUME Sound, Frames
  PROVE  /\ app' \in Apps /\ stored' \in PersistedData /\ unsaved' \in BOOLEAN
         /\ env' = env /\ uptime' = uptime /\ stage' = "poll"
         /\ Ordered(app'.data) /\ Ordered(stored') /\ Calibratable(app')
         /\ \/ app'.lastHost = app.lastHost /\ silentFrom' = silentFrom
            \/ app'.lastHost = now /\ silentFrom' = uptime
         /\ app'.data.cal # app.data.cal =>
              app'.data.calGeneration # app.data.calGeneration
         /\ SavedIsInForce => SavedIsInForce'
         /\ Ending => Ending'
<1>1. /\ env \in Environments /\ uptime \in Nat /\ app \in Apps /\ stored \in PersistedData
      /\ unsaved \in BOOLEAN /\ now \in Times
      /\ app.data \in PersistedData /\ Ordered(app.data) /\ Ordered(stored)
      /\ Calibratable(app)
  BY ClockType DEF Sound, TypeOK, now, Apps
(* Most frames change neither the data nor a calibration. *)
<1>2. ASSUME app' \in Apps, app'.data = app.data, app'.phase = app.phase,
             app'.group = app.group, app'.aborted = app.aborted,
             UNCHANGED <<stored, unsaved, owed, overtaken>>
      PROVE  /\ stored' \in PersistedData /\ unsaved' \in BOOLEAN
             /\ Ordered(app'.data) /\ Ordered(stored') /\ Calibratable(app')
             /\ SavedIsInForce => SavedIsInForce'
             /\ Ending => Ending'
  BY <1>1, <1>2 DEF Calibratable, Calibrating, SavedIsInForce, Ending
<1>3. CASE \E s \in env.snapshots : HandleTemperatures(s)
  <2>1. PICK s \in env.snapshots : HandleTemperatures(s)
    BY <1>3
  <2>2. \A g \in Groups : SetTemperature(app.groups[g], s[g].value, s[g].valid) \in FanGroups
    BY <1>1, FirmwareEnvironment, SetTemperatureType DEF Apps
  <2>3. /\ app' \in Apps /\ app'.data = app.data /\ app'.phase = app.phase
        /\ app'.group = app.group /\ app'.aborted = app.aborted /\ app'.lastHost = now
    BY <1>1, <2>1, <2>2 DEF HandleTemperatures, Received, Apps
  <2>4. /\ UNCHANGED <<stored, unsaved, owed, overtaken, env, uptime>>
        /\ stage' = "poll" /\ silentFrom' = uptime
    BY <2>1 DEF HandleTemperatures, Frame
  <2>5. QED
    BY <1>2, <2>3, <2>4
<1>4. CASE \E c \in env.candidates, saved \in BOOLEAN : HandleSetConfiguration(c, saved)
  <2>1. PICK c \in env.candidates, saved \in BOOLEAN : HandleSetConfiguration(c, saved)
    BY <1>4
  <2> DEFINE data == Apply(app.data, c)
  <2>2. c \in ControllerConfigs /\ Ordered(c)
    BY <1>1, FirmwareEnvironment
  <2>3. /\ data \in PersistedData /\ data.cfg = c.cfg
        /\ data.cal # app.data.cal => data.calGeneration # app.data.calGeneration
    BY <1>1, <2>2, ApplyType
  <2>4. /\ app' = Reconfigured(app, data, now) /\ ~Calibrating(app)
        /\ stored' = (IF saved THEN app'.data ELSE stored) /\ unsaved' = ~saved
        /\ UNCHANGED <<silentFrom, owed, overtaken, env, uptime>> /\ stage' = "poll"
    BY <2>1 DEF HandleSetConfiguration, Frame
  <2> HIDE DEF data
  <2>5. /\ app' \in Apps /\ app'.data = data /\ app'.phase = app.phase
        /\ app'.group = app.group /\ app'.aborted = app.aborted
        /\ app'.lastHost = app.lastHost
    BY <1>1, <2>3, <2>4, ReconfiguredType
  <2>6. Ordered(data)
    BY <2>2, <2>3 DEF Ordered
  <2>7. Calibratable(app') /\ (Ending => Ending')
    BY <1>1, <2>4, <2>5 DEF Calibratable, Calibrating, Ending
  <2>8. stored' \in PersistedData /\ Ordered(stored') /\ SavedIsInForce'
    BY <1>1, <2>3, <2>4, <2>5, <2>6 DEF SavedIsInForce
  <2>9. QED
    BY <2>3, <2>4, <2>5, <2>6, <2>7, <2>8
<1>5. CASE \E id \in env.ids, saved \in BOOLEAN : HandleSetControllerId(id, saved)
  <2>1. PICK id \in env.ids, saved \in BOOLEAN : HandleSetControllerId(id, saved)
    BY <1>5
  <2> DEFINE data == [app.data EXCEPT !.id = id]
  <2>2. id \in Ids
    BY <1>1, FirmwareEnvironment
  <2>3. /\ data \in PersistedData /\ data.cfg = app.data.cfg /\ data.cal = app.data.cal
    BY <1>1, <2>2 DEF PersistedData
  <2>4. /\ app' = [app EXCEPT !.data = data]
        /\ stored' = (IF saved THEN app'.data ELSE stored) /\ unsaved' = ~saved
        /\ UNCHANGED <<silentFrom, owed, overtaken, env, uptime>> /\ stage' = "poll"
    BY <2>1 DEF HandleSetControllerId, Frame
  <2> HIDE DEF data
  <2>5. /\ app' \in Apps /\ app'.data = data /\ app'.phase = app.phase
        /\ app'.group = app.group /\ app'.aborted = app.aborted
        /\ app'.lastHost = app.lastHost
    BY <1>1, <2>3, <2>4 DEF Apps
  <2>6. Ordered(data)
    BY <1>1, <2>3 DEF Ordered
  <2>7. Calibratable(app') /\ (Ending => Ending')
    BY <1>1, <2>3, <2>4, <2>5 DEF Calibratable, Calibrating, Ending
  <2>8. stored' \in PersistedData /\ Ordered(stored') /\ SavedIsInForce'
    BY <1>1, <2>3, <2>4, <2>5, <2>6 DEF SavedIsInForce
  <2>9. QED
    BY <2>3, <2>4, <2>5, <2>6, <2>7, <2>8
<1>6. CASE \E g \in Groups, o \in env.overrides : HandleSetMode(g, o)
  <2>1. PICK g \in Groups, o \in env.overrides : HandleSetMode(g, o)
    BY <1>6
  <2> DEFINE new == SetOverride(app.groups[g], app.data.cfg[g], app.data.cal[g],
                                o.mode, o.duty, o.timeout, now)
  <2>2. o.mode \in RequestedModes /\ o.duty \in Nat /\ o.timeout \in Nat
    BY <1>1, FirmwareEnvironment DEF ModeRequests
  <2>3. new \in FanGroups
    BY <1>1, <2>2, SetOverrideType DEF Apps, PersistedData
  <2>4. /\ app' = [app EXCEPT !.groups[g] = new]
        /\ UNCHANGED <<stored, unsaved, silentFrom, owed, overtaken, env, uptime>>
        /\ stage' = "poll"
    BY <2>1 DEF HandleSetMode, Frame
  <2> HIDE DEF new
  <2>5. /\ app' \in Apps /\ app'.data = app.data /\ app'.phase = app.phase
        /\ app'.group = app.group /\ app'.aborted = app.aborted
        /\ app'.lastHost = app.lastHost
    BY <1>1, <2>3, <2>4 DEF Apps
  <2>6. QED
    BY <1>2, <2>4, <2>5
<1>7. CASE \E g \in Groups : HandleStartCalibration(g)
  <2>1. PICK g \in Groups : HandleStartCalibration(g)
    BY <1>7
  <2>2. ~Calibrating(app) /\ app.data.cfg[g].enabled
    BY <2>1 DEF HandleStartCalibration, MayStart
  <2>3. /\ app' = Started(app, g)
        /\ UNCHANGED <<stored, unsaved, silentFrom, env, uptime>> /\ stage' = "poll"
        /\ owed' = owed \cup {g}
        /\ overtaken' = (IF app.aborted THEN overtaken \cup {app.group}
                                        ELSE overtaken) \ {g}
    BY <2>1 DEF HandleStartCalibration, Frame, Target
  <2>4. /\ app' \in Apps /\ app'.data = app.data /\ app'.phase = "Running"
        /\ app'.group = g /\ app'.aborted = FALSE /\ app'.lastHost = app.lastHost
    <3>1. 0 \in Duties
      BY RampAssumption DEF Duties
    <3>2. QED
      BY <1>1, <2>3, <3>1 DEF Started, Apps, Phases
  <2>5. Calibratable(app')
    BY <2>2, <2>4 DEF Calibratable
  <2>6. Ending => Ending'
    BY <2>2, <2>3, <2>4 DEF Ending, Calibrating
  <2>7. QED
    BY <1>1, <2>3, <2>4, <2>5, <2>6 DEF SavedIsInForce
<1>8. CASE HandleAbortCalibration
  <2>1. /\ app' = Aborted(app)
        /\ UNCHANGED <<stored, unsaved, silentFrom, owed, overtaken, env, uptime>>
        /\ stage' = "poll"
    BY <1>8 DEF HandleAbortCalibration, Frame
  <2>2. /\ app' \in Apps /\ app'.data = app.data
        /\ app'.group = app.group /\ app'.lastHost = app.lastHost
        /\ IF Calibrating(app) THEN app'.phase = "Aborted" /\ app'.aborted
           ELSE app'.phase = app.phase /\ app'.aborted = app.aborted
    <3>1. FullDuty \in Duties
      BY RampAssumption DEF Duties
    <3>2. CASE Calibrating(app)
      BY <1>1, <2>1, <3>1, <3>2 DEF Aborted, Apps, Phases
    <3>3. CASE ~Calibrating(app)
      BY <1>1, <2>1, <3>3 DEF Aborted
    <3>4. QED
      BY <3>2, <3>3
  <2>3. Calibratable(app') /\ (Ending => Ending')
    BY <1>1, <2>1, <2>2 DEF Calibratable, Calibrating, Ending
  <2>4. QED
    BY <1>1, <2>1, <2>2, <2>3 DEF SavedIsInForce
<1>9. CASE \E r \in env.clears : HandleClearFaults(r)
  <2>1. PICK r \in env.clears : HandleClearFaults(r)
    BY <1>9
  <2> DEFINE groups == [g \in Groups |-> IF g \in r.groups
                                           THEN ClearLatchedFaults(app.groups[g])
                                           ELSE app.groups[g]]
             latched == IF r.global THEN {} ELSE app.globalLatched
  <2>2. groups \in [Groups -> FanGroups] /\ latched \in SUBSET GlobalFaults
    <3>1. ASSUME NEW g \in Groups PROVE ClearLatchedFaults(app.groups[g]) \in FanGroups
      <4>1. app.groups[g] \in FanGroups
        BY <1>1 DEF Apps
      <4>2. QED
        BY <4>1 DEF ClearLatchedFaults, FanGroups
    <3>2. groups \in [Groups -> FanGroups]
      BY <1>1, <3>1 DEF Apps
    <3>3. app.globalLatched \in SUBSET GlobalFaults
      BY <1>1 DEF Apps
    <3>4. QED
      BY <3>2, <3>3
  <2>3. /\ app' = [app EXCEPT !.groups = groups, !.globalLatched = latched]
        /\ UNCHANGED <<stored, unsaved, silentFrom, owed, overtaken, env, uptime>>
        /\ stage' = "poll"
    BY <2>1 DEF HandleClearFaults, Frame
  <2> HIDE DEF groups, latched
  <2>4. /\ app' \in Apps /\ app'.data = app.data /\ app'.phase = app.phase
        /\ app'.group = app.group /\ app'.aborted = app.aborted
        /\ app'.lastHost = app.lastHost
    BY <1>1, <2>2, <2>3 DEF Apps
  <2>5. QED
    BY <1>2, <2>3, <2>4
<1>10. QED
  BY <1>3, <1>4, <1>5, <1>6, <1>7, <1>8, <1>9 DEF Frames

(* The pass itself, with what it stores and which calibrations it returns. *)
LEMMA ControlStep ==
  ASSUME Sound, NEW in \in [Groups -> Inputs], NEW supply \in env.supplies,
         NEW p \in Progress, NEW saved \in BOOLEAN, NEW delay \in env.saveTimes,
         Control(in, supply, p, saved, delay)
  PROVE  /\ Sound'
         /\ SavedIsInForce => SavedIsInForce'
         /\ Ending => Ending' /\ ReturnedUnlessOvertaken'
<1> DEFINE committed == app'.phase = "Saved" /\ Calibrating(app)
<1>1. /\ app' \in Apps /\ app'.group = app.group
      /\ app'.phase # "Complete" /\ ~app'.aborted
      /\ SameThresholds(app'.data, app.data)
      /\ app'.data = app.data \/ committed
      /\ Calibrating(app') => Calibrating(app)
      /\ (Calibrating(app) \/ app.aborted) /\ ~Calibrating(app') =>
           IsReturned(app', app'.group)
  BY ControlOutcome
<1>2. /\ stage' = "idle" /\ UNCHANGED <<env, uptime, silentFrom>>
      /\ stored' = IF committed THEN app'.data ELSE stored
      /\ unsaved' = (unsaved /\ ~committed)
      /\ owed' = {g \in owed : ~IsReturned(app', g)}
      /\ overtaken' = overtaken \cap owed'
  BY DEF Control
<1> HIDE DEF committed
<1>3. app' \in Apps /\ app'.data \in PersistedData /\ app'.group \in Groups
  BY <1>1 DEF Apps
<1>4. Ordered(app'.data)
  BY <1>1 DEF Ordered, SameThresholds, Sound
<1>5. Calibratable(app')
  BY <1>1, <1>3 DEF Calibratable, Calibrating, SameThresholds, Sound
<1>6. Sound'
  BY <1>2, <1>3, <1>4, <1>5 DEF Sound, TypeOK
<1>7. SavedIsInForce => SavedIsInForce'
  BY <1>1, <1>2 DEF SavedIsInForce
<1>8. ASSUME Ending
      PROVE  owed' \ overtaken' \subseteq {g \in {app'.group} : Calibrating(app')}
  <2> SUFFICES ASSUME NEW g \in owed', g \notin overtaken'
               PROVE  g = app'.group /\ Calibrating(app')
    OBVIOUS
  <2>1. g \in owed /\ g \notin overtaken /\ ~IsReturned(app', g)
    BY <1>2
  <2>2. g = app.group /\ (Calibrating(app) \/ app.aborted)
    BY <1>8, <2>1 DEF Ending
  <2>3. QED
    BY <1>1, <2>1, <2>2
<1>9. QED
  BY <1>6, <1>7, <1>8 DEF Ending, ReturnedUnlessOvertaken, Target

(* A reset boots from what is stored and owes nothing. *)
LEMMA ResetStep ==
  ASSUME Sound, Reset
  PROVE  Sound' /\ SavedIsInForce' /\ Ending' /\ app'.lastHost = 1
<1>1. 1 \in Times /\ env \in Environments /\ stored \in PersistedData /\ Ordered(stored)
  BY TimeAssumption DEF Times, Sound, TypeOK
<1>2. /\ app' = Booted(stored, 1) /\ uptime' = 1 /\ silentFrom' = 1 /\ stage' = "poll"
      /\ unsaved' = FALSE /\ owed' = {} /\ UNCHANGED <<env, stored>>
  BY DEF Reset
<1>3. app' \in Apps /\ app'.data = stored /\ app'.phase = "Idle" /\ app'.lastHost = 1
  BY <1>1, <1>2, BootedType
<1>4. Sound'
  BY <1>1, <1>2, <1>3 DEF Sound, TypeOK, Calibratable, Calibrating
<1>5. QED
  BY <1>2, <1>3, <1>4 DEF SavedIsInForce, Ending

LEMMA WakeStep ==
  ASSUME Sound, NEW gap \in Gaps, Wake(gap)
  PROVE  /\ Sound' /\ stage' = "poll" /\ uptime' = uptime + gap /\ gap \in Nat
         /\ uptime' <= env.until
         /\ UNCHANGED <<env, app, stored, silentFrom, unsaved, owed, overtaken>>
<1>1. gap \in Nat
  BY FirmwareAssumption
<1>2. QED
  BY <1>1 DEF Wake, Sound, TypeOK, Calibratable, Calibrating

(* The initial states. *)
LEMMA InitSound ==
  ASSUME Init
  PROVE  /\ Sound /\ SavedIsInForce /\ Ending /\ stage = "poll"
         /\ uptime = 1 /\ silentFrom = 1 /\ app.lastHost = silentFrom % TimeModulus
<1>1. /\ env \in Environments /\ uptime = 1 /\ silentFrom = 1 /\ stage = "poll"
      /\ stored \in env.data /\ app = Booted(stored, now) /\ unsaved = FALSE /\ owed = {}
  BY DEF Init
<1>2. stored \in PersistedData /\ Ordered(stored)
  BY <1>1, FirmwareEnvironment
<1>3. now \in Times /\ now = silentFrom % TimeModulus
  BY <1>1, ClockType DEF now
<1>4. app \in Apps /\ app.data = stored /\ app.phase = "Idle" /\ app.lastHost = now
  BY <1>1, <1>2, <1>3, BootedType
<1>5. Sound
  BY <1>1, <1>2, <1>4 DEF Sound, TypeOK, Calibratable, Calibrating
<1>6. QED
  BY <1>1, <1>3, <1>4, <1>5 DEF SavedIsInForce, Ending

(* The steps by what they do to the pass. *)
LEMMA Steps ==
  ASSUME [Next]_vars
  PROVE  \/ Frames
         \/ \E in \in [Groups -> Inputs], supply \in env.supplies, p \in Progress,
               saved \in BOOLEAN, delay \in env.saveTimes :
                 Control(in, supply, p, saved, delay)
         \/ \E gap \in Gaps : Wake(gap)
         \/ Reset
         \/ UNCHANGED vars
BY DEF Next, Frames

LEMMA StepSound ==
  ASSUME Sound, [Next]_vars
  PROVE  Sound'
<1>1. CASE Frames
  BY <1>1, FrameOutcome DEF Sound, TypeOK
<1>2. CASE \E in \in [Groups -> Inputs], supply \in env.supplies, p \in Progress,
              saved \in BOOLEAN, delay \in env.saveTimes :
                Control(in, supply, p, saved, delay)
  BY <1>2, ControlStep
<1>3. CASE \E gap \in Gaps : Wake(gap)
  BY <1>3, WakeStep
<1>4. CASE Reset
  BY <1>4, ResetStep
<1>5. CASE UNCHANGED vars
  BY <1>5 DEF vars, Sound, TypeOK, Calibratable, Calibrating
<1>6. QED
  BY <1>1, <1>2, <1>3, <1>4, <1>5, Steps

(* Whatever frames arrive and whatever saves fail, every member of FirmwareApp
   keeps its type, a calibration in progress has an enabled group, and thresholds
   stay in order, in RAM and in the EEPROM. *)
THEOREM AlwaysSound == Spec => []Sound
<1>1. Init => Sound
  BY InitSound
<1>2. Sound /\ [Next]_vars => Sound'
  BY StepSound
<1>3. QED
  BY <1>1, <1>2, PTL DEF Spec

-----------------------------------------------------------------------------
(* While no failed save is outstanding, RAM and EEPROM agree: a restart does not
   change what controls the fans. *)
THEOREM SavedStaysInForce == Spec => []SavedIsInForce
<1>1. Init => SavedIsInForce
  BY InitSound
<1>2. ASSUME Sound, SavedIsInForce, [Next]_vars PROVE SavedIsInForce'
  <2>1. CASE Frames
    BY <1>2, <2>1, FrameOutcome
  <2>2. CASE \E in \in [Groups -> Inputs], supply \in env.supplies, p \in Progress,
                saved \in BOOLEAN, delay \in env.saveTimes :
                  Control(in, supply, p, saved, delay)
    BY <1>2, <2>2, ControlStep
  <2>3. CASE \E gap \in Gaps : Wake(gap)
    BY <1>2, <2>3 DEF Wake, SavedIsInForce
  <2>4. CASE Reset
    BY <1>2, <2>4, ResetStep
  <2>5. CASE UNCHANGED vars
    BY <1>2, <2>5 DEF vars, SavedIsInForce
  <2>6. QED
    BY <1>2, <2>1, <2>2, <2>3, <2>4, <2>5, Steps
<1>3. QED
  BY <1>1, <1>2, AlwaysSound, PTL DEF Spec

(* Every group whose calibration is over was returned at full speed, to automatic
   control and with a fault unless its result was saved, but those that another
   start overtook in the pass that aborted them. *)
THEOREM CalibrationsAreReturned == Spec => []ReturnedUnlessOvertaken
<1> DEFINE Inv == Ending /\ ReturnedUnlessOvertaken
<1>1. Init => Inv
  BY InitSound DEF ReturnedUnlessOvertaken
<1>2. ASSUME Sound, Inv, [Next]_vars PROVE Inv'
  <2>1. CASE Frames
    BY <1>2, <2>1, FrameOutcome DEF ReturnedUnlessOvertaken
  <2>2. CASE \E in \in [Groups -> Inputs], supply \in env.supplies, p \in Progress,
                saved \in BOOLEAN, delay \in env.saveTimes :
                  Control(in, supply, p, saved, delay)
    BY <1>2, <2>2, ControlStep
  <2>3. CASE \E gap \in Gaps : Wake(gap)
    BY <1>2, <2>3 DEF Wake, Ending, Calibrating, ReturnedUnlessOvertaken
  <2>4. CASE Reset
    <3>1. stage' = "poll"
      BY <2>4 DEF Reset
    <3>2. QED
      BY <1>2, <2>4, <3>1, ResetStep DEF ReturnedUnlessOvertaken
  <2>5. CASE UNCHANGED vars
    BY <1>2, <2>5 DEF vars, Ending, Calibrating, ReturnedUnlessOvertaken, Target
  <2>6. QED
    BY <1>2, <2>1, <2>2, <2>3, <2>4, <2>5, Steps
<1>3. QED
  BY <1>1, <1>2, AlwaysSound, PTL DEF Spec

(* At the outputs, past a calibration and its direct access to the PWM, an enabled
   group of unknown or critical temperature gets full speed at the end of every
   pass. *)
THEOREM UnsafeOutputsAreFull == Spec => []UnsafeOutputIsFull
<1>1. Init => UnsafeOutputIsFull
  BY InitSound DEF UnsafeOutputIsFull
<1>2. ASSUME Sound, UnsafeOutputIsFull, [Next]_vars PROVE UnsafeOutputIsFull'
  <2>1. CASE Frames
    BY <1>2, <2>1, FrameOutcome DEF UnsafeOutputIsFull
  <2>2. ASSUME NEW in \in [Groups -> Inputs], NEW supply \in env.supplies,
               NEW p \in Progress, NEW saved \in BOOLEAN, NEW delay \in env.saveTimes,
               Control(in, supply, p, saved, delay)
        PROVE  UnsafeOutputIsFull'
    <3> SUFFICES ASSUME NEW g \in Groups, app'.data.cfg[g].enabled,
                        app'.pwm[g] # FullDuty
                 PROVE  /\ app'.groups[g].temperatureValid
                        /\ ~(app'.groups[g].temperature >= app'.data.cfg[g].critical)
      BY DEF UnsafeOutputIsFull
    <3>1. /\ app' \in Apps /\ SameThresholds(app'.data, app.data)
          /\ app.data.cfg[g].enabled =>
               \/ app'.pwm[g] = FullDuty
               \/ Calibrating(app') /\ g = app'.group
               \/ /\ app'.groups[g].temperatureValid
                  /\ app'.groups[g].temperature < app.data.cfg[g].critical
          /\ Calibrating(app') =>
               /\ app'.groups[app'.group].temperatureValid
               /\ app'.groups[app'.group].temperature < app.data.cfg[app'.group].warning
      BY <1>2, <2>2, ControlOutcome
    <3>2. /\ app'.groups[g].temperature \in Int
          /\ app.data.cfg[g].warning \in Int /\ app.data.cfg[g].critical \in Int
          /\ app.data.cfg[g].warning < app.data.cfg[g].critical
      <4>1. app'.groups[g] \in FanGroups /\ app.data.cfg[g] \in GroupConfigs
        BY <1>2, <3>1 DEF Sound, TypeOK, Apps, PersistedData
      <4>2. QED
        BY <1>2, <4>1, GroupAssumption DEF FanGroups, GroupConfigs, Sound, Ordered
    <3>3. /\ app'.data.cfg[g].critical = app.data.cfg[g].critical
          /\ app.data.cfg[g].enabled
      BY <3>1 DEF SameThresholds
    <3>4. QED
      BY <3>1, <3>2, <3>3
  <2>3. CASE \E gap \in Gaps : Wake(gap)
    BY <2>3 DEF Wake, UnsafeOutputIsFull
  <2>4. CASE Reset
    BY <2>4 DEF Reset, UnsafeOutputIsFull
  <2>5. CASE UNCHANGED vars
    BY <1>2, <2>5 DEF vars, UnsafeOutputIsFull
  <2>6. QED
    BY <1>2, <2>1, <2>2, <2>3, <2>4, <2>5, Steps
<1>3. QED
  BY <1>1, <1>2, AlwaysSound, PTL DEF Spec

(* Between restarts no calibration table changes without its generation, so the
   host, which sees that in every heartbeat, learns of it: also when settings are
   applied, and when a commit is taken back. *)
THEOREM TablesStayVersioned == Spec => TablesAreVersioned
<1> DEFINE Versioned == app'.data.cal # app.data.cal /\ ~Reset =>
                          app'.data.calGeneration # app.data.calGeneration
<1>1. ASSUME Sound, [Next]_vars PROVE [Versioned]_vars
  <2>1. CASE Frames
    BY <1>1, <2>1, FrameOutcome
  <2>2. CASE \E in \in [Groups -> Inputs], supply \in env.supplies, p \in Progress,
                saved \in BOOLEAN, delay \in env.saveTimes :
                  Control(in, supply, p, saved, delay)
    BY <1>1, <2>2, ControlOutcome
  <2>3. CASE \E gap \in Gaps : Wake(gap)
    BY <2>3 DEF Wake
  <2>4. QED
    BY <1>1, <2>1, <2>2, <2>3, Steps
<1>2. QED
  BY <1>1, AlwaysSound, PTL DEF Spec, TablesAreVersioned

-----------------------------------------------------------------------------
(* The watchdog of the host.  It compares clocks that wrap, so it tells a silence
   from none as long as the silence is shorter than a turn of the clock, 49.7
   days; the clock itself may turn over at any time in it. *)
Timely ==
  /\ 1 <= silentFrom /\ silentFrom <= uptime
  /\ app.lastHost = silentFrom % TimeModulus

BriefSilence == uptime - silentFrom < TimeModulus

LEMMA SilenceMeasured ==
  ASSUME Sound, Timely, BriefSilence
  PROVE  TimedOut(app, now) <=> uptime - silentFrom >= app.data.timeout
<1>1. /\ uptime \in Nat /\ silentFrom \in Nat /\ silentFrom <= uptime
      /\ TimeModulus \in Nat /\ TimeModulus >= 4
  BY TimeAssumption DEF Sound, TypeOK, Timely
<1>2. Elapsed(uptime % TimeModulus, silentFrom % TimeModulus) = uptime - silentFrom
  BY <1>1, ElapsedAcrossTurn DEF BriefSilence
<1>3. QED
  BY <1>2 DEF TimedOut, now, Timely

LEMMA StepTimely ==
  ASSUME Sound, Timely, [Next]_vars
  PROVE  Timely'
<1>1. uptime \in Nat /\ silentFrom \in Nat /\ TimeModulus \in Nat /\ TimeModulus >= 4
  BY TimeAssumption DEF Sound, TypeOK
<1>2. CASE Frames
  BY <1>1, <1>2, FrameOutcome DEF Timely, now
<1>3. CASE \E in \in [Groups -> Inputs], supply \in env.supplies, p \in Progress,
              saved \in BOOLEAN, delay \in env.saveTimes :
                Control(in, supply, p, saved, delay)
  <2>1. app'.lastHost = app.lastHost /\ UNCHANGED <<uptime, silentFrom>>
    BY <1>3, ControlOutcome DEF Control
  <2>2. QED
    BY <2>1 DEF Timely
<1>4. CASE \E gap \in Gaps : Wake(gap)
  BY <1>1, <1>4, WakeStep DEF Timely
<1>5. CASE Reset
  <2>1. uptime' = 1 /\ silentFrom' = 1 /\ app'.lastHost = 1
    BY <1>5, ResetStep DEF Reset
  <2>2. 1 % TimeModulus = 1
    BY <1>1
  <2>3. QED
    BY <2>1, <2>2 DEF Timely
<1>6. CASE UNCHANGED vars
  BY <1>6 DEF vars, Timely
<1>7. QED
  BY <1>2, <1>3, <1>4, <1>5, <1>6, Steps

LEMMA AlwaysTimely == Spec => []Timely
<1>1. Init => Timely
  BY InitSound DEF Timely
<1>2. Sound /\ Timely /\ [Next]_vars => Timely'
  BY StepTimely
<1>3. QED
  BY <1>1, <1>2, AlwaysSound, PTL DEF Spec

(* When the host has been silent for the timeout, for less than a turn of the
   clock, both outputs are at 100% at the end of every pass. *)
THEOREM SilenceMeansFullSpeed == Spec => [](BriefSilence => SilenceIsFullSpeed)
<1> DEFINE Inv == BriefSilence => SilenceIsFullSpeed
<1>1. Init => Inv
  BY InitSound DEF SilenceIsFullSpeed
<1>2. ASSUME Sound, Timely, Inv, [Next]_vars PROVE Inv'
  <2>1. CASE Frames
    BY <1>2, <2>1, FrameOutcome DEF SilenceIsFullSpeed
  <2>2. ASSUME NEW in \in [Groups -> Inputs], NEW supply \in env.supplies,
               NEW p \in Progress, NEW saved \in BOOLEAN, NEW delay \in env.saveTimes,
               Control(in, supply, p, saved, delay), BriefSilence',
               (uptime - silentFrom >= app.data.timeout)'
        PROVE  \A g \in Groups : app'.pwm[g] = FullDuty
    <3>1. /\ SameThresholds(app'.data, app.data)
          /\ \A g \in Groups : TimedOut(app, now) => app'.pwm[g] = FullDuty
      BY <1>2, <2>2, ControlOutcome
    <3>2. UNCHANGED <<uptime, silentFrom>> /\ app'.data.timeout = app.data.timeout
      BY <2>2, <3>1 DEF Control, SameThresholds
    <3>3. BriefSilence /\ uptime - silentFrom >= app.data.timeout
      BY <2>2, <3>2 DEF BriefSilence
    <3>4. QED
      BY <1>2, <3>1, <3>3, SilenceMeasured
  <2>3. CASE \E gap \in Gaps : Wake(gap)
    BY <2>3 DEF Wake, SilenceIsFullSpeed
  <2>4. CASE Reset
    BY <2>4 DEF Reset, SilenceIsFullSpeed
  <2>5. CASE UNCHANGED vars
    BY <1>2, <2>5 DEF vars, BriefSilence, SilenceIsFullSpeed
  <2>6. QED
    BY <1>2, <2>1, <2>2, <2>3, <2>4, <2>5, Steps DEF SilenceIsFullSpeed
<1>3. QED
  BY <1>1, <1>2, AlwaysSound, AlwaysTimely, PTL DEF Spec

(* No pass ends with a calibration in progress on a group that is disabled, not
   known to be cool, or without its host. *)
THEOREM OnlyCoolGroupsAreCalibrated == Spec => [](BriefSilence => CalibratesCoolGroup)
<1> DEFINE Inv == BriefSilence => CalibratesCoolGroup
<1>1. Init => Inv
  BY InitSound DEF CalibratesCoolGroup
<1>2. ASSUME Sound, Timely, Inv, [Next]_vars PROVE Inv'
  <2>1. CASE Frames
    BY <1>2, <2>1, FrameOutcome DEF CalibratesCoolGroup
  <2>2. ASSUME NEW in \in [Groups -> Inputs], NEW supply \in env.supplies,
               NEW p \in Progress, NEW saved \in BOOLEAN, NEW delay \in env.saveTimes,
               Control(in, supply, p, saved, delay), BriefSilence', Calibrating(app')
        PROVE  /\ app'.data.cfg[app'.group].enabled
               /\ app'.groups[app'.group].temperatureValid
               /\ app'.groups[app'.group].temperature < app'.data.cfg[app'.group].warning
               /\ (uptime - silentFrom < app.data.timeout)'
    <3>1. /\ SameThresholds(app'.data, app.data) /\ app' \in Apps
          /\ app'.group = app.group
          /\ Calibrating(app) /\ ~TimedOut(app, now)
          /\ app'.groups[app'.group].temperatureValid
          /\ app'.groups[app'.group].temperature < app.data.cfg[app'.group].warning
      BY <1>2, <2>2, ControlOutcome
    <3>2. /\ UNCHANGED <<uptime, silentFrom>> /\ app'.data.timeout = app.data.timeout
          /\ app'.group \in Groups
          /\ app'.data.cfg[app'.group].enabled = app.data.cfg[app'.group].enabled
          /\ app'.data.cfg[app'.group].warning = app.data.cfg[app'.group].warning
      BY <2>2, <3>1 DEF Control, SameThresholds, Apps
    <3>3. uptime \in Nat /\ silentFrom \in Nat /\ app.data.timeout \in Nat
      BY <1>2 DEF Sound, TypeOK, Apps, PersistedData
    <3>4. BriefSilence /\ ~(uptime - silentFrom >= app.data.timeout)
      BY <1>2, <2>2, <3>1, <3>2, SilenceMeasured DEF BriefSilence
    <3>5. app.data.cfg[app.group].enabled
      BY <1>2, <3>1 DEF Sound, Calibratable
    <3>6. QED
      BY <3>1, <3>2, <3>3, <3>4, <3>5
  <2>3. CASE \E gap \in Gaps : Wake(gap)
    BY <2>3 DEF Wake, CalibratesCoolGroup
  <2>4. CASE Reset
    BY <2>4 DEF Reset, CalibratesCoolGroup
  <2>5. CASE UNCHANGED vars
    BY <1>2, <2>5 DEF vars, BriefSilence, CalibratesCoolGroup, Calibrating, Target
  <2>6. QED
    BY <1>2, <2>1, <2>2, <2>3, <2>4, <2>5, Steps DEF CalibratesCoolGroup, Target
<1>3. QED
  BY <1>1, <1>2, AlwaysSound, AlwaysTimely, PTL DEF Spec

=============================================================================
