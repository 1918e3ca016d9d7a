--------------------------- MODULE FanGroupProofs ---------------------------
(***************************************************************************)
(* Theorems about one fan group: its object keeps its type, an unsafe      *)
(* temperature or a silent host always means full speed, and automatic     *)
(* control never runs below the floor - for every set of configurations,   *)
(* calibrations, requests and readings, every rate and every clock.        *)
(***************************************************************************)
EXTENDS FanGroup, FanGroupControllerProofs

(* The clock of the group is a millis() value. *)
LEMMA NowType ==
  ASSUME NEW u \in Nat
  PROVE  u % TimeModulus \in Times
BY TimeAssumption DEF Times

LEMMA EnvironmentType ==
  ASSUME NEW e \in Environments
  PROVE  /\ \A c \in e.configs : c \in GroupConfigs
         /\ \A k \in e.calibrations : k \in GroupCalibrations
         /\ \A r \in e.readings : r \in Reports
         /\ \A o \in e.overrides : o \in ModeRequests
         /\ \A in \in e.inputs : in \in GroupInputs
         /\ \A d \in e.duties : d \in Duties
         /\ \A a \in e.alarms : a \in BOOLEAN
BY FanGroupAssumption

(* The type invariant alone is inductive.  The two safety invariants speak of
   the state a control update leaves, which every control update establishes
   from a state of the right type; no other step leaves such a state. *)
GroupSafe == TypeOK /\ UnsafeIsFullSpeed /\ NeverBelowFloor

(* What Record writes keeps its type. *)
LEMMA RecordType ==
  ASSUME TypeOK, cfg' \in GroupConfigs, cal' \in GroupCalibrations,
         NEW g \in FanGroups, NEW began \in Nat \cup {Never}, Record(g, began)
  PROVE  /\ group' \in FanGroups
         /\ expiry' \in Nat \cup {Never}
         /\ boostEnd' \in Nat /\ boostSet' \in Nat
<1>1. uptime + StartupTime(cfg', cal') \in Nat
  BY StartupTimeType DEF TypeOK
<1>2. QED
  BY <1>1 DEF Record, TypeOK

LEMMA InitSafe == Init => GroupSafe
<1> SUFFICES ASSUME Init PROVE GroupSafe
  OBVIOUS
<1>1. cfg \in GroupConfigs /\ cal \in GroupCalibrations
  BY EnvironmentType DEF Init
<1>2. uptime \in Nat /\ now \in Times
  BY NowType DEF Init, now
<1>3. group \in FanGroups
  BY <1>1, <1>2, BeginType DEF Init
<1>4. boostEnd \in Nat /\ boostSet \in Nat
  BY <1>1, <1>2, StartupTimeType DEF Init
<1>5. TypeOK
  BY <1>2, <1>3, <1>4 DEF Init, TypeOK
<1>6. QED
  BY <1>5 DEF Init, GroupSafe, UnsafeIsFullSpeed, NeverBelowFloor

LEMMA PassSafe ==
  ASSUME TypeOK, NEW gap \in Gaps, NEW hostAlarm \in env.alarms,
         NEW in \in env.inputs, Pass(gap, hostAlarm, in)
  PROVE  GroupSafe'
<1> DEFINE at == uptime + gap
           g == Update(group, cfg, cal, at % TimeModulus, hostAlarm, in)
<1>1. /\ cfg \in GroupConfigs /\ cal \in GroupCalibrations
      /\ in \in GroupInputs /\ hostAlarm \in BOOLEAN
  BY EnvironmentType DEF TypeOK
<1>2. at \in Nat /\ at % TimeModulus \in Times
  BY FanGroupAssumption, NowType DEF TypeOK
<1>3. group \in FanGroups
  BY DEF TypeOK
<1> HIDE DEF at
<1>4. /\ g \in FanGroups
      /\ \/ g.duty = FullDuty
         \/ /\ g.mode # "Alarm"
            /\ cfg.enabled => g.temperatureValid /\ g.temperature < cfg.critical
      /\ g.mode = "Automatic" =>
           \/ g.duty >= MinimumDuty(cfg, cal)
           \/ g.duty = 0 /\ CanStop(cfg, cal) /\ g.target = 0
  BY <1>1, <1>2, <1>3, UpdateType
<1>5. /\ env' = env /\ cfg' = cfg /\ cal' = cal /\ group' = g
      /\ uptime' = at /\ fresh' = TRUE
  BY DEF Pass, at, g
<1>6. /\ expiry' \in Nat \cup {Never}
      /\ boostEnd' \in Nat /\ boostSet' \in Nat
  <2>1. at + StartupTime(cfg, cal) \in Nat /\ Larger(boostEnd, at + StartupTime(cfg, cal)) \in Nat
    BY <1>1, <1>2, StartupTimeType DEF Larger, TypeOK
  <2>2. QED
    BY <1>2, <2>1 DEF Pass, TypeOK, at
<1>7. /\ slowSince' \in [Fans -> Nat \cup {Never}]
      /\ oddSince' \in [Currents -> Nat \cup {Never}]
  BY <1>2 DEF Pass, TypeOK, at
<1> HIDE DEF g
<1>8. TypeOK'
  BY <1>2, <1>4, <1>5, <1>6, <1>7 DEF TypeOK
<1>9. UnsafeIsFullSpeed' /\ NeverBelowFloor'
  BY <1>4, <1>5 DEF UnsafeIsFullSpeed, NeverBelowFloor
<1>10. QED
  BY <1>8, <1>9 DEF GroupSafe

LEMMA StepSafe == GroupSafe /\ [Next]_vars => GroupSafe'
<1> SUFFICES ASSUME GroupSafe, [Next]_vars PROVE GroupSafe'
  OBVIOUS
<1>1. TypeOK
  BY DEF GroupSafe
<1>2. /\ cfg \in GroupConfigs /\ cal \in GroupCalibrations
      /\ group \in FanGroups /\ now \in Times /\ uptime \in Nat
      /\ expiry \in Nat \cup {Never} /\ Never \in Nat \cup {Never}
  BY <1>1, EnvironmentType, NowType DEF TypeOK, now
(* Every step but a control update leaves nothing to show but the types. *)
<1>3. ASSUME TypeOK', ~fresh' PROVE GroupSafe'
  BY <1>3 DEF GroupSafe, UnsafeIsFullSpeed, NeverBelowFloor
<1>4. ASSUME UNCHANGED <<env, uptime, cfg, cal, slowSince, oddSince>>, ~fresh',
             fresh' \in BOOLEAN,
             NEW g \in FanGroups, NEW began \in Nat \cup {Never}, Record(g, began)
      PROVE  GroupSafe'
  <2>1. cfg' \in GroupConfigs /\ cal' \in GroupCalibrations
    BY <1>2, <1>4
  <2>2. TypeOK'
    BY <1>1, <1>4, <2>1, RecordType DEF TypeOK
  <2>3. QED
    BY <1>3, <1>4, <2>2
<1>5. CASE \E r \in env.readings : NewTemperature(r)
  <2>1. PICK r \in env.readings : NewTemperature(r)
    BY <1>5
  <2>2. SetTemperature(group, r.value, r.valid) \in FanGroups
    BY <1>1, <1>2, EnvironmentType, SetTemperatureType DEF TypeOK
  <2>3. QED
    BY <1>2, <1>4, <2>1, <2>2 DEF NewTemperature
<1>6. CASE \E o \in env.overrides : SetMode(o)
  <2>1. PICK o \in env.overrides : SetMode(o)
    BY <1>6
  <2>2. o.mode \in RequestedModes /\ o.duty \in Nat /\ o.timeout \in Nat
    BY <1>1, EnvironmentType DEF TypeOK, ModeRequests
  <2>3. SetOverride(group, cfg, cal, o.mode, o.duty, o.timeout, now) \in FanGroups
    BY <1>2, <2>2, SetOverrideType
  <2>4. uptime + (IF o.timeout = 0 THEN DefaultOverrideTime ELSE o.timeout) \in Nat
    BY <1>2, <2>2, GroupAssumption
  <2>5. QED
    BY <1>4, <2>1, <2>3, <2>4 DEF SetMode
<1>7. CASE \E c \in env.configs : NewConfiguration(c)
  <2>1. PICK c \in env.configs : NewConfiguration(c)
    BY <1>7
  <2>2. /\ cfg' \in env.configs /\ cal' \in env.calibrations
        /\ cfg' \in GroupConfigs /\ cal' \in GroupCalibrations
    BY <1>1, <2>1, EnvironmentType DEF TypeOK, NewConfiguration
  <2>3. ApplyConfiguration(group, cfg', cal', now) \in FanGroups
    BY <1>2, <2>2, ApplyConfigurationType
  <2>4. Record(ApplyConfiguration(group, cfg', cal', now), expiry)
    BY <2>1 DEF NewConfiguration
  <2>5. /\ group' \in FanGroups
        /\ expiry' \in Nat \cup {Never}
        /\ boostEnd' \in Nat /\ boostSet' \in Nat
    BY <1>1, <1>2, <2>2, <2>3, <2>4, RecordType
  <2>6. TypeOK' /\ ~fresh'
    BY <1>1, <2>1, <2>2, <2>5 DEF TypeOK, NewConfiguration
  <2>7. QED
    BY <1>3, <2>6
<1>8. CASE \E d \in env.duties : Calibrate(d)
  <2>1. PICK d \in env.duties : Calibrate(d)
    BY <1>8
  <2>2. d \in Duties
    BY <1>1, EnvironmentType DEF TypeOK
  <2>3. SynchronizeAppliedDuty(SetCalibrationOverride(group, TRUE, d), d, now)
          \in FanGroups
    BY <1>2, <2>2, SetCalibrationOverrideType, SynchronizeAppliedDutyType
  <2>4. QED
    BY <1>2, <1>4, <2>1, <2>3 DEF Calibrate
<1>9. CASE EndCalibration
  <2> DEFINE back == SetCalibrationOverride(group, FALSE, FullDuty)
             auto == SetOverride(back, cfg, cal, "Automatic", 0, 0, now)
  <2>1. FullDuty \in Duties /\ "Automatic" \in RequestedModes
    BY RampAssumption DEF Duties, RequestedModes
  <2>2. back \in FanGroups
    BY <1>2, <2>1, SetCalibrationOverrideType
  <2>3. auto \in FanGroups
    BY <1>2, <2>1, <2>2, SetOverrideType
  <2>4. SynchronizeAppliedDuty(auto, FullDuty, now) \in FanGroups
    BY <1>2, <2>1, <2>3, SynchronizeAppliedDutyType
  <2>5. QED
    BY <1>2, <1>4, <1>9, <2>4 DEF EndCalibration
<1>10. CASE \E gap \in Gaps, hostAlarm \in env.alarms, in \in env.inputs :
              Pass(gap, hostAlarm, in)
  BY <1>1, <1>10, PassSafe
<1>11. CASE UNCHANGED vars
  BY <1>11 DEF GroupSafe, TypeOK, UnsafeIsFullSpeed, NeverBelowFloor, vars
<1>12. QED
  BY <1>5, <1>6, <1>7, <1>8, <1>9, <1>10, <1>11 DEF Next

(* The object never leaves its type: whatever the host sends and the sensors
   measure, no method of the class computes a duty above 100%, an unknown mode
   or fault, or a time that does not fit a millis() value. *)
THEOREM TypeCorrect == Spec => []TypeOK
<1>1. Spec => []GroupSafe
  BY InitSafe, StepSafe, PTL DEF Spec
<1>2. GroupSafe => TypeOK
  BY DEF GroupSafe
<1>3. QED
  BY <1>1, <1>2, PTL

(* An invalid or critical temperature, or a silent host, is answered with full
   speed in every control update, whatever override, boost, ramp, verified stop
   or calibration is under way. *)
THEOREM UnsafeAlwaysFullSpeed == Spec => []UnsafeIsFullSpeed
<1>1. Spec => []GroupSafe
  BY InitSafe, StepSafe, PTL DEF Spec
<1>2. GroupSafe => UnsafeIsFullSpeed
  BY DEF GroupSafe
<1>3. QED
  BY <1>1, <1>2, PTL

(* Automatic control leaves the fans at the floor in force or above, or at rest
   where a stop is verified and wanted, for every floor and every ramp rate. *)
THEOREM AlwaysAboveFloor == Spec => []NeverBelowFloor
<1>1. Spec => []GroupSafe
  BY InitSafe, StepSafe, PTL DEF Spec
<1>2. GroupSafe => NeverBelowFloor
  BY DEF GroupSafe
<1>3. QED
  BY <1>1, <1>2, PTL

-----------------------------------------------------------------------------
(* Deadlines.  The clock of the firmware wraps, and a deadline is compared with it
   as a signed difference.  Boosts are proved for any boot, however often the clock
   turns, where none is configured to last half a turn: the code has 16 bits of
   milliseconds for it.  The properties that relate overrides and fault timers, which
   use 0 for "none", to their histories are about a boot of less than half a turn
   (24.8 days) and overrides shorter than that. *)
BriefBoosts ==
  \A e \in Environments : \A c \in e.configs : 2 * c.startupTime < TimeModulus

BriefBoot ==
  /\ BriefBoosts
  /\ \A e \in Environments : 2 * e.until < TimeModulus
  /\ 2 * DefaultOverrideTime < TimeModulus
  /\ \A e \in Environments : \A o \in e.overrides : 2 * o.timeout < TimeModulus

(* A timer that runs began when the history did, or later. *)
Ran(timer, since) ==
  timer # 0 => since # Never /\ since <= timer /\ timer <= uptime

(* The inductive invariant: the deadlines of the object are those of the history. *)
Timed ==
  /\ 2 * uptime < TimeModulus /\ uptime >= 1
  /\ OnRamp(group)
  /\ IF group.overrideMode = "Automatic" THEN group.overrideUntil = 0
     ELSE expiry > 0 /\ group.overrideUntil = expiry
  /\ group.startupUntil <= boostEnd
  /\ \A f \in Fans : slowSince[f] <= uptime /\ Ran(group.fanBadSince[f], slowSince[f])
  /\ \A c \in Currents : oddSince[c] <= uptime
  /\ Ran(group.currentLowSince, oddSince["low"])
  /\ Ran(group.currentHighSince, oddSince["high"])

(* What the steps establish of the object they leave. *)
Confirmed ==
  /\ Timed /\ OverrideExpires /\ SlowFanConfirmed /\ CurrentFaultConfirmed

(* In the first half of its range the clock does not wrap. *)
LEMMA EarlyClock ==
  ASSUME NEW u \in Nat, 2 * u < TimeModulus
  PROVE  /\ u % TimeModulus = u
         /\ \A d \in Nat : 2 * d < TimeModulus => TimeAdd(u, d) = u + d
         /\ \A s \in Nat : s <= u => Elapsed(u, s) = u - s /\ TimeReached(u, s)
<1>1. TimeModulus \in Nat \ {0}
  BY TimeAssumption
<1>2. \A n \in Nat : n < TimeModulus => n % TimeModulus = n
  BY <1>1
<1>3. u % TimeModulus = u
  BY <1>1, <1>2
<1>4. ASSUME NEW d \in Nat, 2 * d < TimeModulus PROVE TimeAdd(u, d) = u + d
  <2>1. u + d \in Nat /\ u + d < TimeModulus
    BY <1>1, <1>4
  <2>2. QED
    BY <1>2, <2>1 DEF TimeAdd
<1>5. ASSUME NEW s \in Nat, s <= u PROVE Elapsed(u, s) = u - s /\ TimeReached(u, s)
  <2>1. u - s \in Nat /\ u - s < TimeModulus /\ 2 * (u - s) < TimeModulus
    BY <1>1, <1>5
  <2>2. Elapsed(u, s) = u - s
    BY <1>2, <2>1 DEF Elapsed
  <2>3. QED
    BY <2>1, <2>2 DEF TimeReached
<1>6. QED
  BY <1>3, <1>4, <1>5

LEMMA BriefStartup ==
  ASSUME BriefBoosts, NEW e \in Environments, NEW c \in e.configs,
         NEW k \in GroupCalibrations
  PROVE  StartupTime(c, k) \in Nat /\ 2 * StartupTime(c, k) < TimeModulus
<1>1. c \in GroupConfigs
  BY EnvironmentType
<1>2. 2 * c.startupTime < TimeModulus
  BY DEF BriefBoosts
<1>3. QED
  BY <1>1, <1>2, StartupTimeType, GroupAssumption DEF StartupTime, Larger

(* A step between two control updates. *)
LEMMA RecordTimed ==
  ASSUME TypeOK, Timed, NEW g \in FanGroups, NEW began, Record(g, began),
         UNCHANGED <<uptime, slowSince, oddSince>>,
         KeepsTimers(g, group), OnRamp(g),
         IF g.overrideMode = "Automatic" THEN g.overrideUntil = 0
         ELSE began > 0 /\ g.overrideUntil = began,
         g.startupUntil = group.startupUntil
           \/ g.startupUntil <= uptime + StartupTime(cfg', cal')
  PROVE  Timed'
<1>1. group' = g /\ OnRamp(group')
  BY DEF Record
<1>2. IF group'.overrideMode = "Automatic" THEN group'.overrideUntil = 0
      ELSE expiry' > 0 /\ group'.overrideUntil = expiry'
  BY DEF Record
<1>3. group'.startupUntil <= boostEnd'
  BY DEF Record, Timed
<1>4. /\ \A f \in Fans : Ran(group.fanBadSince[f], slowSince[f])
                            => Ran(group.fanBadSince[f], slowSince[f])'
      /\ (Ran(group.currentLowSince, oddSince["low"])
            => Ran(group.currentLowSince, oddSince["low"])')
      /\ (Ran(group.currentHighSince, oddSince["high"])
            => Ran(group.currentHighSince, oddSince["high"])')
  BY <1>1 DEF Ran, KeepsTimers
<1>5. QED
  BY <1>1, <1>2, <1>3, <1>4 DEF Timed

LEMMA InitTimed == BriefBoot /\ Init => Confirmed
<1> SUFFICES ASSUME BriefBoot, Init PROVE Confirmed
  OBVIOUS
<1> DEFINE made == ConstructedGroup(now)
<1>1. cfg \in GroupConfigs /\ cal \in GroupCalibrations /\ env \in Environments
      /\ cfg \in env.configs
  BY EnvironmentType DEF Init
<1>2. 2 * uptime < TimeModulus /\ uptime = 1 /\ now = 1 /\ 1 \in Times
  BY TimeAssumption, EarlyClock DEF Init, now, Times
<1>3. StartupTime(cfg, cal) \in Nat /\ 2 * StartupTime(cfg, cal) < TimeModulus
  BY <1>1, BriefStartup DEF BriefBoot
<1>4. TimeAdd(now, StartupTime(cfg, cal)) = 1 + StartupTime(cfg, cal) /\ TimeAdd(now, 0) = 1
  BY <1>2, <1>3, EarlyClock, TimeAssumption
<1>5. made \in FanGroups
  BY <1>2, ConstructedGroupType
<1>6. /\ OnRamp(made) /\ made.overrideMode = "Automatic" /\ made.overrideUntil = 0
      /\ made.startupUntil = 0
      /\ \A f \in Fans : made.fanBadSince[f] = 0
      /\ made.currentLowSince = 0 /\ made.currentHighSince = 0
  BY <1>2, RampResetType, RampAssumption DEF ConstructedGroup, OnRamp, Duties
<1> HIDE DEF made
<1>7. group = ApplyConfiguration(made, cfg, cal, now)
  BY DEF Init, Begin, made
<1>8. /\ OnRamp(group) /\ group.overrideMode = "Automatic" /\ group.overrideUntil = 0
      /\ group.startupUntil \in {0, 1, 1 + StartupTime(cfg, cal)}
      /\ \A f \in Fans : group.fanBadSince[f] = 0
      /\ group.currentLowSince = 0 /\ group.currentHighSince = 0
  BY <1>1, <1>4, <1>5, <1>6, <1>7, ApplyConfigurationDeadlines
     DEF SameDeadlines, KeepsTimers
<1>9. boostEnd = 1 + StartupTime(cfg, cal) /\ ~fresh
      /\ (\A f \in Fans : slowSince[f] = -1) /\ \A c \in Currents : oddSince[c] = -1
  BY DEF Init, Never
<1>10. Timed
  BY <1>2, <1>3, <1>8, <1>9 DEF Timed, Ran
<1>11. QED
  BY <1>9, <1>10
     DEF Confirmed, OverrideExpires, SlowFanConfirmed, CurrentFaultConfirmed

(* A timer that a control update leaves running, and what one that has run for
   the delay says of the history. *)
LEMMA TimerRuns ==
  ASSUME NEW at \in Nat, 2 * at < TimeModulus, uptime \in Nat, uptime <= at, 1 <= at,
         NEW timer \in Times, NEW since \in Nat \cup {Never},
         since <= uptime, Ran(timer, since)
  PROVE  LET on == IF since = Never THEN at ELSE since
         IN  /\ on \in Nat /\ on <= Armed(timer, at) /\ Armed(timer, at) <= at
             /\ Elapsed(at, Armed(timer, at)) = at - Armed(timer, at)
<1>1. timer \in Nat
  BY TimeAssumption DEF Times
<1>2. Armed(timer, at) \in Nat /\ Armed(timer, at) <= at
  BY <1>1 DEF Armed, Ran
<1>3. Elapsed(at, Armed(timer, at)) = at - Armed(timer, at)
  BY <1>2, EarlyClock
<1>4. QED
  BY <1>1, <1>2, <1>3 DEF Armed, Ran, Never

LEMMA PassTimed ==
  ASSUME BriefBoot, TypeOK, Timed, NEW gap \in Gaps, NEW hostAlarm \in env.alarms,
         NEW in \in env.inputs, Pass(gap, hostAlarm, in)
  PROVE  Confirmed'
<1> DEFINE at == uptime + gap
           g == Update(group, cfg, cal, at % TimeModulus, hostAlarm, in)
           monitored == cfg.enabled /\ ~hostAlarm
           fanFrom(f) == IF slowSince[f] = Never THEN at ELSE slowSince[f]
           oddFrom(c) == IF oddSince[c] = Never THEN at ELSE oddSince[c]
<1>1. /\ cfg \in GroupConfigs /\ cal \in GroupCalibrations
      /\ in \in GroupInputs /\ hostAlarm \in BOOLEAN
      /\ env \in Environments /\ cfg \in env.configs
      /\ group \in FanGroups /\ uptime \in Nat
  BY EnvironmentType DEF TypeOK
<1>2. /\ at \in Nat /\ 2 * at < TimeModulus /\ 1 <= at /\ uptime <= at
      /\ at % TimeModulus = at /\ at \in Times
  <2>1. gap \in Nat /\ at <= env.until /\ env.until \in Nat
    BY <1>1, FanGroupAssumption DEF Pass
  <2>2. at \in Nat /\ 2 * at < TimeModulus /\ 1 <= at /\ uptime <= at
    BY <1>1, <2>1, TimeAssumption DEF BriefBoot, Timed
  <2>3. QED
    BY <2>2, EarlyClock, TimeAssumption DEF Times
<1>3. /\ StartupTime(cfg, cal) \in Nat
      /\ TimeAdd(at, StartupTime(cfg, cal)) = at + StartupTime(cfg, cal)
  BY <1>1, <1>2, BriefStartup, EarlyClock DEF BriefBoot
<1>4. /\ cfg' = cfg /\ cal' = cal /\ group' = g /\ uptime' = at
      /\ expiry' = IF g.overrideMode = "Automatic" THEN Never ELSE expiry
      /\ boostEnd' = IF \/ group.duty = 0
                        \/ group.overrideMode # "Automatic" /\ g.overrideMode = "Automatic"
                       THEN Larger(boostEnd, at + StartupTime(cfg, cal)) ELSE boostEnd
      /\ \A f \in Fans :
           slowSince'[f] = IF monitored /\ f \in in.slow THEN fanFrom(f) ELSE Never
      /\ \A c \in Currents :
           oddSince'[c] = IF monitored /\ \/ in.current = c
                                          \/ in.current = "unknown" /\ oddSince[c] # Never
                            THEN oddFrom(c) ELSE Never
  BY DEF Pass
<1>5. /\ boostEnd \in Nat /\ expiry \in Nat \cup {Never}
      /\ group.startupUntil \in Nat /\ group.overrideUntil \in Nat
      /\ "low" \in Currents /\ "high" \in Currents
  BY <1>1, TimeAssumption DEF TypeOK, FanGroups, Times, Currents
<1>6. /\ \A f \in Fans : fanFrom(f) \in Nat /\ fanFrom(f) <= at
      /\ \A c \in Currents : oddFrom(c) \in Nat /\ oddFrom(c) <= at
  BY <1>1, <1>2 DEF TypeOK, Timed, Never
<1>7. /\ \A f \in Fans : slowSince'[f] <= at
      /\ \A c \in Currents : oddSince'[c] <= at
  <2>1. Never <= at
    BY <1>2 DEF Never
  <2>2. QED
    BY <1>4, <1>6, <2>1
<1>8. CASE hostAlarm \/ ~cfg.enabled
  <2>1. /\ g.mode \in {"Alarm", "Disabled"}
        /\ SameDeadlines(g, group) /\ OnRamp(g) /\ g.active = {}
        /\ \A f \in Fans : g.fanBadSince[f] = 0
        /\ g.currentLowSince = 0 /\ g.currentHighSince = 0
    BY <1>1, <1>2, <1>8, SuspendedUpdate
  <2> HIDE DEF g
  <2>2. group'.startupUntil <= boostEnd'
    BY <1>2, <1>3, <1>4, <1>5, <2>1 DEF Timed, SameDeadlines, Larger
  <2>3. Timed'
    BY <1>2, <1>4, <1>7, <2>1, <2>2 DEF Timed, Ran, SameDeadlines
  <2>4. QED
    BY <1>4, <2>1, <2>3
       DEF Confirmed, OverrideExpires, SlowFanConfirmed, CurrentFaultConfirmed
<1>9. CASE ~hostAlarm /\ cfg.enabled
  <2>1. Punctual(g, group, cfg, cal, at, in)
    BY <1>1, <1>2, <1>9, ControlUpdateDeadlines DEF Update
  <2>2. monitored /\ uptime' = at
    BY <1>4, <1>9
  <2> HIDE DEF g, at, monitored
  (* The override. *)
  <2>3. ASSUME g.overrideMode # "Automatic"
        PROVE  /\ expiry' = expiry /\ expiry > 0 /\ g.overrideUntil = expiry
               /\ group.overrideMode # "Automatic" /\ at < expiry
    <3>1. /\ ~Expires(group, at)
          /\ group.overrideMode = g.overrideMode /\ group.overrideUntil = g.overrideUntil
      BY <2>1, <2>3 DEF Punctual
    <3>2. expiry > 0 /\ group.overrideUntil = expiry
      BY <2>3, <3>1 DEF Timed
    <3>3. ~TimeReached(at, expiry)
      BY <1>5, <3>1, <3>2 DEF Expires
    <3>4. at < expiry
      BY <1>2, <1>5, <3>2, <3>3, EarlyClock
    <3>5. QED
      BY <1>4, <2>3, <3>1, <3>2, <3>4
  <2>4. g.overrideMode = "Automatic" => g.overrideUntil = 0
    BY <2>1 DEF Punctual, Timed
  (* The boost. *)
  <2>5. g.startupUntil \in Nat /\ g.startupUntil <= boostEnd'
    <3>1. CASE g.startupUntil = group.startupUntil
      BY <1>2, <1>3, <1>4, <1>5, <3>1 DEF Timed, Larger
    <3>2. CASE /\ g.startupUntil = at + StartupTime(cfg, cal)
               /\ g.overrideMode = "Automatic" /\ (Expires(group, at) \/ group.duty = 0)
      <4>1. group.duty = 0 \/ group.overrideMode # "Automatic"
        BY <3>2 DEF Expires, Timed
      <4>2. boostEnd' = Larger(boostEnd, at + StartupTime(cfg, cal))
        BY <1>4, <3>2, <4>1
      <4>3. QED
        BY <1>2, <1>3, <1>5, <3>2, <4>2 DEF Larger
    <3>3. QED
      BY <1>3, <2>1, <3>1, <3>2 DEF Punctual
  <2>6. boostEnd' \in Nat
    BY <1>2, <1>3, <1>4, <1>5 DEF Larger
  <2>7. g.mode = "Full" /\ g.overrideMode = "Automatic" => at < boostEnd'
    <3>1. g.mode = "Full" /\ g.overrideMode = "Automatic" => ~TimeReached(at, g.startupUntil)
      BY <2>1 DEF Punctual
    <3>2. ~TimeReached(at, g.startupUntil) => at < g.startupUntil
      BY <1>2, <2>5, EarlyClock
    <3>3. QED
      BY <1>2, <2>5, <2>6, <3>1, <3>2
  (* The timers. *)
  <2>8. ASSUME NEW f \in Fans
        PROVE  /\ Ran(group.fanBadSince[f], slowSince[f])'
               /\ FanSlow(f) \in g.active =>
                    slowSince'[f] # Never /\ at - slowSince'[f] >= cfg.faultDelay
    <3> DEFINE armed == Armed(group.fanBadSince[f], at)
    <3>1. fanFrom(f) \in Nat /\ fanFrom(f) <= armed /\ armed <= at
          /\ Elapsed(at, armed) = at - armed
      <4>1. /\ group.fanBadSince[f] \in Times /\ slowSince[f] \in Nat \cup {Never}
            /\ slowSince[f] <= uptime /\ Ran(group.fanBadSince[f], slowSince[f])
        BY <1>1 DEF TypeOK, FanGroups, Timed
      <4>2. QED
        BY <1>1, <1>2, <4>1, TimerRuns
    <3>2. armed \in Nat
      BY <1>1, <1>2, TimeAssumption DEF Armed, FanGroups, Times
    <3>3. /\ g.fanBadSince[f] # 0 => f \in in.slow /\ g.fanBadSince[f] = armed
          /\ FanSlow(f) \in g.active => f \in in.slow /\ Elapsed(at, armed) >= cfg.faultDelay
      BY <2>1 DEF Punctual, FanTimed
    <3>4. f \in in.slow => slowSince'[f] = fanFrom(f) /\ slowSince'[f] # Never
      BY <1>4, <2>2, <3>1 DEF Never
    <3>5. cfg.faultDelay \in Nat
      BY <1>1 DEF GroupConfigs
    <3> HIDE DEF armed, fanFrom
    <3>6. Ran(group.fanBadSince[f], slowSince[f])'
      BY <1>2, <1>4, <3>1, <3>3, <3>4 DEF Ran
    <3>7. QED
      BY <1>2, <3>1, <3>2, <3>3, <3>4, <3>5, <3>6
  <2>9. /\ Ran(group.currentLowSince, oddSince["low"])'
        /\ "CurrentLow" \in g.active =>
             oddSince'["low"] # Never /\ at - oddSince'["low"] >= cfg.faultDelay
    <3> DEFINE armed == Armed(group.currentLowSince, at)
               from == oddFrom("low")
    <3>1. from \in Nat /\ from <= armed /\ armed <= at
          /\ Elapsed(at, armed) = at - armed
      <4>1. /\ group.currentLowSince \in Times /\ oddSince["low"] \in Nat \cup {Never}
            /\ oddSince["low"] <= uptime /\ Ran(group.currentLowSince, oddSince["low"])
        BY <1>1, <1>5 DEF TypeOK, FanGroups, Timed
      <4>2. QED
        BY <1>1, <1>2, <4>1, TimerRuns
    <3>2. armed \in Nat /\ group.currentLowSince \in Nat /\ cfg.faultDelay \in Nat
      BY <1>1, <1>2, TimeAssumption DEF Armed, FanGroups, Times, GroupConfigs
    <3>3. /\ g.currentLowSince # 0 =>
               \/ in.current = "low" /\ g.currentLowSince = armed
               \/ in.current = "unknown" /\ g.currentLowSince = group.currentLowSince
          /\ "CurrentLow" \in g.active =>
               in.current = "low" /\ Elapsed(at, armed) >= cfg.faultDelay
      BY <2>1 DEF Punctual, CurrentTimed
    <3>4. in.current = "low" => oddSince'["low"] = from /\ from # Never
      BY <1>4, <1>5, <2>2, <3>1 DEF Never
    <3>5. in.current = "unknown" => oddSince'["low"] = oddSince["low"]
      BY <1>4, <1>5, <2>2
    <3>6. Ran(group.currentLowSince, oddSince["low"])
      BY DEF Timed
    <3> HIDE DEF armed, from
    <3>7. Ran(group.currentLowSince, oddSince["low"])'
      <4>1. g.currentLowSince = 0 => Ran(group.currentLowSince, oddSince["low"])'
        BY <1>4 DEF Ran
      <4>2. in.current = "low" /\ g.currentLowSince = armed
              => Ran(group.currentLowSince, oddSince["low"])'
        BY <1>2, <1>4, <3>1, <3>4 DEF Ran
      <4>3. in.current = "unknown" /\ g.currentLowSince = group.currentLowSince
              => Ran(group.currentLowSince, oddSince["low"])'
        BY <1>1, <1>2, <1>4, <3>2, <3>5, <3>6 DEF Ran
      <4>4. QED
        BY <3>3, <4>1, <4>2, <4>3
    <3>8. QED
      BY <1>2, <3>1, <3>2, <3>3, <3>4, <3>7
  <2>10. /\ Ran(group.currentHighSince, oddSince["high"])'
         /\ "CurrentHigh" \in g.active =>
              oddSince'["high"] # Never /\ at - oddSince'["high"] >= cfg.faultDelay
    <3> DEFINE armed == Armed(group.currentHighSince, at)
               from == oddFrom("high")
    <3>1. from \in Nat /\ from <= armed /\ armed <= at
          /\ Elapsed(at, armed) = at - armed
      <4>1. /\ group.currentHighSince \in Times /\ oddSince["high"] \in Nat \cup {Never}
            /\ oddSince["high"] <= uptime /\ Ran(group.currentHighSince, oddSince["high"])
        BY <1>1, <1>5 DEF TypeOK, FanGroups, Timed
      <4>2. QED
        BY <1>1, <1>2, <4>1, TimerRuns
    <3>2. armed \in Nat /\ group.currentHighSince \in Nat /\ cfg.faultDelay \in Nat
      BY <1>1, <1>2, TimeAssumption DEF Armed, FanGroups, Times, GroupConfigs
    <3>3. /\ g.currentHighSince # 0 =>
               \/ in.current = "high" /\ g.currentHighSince = armed
               \/ in.current = "unknown" /\ g.currentHighSince = group.currentHighSince
          /\ "CurrentHigh" \in g.active =>
               in.current = "high" /\ Elapsed(at, armed) >= cfg.faultDelay
      BY <2>1 DEF Punctual, CurrentTimed
    <3>4. in.current = "high" => oddSince'["high"] = from /\ from # Never
      BY <1>4, <1>5, <2>2, <3>1 DEF Never
    <3>5. in.current = "unknown" => oddSince'["high"] = oddSince["high"]
      BY <1>4, <1>5, <2>2
    <3>6. Ran(group.currentHighSince, oddSince["high"])
      BY DEF Timed
    <3> HIDE DEF armed, from
    <3>7. Ran(group.currentHighSince, oddSince["high"])'
      <4>1. g.currentHighSince = 0 => Ran(group.currentHighSince, oddSince["high"])'
        BY <1>4 DEF Ran
      <4>2. in.current = "high" /\ g.currentHighSince = armed
              => Ran(group.currentHighSince, oddSince["high"])'
        BY <1>2, <1>4, <3>1, <3>4 DEF Ran
      <4>3. in.current = "unknown" /\ g.currentHighSince = group.currentHighSince
              => Ran(group.currentHighSince, oddSince["high"])'
        BY <1>1, <1>2, <1>4, <3>2, <3>5, <3>6 DEF Ran
      <4>4. QED
        BY <3>3, <4>1, <4>2, <4>3
    <3>8. QED
      BY <1>2, <3>1, <3>2, <3>3, <3>4, <3>7
  (* All of it. *)
  <2>11. Timed'
    BY <1>2, <1>4, <1>7, <2>1, <2>2, <2>3, <2>4, <2>5, <2>8, <2>9, <2>10
       DEF Timed, Punctual
  <2>12. OverrideExpires'
    BY <1>4, <2>2, <2>3 DEF OverrideExpires
  <2>13. SlowFanConfirmed'
    <3>1. ASSUME NEW f \in Fans, FanSlow(f) \in g.active
          PROVE  g.duty = FullDuty \/ (g.mode = "Full" /\ at < boostEnd')
      BY <2>1, <2>7, <3>1 DEF Punctual
    <3>2. QED
      BY <1>4, <2>2, <2>8, <3>1 DEF SlowFanConfirmed
  <2>14. CurrentFaultConfirmed'
    BY <1>4, <2>2, <2>9, <2>10 DEF CurrentFaultConfirmed, Currents
  <2>15. QED
    BY <2>11, <2>12, <2>13, <2>14 DEF Confirmed
<1>10. QED
  BY <1>1, <1>8, <1>9

(* A step between two control updates keeps the deadlines; the properties speak of
   the state after a control update. *)
LEMMA StepTimed ==
  ASSUME BriefBoot, TypeOK, Confirmed, [Next]_vars
  PROVE  Confirmed'
<1>1. /\ env \in Environments /\ cfg \in env.configs /\ cfg \in GroupConfigs
      /\ cal \in env.calibrations /\ cal \in GroupCalibrations
      /\ group \in FanGroups /\ now \in Times /\ uptime \in Nat
      /\ uptime >= 1 /\ 2 * uptime < TimeModulus
  BY EnvironmentType, NowType DEF TypeOK, Confirmed, Timed, now
<1>2. /\ now = uptime
      /\ \A d \in Nat : 2 * d < TimeModulus => TimeAdd(now, d) = uptime + d
  BY <1>1, EarlyClock DEF now
<1>3. /\ StartupTime(cfg, cal) \in Nat
      /\ TimeAdd(now, StartupTime(cfg, cal)) = uptime + StartupTime(cfg, cal)
  BY <1>1, <1>2, BriefStartup DEF BriefBoot
<1>4. Timed /\ OnRamp(group)
      /\ IF group.overrideMode = "Automatic" THEN group.overrideUntil = 0
         ELSE expiry > 0 /\ group.overrideUntil = expiry
  BY DEF Confirmed, Timed
<1>5. ASSUME Timed', ~fresh' PROVE Confirmed'
  BY <1>5 DEF Confirmed, OverrideExpires, SlowFanConfirmed,
              CurrentFaultConfirmed
<1>6. CASE \E r \in env.readings : NewTemperature(r)
  <2>1. PICK r \in env.readings : NewTemperature(r)
    BY <1>6
  <2> DEFINE g == SetTemperature(group, r.value, r.valid)
  <2>2. g \in FanGroups
    BY <1>1, EnvironmentType, SetTemperatureType
  <2>3. SameDeadlines(g, group) /\ KeepsTimers(g, group) /\ OnRamp(g)
    BY <1>1, <1>4, SetTemperatureDeadlines
  <2>4. Record(g, expiry) /\ ~fresh' /\ UNCHANGED <<uptime, slowSince, oddSince>>
    BY <2>1 DEF NewTemperature
  <2> HIDE DEF g
  <2>5. Timed'
    BY <1>4, <2>2, <2>3, <2>4, RecordTimed DEF SameDeadlines
  <2>6. QED
    BY <1>5, <2>4, <2>5
<1>7. CASE \E o \in env.overrides : SetMode(o)
  <2>1. PICK o \in env.overrides : SetMode(o)
    BY <1>7
  <2> DEFINE timeout == IF o.timeout = 0 THEN DefaultOverrideTime ELSE o.timeout
             g == SetOverride(group, cfg, cal, o.mode, o.duty, o.timeout, now)
  <2>2. o.mode \in RequestedModes /\ o.duty \in Nat /\ o.timeout \in Nat
    BY <1>1, EnvironmentType DEF ModeRequests
  <2>3. timeout \in Nat /\ 2 * timeout < TimeModulus
    BY <1>1, <2>2, GroupAssumption DEF BriefBoot
  <2>4. TimeAdd(now, timeout) = uptime + timeout /\ uptime + timeout > 0
    BY <1>1, <1>2, <2>3
  <2>5. g \in FanGroups
    BY <1>1, <2>2, SetOverrideType
  <2>6. /\ KeepsTimers(g, group) /\ OnRamp(g)
        /\ g.overrideMode = o.mode
        /\ IF o.mode = "Automatic"
             THEN /\ g.overrideUntil = 0
                  /\ g.startupUntil = TimeAdd(now, StartupTime(cfg, cal))
             ELSE /\ g.overrideUntil = TimeAdd(now, timeout)
                  /\ g.startupUntil = group.startupUntil
    <3>1. group \in FanGroups /\ o.mode \in RequestedModes
      BY <1>1, <2>2
    <3>2. /\ KeepsTimers(g, group) /\ (OnRamp(group) => OnRamp(g))
          /\ g.overrideMode = o.mode
          /\ o.mode = "Automatic" =>
               /\ g.overrideUntil = 0
               /\ g.startupUntil = TimeAdd(now, StartupTime(cfg, cal))
          /\ o.mode # "Automatic" =>
               /\ g.startupUntil = group.startupUntil
               /\ o.timeout = 0 => g.overrideUntil = TimeAdd(now, DefaultOverrideTime)
               /\ o.timeout # 0 => g.overrideUntil = TimeAdd(now, o.timeout)
      BY <1>1, <2>2, <3>1, SetOverrideDeadlines
    <3>3. QED
      BY <1>4, <3>2
  <2>7. /\ Record(g, uptime + timeout) /\ ~fresh' /\ cfg' = cfg /\ cal' = cal
        /\ UNCHANGED <<uptime, slowSince, oddSince>>
    BY <2>1 DEF SetMode
  <2> HIDE DEF g, timeout
  <2>8. /\ IF g.overrideMode = "Automatic" THEN g.overrideUntil = 0
           ELSE uptime + timeout > 0 /\ g.overrideUntil = uptime + timeout
        /\ \/ g.startupUntil = group.startupUntil
           \/ g.startupUntil <= uptime + StartupTime(cfg', cal')
    BY <1>1, <1>3, <2>4, <2>6, <2>7
  <2>9. Timed'
    BY <1>4, <2>5, <2>6, <2>7, <2>8, RecordTimed
  <2>10. QED
    BY <1>5, <2>7, <2>9
<1>8. CASE \E c \in env.configs : NewConfiguration(c)
  <2>1. PICK c \in env.configs : NewConfiguration(c)
    BY <1>8
  <2> DEFINE g == ApplyConfiguration(group, cfg', cal', now)
  <2>2. /\ cfg' \in env.configs /\ cal' \in env.calibrations
        /\ cfg' \in GroupConfigs /\ cal' \in GroupCalibrations
    BY <1>1, <2>1, EnvironmentType DEF TypeOK, NewConfiguration
  <2>3. /\ StartupTime(cfg', cal') \in Nat
        /\ TimeAdd(now, StartupTime(cfg', cal')) = uptime + StartupTime(cfg', cal')
        /\ TimeAdd(now, 0) = uptime
    <3>1. StartupTime(cfg', cal') \in Nat /\ 2 * StartupTime(cfg', cal') < TimeModulus
      BY <1>1, <2>2, BriefStartup DEF BriefBoot
    <3>2. 0 \in Nat /\ 2 * 0 < TimeModulus /\ uptime + 0 = uptime
      BY <1>1, TimeAssumption
    <3>3. QED
      BY <1>2, <3>1, <3>2
  <2>4. g \in FanGroups
    BY <1>1, <2>2, ApplyConfigurationType
  <2>5. /\ KeepsTimers(g, group) /\ OnRamp(g)
        /\ \/ SameDeadlines(g, group)
           \/ /\ g.overrideMode = "Automatic" /\ g.overrideUntil = 0
              /\ g.startupUntil =
                   TimeAdd(now, IF cfg'.enabled THEN StartupTime(cfg', cal') ELSE 0)
    BY <1>1, <1>4, <2>2, ApplyConfigurationDeadlines
  <2>6. Record(g, expiry) /\ ~fresh' /\ UNCHANGED <<uptime, slowSince, oddSince>>
    BY <2>1 DEF NewConfiguration
  <2> HIDE DEF g
  <2>7. /\ IF g.overrideMode = "Automatic" THEN g.overrideUntil = 0
           ELSE expiry > 0 /\ g.overrideUntil = expiry
        /\ \/ g.startupUntil = group.startupUntil
           \/ g.startupUntil <= uptime + StartupTime(cfg', cal')
    BY <1>1, <1>4, <2>3, <2>5 DEF SameDeadlines
  <2>8. Timed'
    BY <1>4, <2>4, <2>5, <2>6, <2>7, RecordTimed
  <2>9. QED
    BY <1>5, <2>6, <2>8
<1>9. CASE \E d \in env.duties : Calibrate(d)
  <2>1. PICK d \in env.duties : Calibrate(d)
    BY <1>9
  <2> DEFINE handed == SetCalibrationOverride(group, TRUE, d)
             g == SynchronizeAppliedDuty(handed, d, now)
  <2>2. d \in Duties
    BY <1>1, EnvironmentType
  <2>3. /\ handed \in FanGroups
        /\ SameDeadlines(handed, group) /\ KeepsTimers(handed, group) /\ OnRamp(handed)
    BY <1>1, <1>4, <2>2, SetCalibrationOverrideType, SetCalibrationOverrideDeadlines
  <2> HIDE DEF handed
  <2>4. /\ g \in FanGroups
        /\ SameDeadlines(g, handed) /\ KeepsTimers(g, handed) /\ OnRamp(g)
    BY <1>1, <2>2, <2>3, SynchronizeAppliedDutyType, SynchronizeAppliedDutyDeadlines
  <2>5. Record(g, expiry) /\ ~fresh' /\ UNCHANGED <<uptime, slowSince, oddSince>>
    BY <2>1 DEF Calibrate, handed
  <2> HIDE DEF g
  <2>6. SameDeadlines(g, group) /\ KeepsTimers(g, group)
    BY <2>3, <2>4 DEF SameDeadlines, KeepsTimers
  <2>7. Timed'
    BY <1>4, <2>4, <2>5, <2>6, RecordTimed DEF SameDeadlines
  <2>8. QED
    BY <1>5, <2>5, <2>7
<1>10. CASE EndCalibration
  <2> DEFINE back == SetCalibrationOverride(group, FALSE, FullDuty)
             auto == SetOverride(back, cfg, cal, "Automatic", 0, 0, now)
             g == SynchronizeAppliedDuty(auto, FullDuty, now)
  <2>1. FullDuty \in Duties /\ "Automatic" \in RequestedModes
    BY RampAssumption DEF Duties, RequestedModes
  <2>2. back \in FanGroups /\ KeepsTimers(back, group) /\ OnRamp(back)
    BY <1>1, <1>4, <2>1, SetCalibrationOverrideType, SetCalibrationOverrideDeadlines
  <2> HIDE DEF back
  <2>3. /\ auto \in FanGroups /\ KeepsTimers(auto, back) /\ OnRamp(auto)
        /\ auto.overrideMode = "Automatic" /\ auto.overrideUntil = 0
        /\ auto.startupUntil = TimeAdd(now, StartupTime(cfg, cal))
    <3>1. 0 \in Nat
      OBVIOUS
    <3>2. QED
      BY <1>1, <2>1, <2>2, <3>1, SetOverrideType, SetOverrideDeadlines
  <2> HIDE DEF auto
  <2>4. g \in FanGroups /\ SameDeadlines(g, auto) /\ KeepsTimers(g, auto) /\ OnRamp(g)
    BY <1>1, <2>1, <2>3, SynchronizeAppliedDutyType, SynchronizeAppliedDutyDeadlines
  <2>5. /\ Record(g, Never) /\ ~fresh' /\ cfg' = cfg /\ cal' = cal
        /\ UNCHANGED <<uptime, slowSince, oddSince>>
    BY <1>10 DEF EndCalibration, back, auto
  <2> HIDE DEF g
  <2>6. KeepsTimers(g, group)
    BY <2>2, <2>3, <2>4 DEF KeepsTimers
  <2>7. /\ g.overrideMode = "Automatic" /\ g.overrideUntil = 0
        /\ g.startupUntil <= uptime + StartupTime(cfg', cal')
    BY <1>1, <1>3, <2>3, <2>4, <2>5 DEF SameDeadlines
  <2>8. Timed'
    BY <1>4, <2>4, <2>5, <2>6, <2>7, RecordTimed
  <2>9. QED
    BY <1>5, <2>5, <2>8
<1>11. CASE \E gap \in Gaps, hostAlarm \in env.alarms, in \in env.inputs :
              Pass(gap, hostAlarm, in)
  BY <1>4, <1>11, PassTimed
<1>12. CASE UNCHANGED vars
  BY <1>12 DEF Confirmed, Timed, Ran, OverrideExpires, SlowFanConfirmed,
               CurrentFaultConfirmed, vars
<1>13. QED
  BY <1>6, <1>7, <1>8, <1>9, <1>10, <1>11, <1>12 DEF Next

LEMMA AlwaysConfirmed ==
  ASSUME BriefBoot
  PROVE  Spec => []Confirmed
<1>1. Init => Confirmed
  BY InitTimed
<1>2. TypeOK /\ Confirmed /\ [Next]_vars => Confirmed'
  BY StepTimed
<1>3. QED
  BY <1>1, <1>2, TypeCorrect, PTL DEF Spec

(* An override is not obeyed past its timeout, whatever configurations, alarms and
   calibrations come in between: while one is in force its deadline in the object
   is the one that was set, and the update that finds it reached ends it. *)
THEOREM OverridesExpire ==
  ASSUME BriefBoot
  PROVE  Spec => []OverrideExpires
<1>1. Confirmed => OverrideExpires
  BY DEF Confirmed
<1>2. QED
  BY <1>1, AlwaysConfirmed, PTL

(* A slow fan is reported only after it was slow in every control update of the
   configured delay, and automatic control then runs at full speed. *)
THEOREM SlowFansConfirmed ==
  ASSUME BriefBoot
  PROVE  Spec => []SlowFanConfirmed
<1>1. Confirmed => SlowFanConfirmed
  BY DEF Confirmed
<1>2. QED
  BY <1>1, AlwaysConfirmed, PTL

(* A current fault is reported only after the current was off, in the same
   direction, in every update of the configured delay that could compare it. *)
THEOREM CurrentFaultsConfirmed ==
  ASSUME BriefBoot
  PROVE  Spec => []CurrentFaultConfirmed
<1>1. Confirmed => CurrentFaultConfirmed
  BY DEF Confirmed
<1>2. QED
  BY <1>1, AlwaysConfirmed, PTL

(* A group at rest is never taken into automatic running directly: the update that
   finds it at rest restarts its boost, and a boost that starts now is not over
   now.  Here the clock may wrap; only the boost must be brief. *)
LEMMA NewBoostIsAhead ==
  ASSUME NEW t \in Times, NEW d \in Nat, d > 0, 2 * d < TimeModulus
  PROVE  ~TimeReached(t, TimeAdd(t, d))
<1>1. TimeModulus \in Nat /\ TimeModulus >= 4 /\ t \in Nat /\ t < TimeModulus
  BY TimeAssumption DEF Times
<1>2. (t + d) % TimeModulus = IF t + d < TimeModulus THEN t + d ELSE t + d - TimeModulus
  <2>1. CASE t + d < TimeModulus
    BY <1>1, <2>1
  <2>2. CASE t + d >= TimeModulus
    <3>1. t + d - TimeModulus \in 0 .. TimeModulus - 1
      BY <1>1, <2>2
    <3>2. t + d = TimeModulus * 1 + (t + d - TimeModulus)
      BY <1>1
    <3>3. QED
      BY <1>1, <3>1, <3>2, <2>2
  <2>3. QED
    BY <1>1, <2>1, <2>2
<1>3. (t - ((t + d) % TimeModulus)) % TimeModulus = TimeModulus - d
  BY <1>1, <1>2
<1>4. QED
  BY <1>1, <1>3 DEF TimeReached, TimeAdd, Elapsed

LEMMA StepOnRamp ==
  ASSUME TypeOK, OnRamp(group), [Next]_vars
  PROVE  OnRamp(group)'
<1>1. /\ env \in Environments /\ cfg \in GroupConfigs /\ cal \in GroupCalibrations
      /\ group \in FanGroups /\ now \in Times /\ uptime \in Nat
      /\ FullDuty \in Duties /\ "Automatic" \in RequestedModes
  BY EnvironmentType, NowType, RampAssumption DEF TypeOK, now, Duties, RequestedModes
<1>2. CASE \E r \in env.readings : NewTemperature(r)
  BY <1>1, <1>2, SetTemperatureDeadlines DEF NewTemperature, Record
<1>3. CASE \E o \in env.overrides : SetMode(o)
  <2>1. PICK o \in env.overrides : SetMode(o)
    BY <1>3
  <2>2. o.mode \in RequestedModes /\ o.duty \in Nat /\ o.timeout \in Nat
    BY <1>1, EnvironmentType DEF ModeRequests
  <2>3. QED
    BY <1>1, <2>1, <2>2, SetOverrideDeadlines DEF SetMode, Record
<1>4. CASE \E c \in env.configs : NewConfiguration(c)
  <2>1. PICK c \in env.configs : NewConfiguration(c)
    BY <1>4
  <2>2. cfg' \in GroupConfigs /\ group' = ApplyConfiguration(group, cfg', cal', now)
    BY <1>1, <2>1, EnvironmentType DEF NewConfiguration, Record
  <2>3. QED
    BY <1>1, <2>2, ApplyConfigurationDeadlines
<1>5. CASE \E d \in env.duties : Calibrate(d)
  <2>1. PICK d \in env.duties : Calibrate(d)
    BY <1>5
  <2> DEFINE handed == SetCalibrationOverride(group, TRUE, d)
  <2>2. d \in Duties
    BY <1>1, EnvironmentType
  <2>3. handed \in FanGroups /\ OnRamp(handed)
    BY <1>1, <2>2, SetCalibrationOverrideType, SetCalibrationOverrideDeadlines
  <2>4. group' = SynchronizeAppliedDuty(handed, d, now)
    BY <2>1 DEF Calibrate, Record
  <2> HIDE DEF handed
  <2>5. QED
    BY <1>1, <2>2, <2>3, <2>4, SynchronizeAppliedDutyDeadlines
<1>6. CASE EndCalibration
  <2> DEFINE back == SetCalibrationOverride(group, FALSE, FullDuty)
             auto == SetOverride(back, cfg, cal, "Automatic", 0, 0, now)
  <2>1. back \in FanGroups /\ OnRamp(back)
    BY <1>1, SetCalibrationOverrideType, SetCalibrationOverrideDeadlines
  <2>2. group' = SynchronizeAppliedDuty(auto, FullDuty, now)
    BY <1>6 DEF EndCalibration, Record
  <2> HIDE DEF back
  <2>3. auto \in FanGroups /\ OnRamp(auto)
    BY <1>1, <2>1, SetOverrideType, SetOverrideDeadlines
  <2> HIDE DEF auto
  <2>4. QED
    BY <1>1, <2>2, <2>3, SynchronizeAppliedDutyDeadlines
<1>7. CASE \E gap \in Gaps, hostAlarm \in env.alarms, in \in env.inputs :
             Pass(gap, hostAlarm, in)
  <2>1. PICK gap \in Gaps, hostAlarm \in env.alarms, in \in env.inputs :
               Pass(gap, hostAlarm, in)
    BY <1>7
  <2> DEFINE t == (uptime + gap) % TimeModulus
  <2>2. group' = Update(group, cfg, cal, t, hostAlarm, in)
    BY <2>1 DEF Pass
  <2>3. t \in Times /\ in \in GroupInputs /\ hostAlarm \in BOOLEAN
    BY <1>1, EnvironmentType, NowType, FanGroupAssumption
  <2> HIDE DEF t
  <2>4. CASE hostAlarm \/ ~cfg.enabled
    BY <1>1, <2>2, <2>3, <2>4, SuspendedUpdate
  <2>5. CASE ~hostAlarm /\ cfg.enabled
    BY <1>1, <2>2, <2>3, <2>5, ControlUpdateDeadlines DEF Update, Punctual
  <2>6. QED
    BY <2>4, <2>5
<1>8. CASE UNCHANGED vars
  BY <1>8 DEF vars
<1>9. QED
  BY <1>2, <1>3, <1>4, <1>5, <1>6, <1>7, <1>8 DEF Next

(* However a group came to rest - a stop, Off, a zero manual duty or a disabled
   group - automatic control boosts it before it runs it. *)
THEOREM NeverStartsCold ==
  ASSUME BriefBoosts
  PROVE  Spec => NoColdStart
<1> DEFINE Cold == /\ fresh'
                   /\ group.duty = 0
                   /\ group'.mode = "Automatic"
                   /\ StartupTime(cfg, cal) > 0
<1>1. Init => OnRamp(group)
  <2> SUFFICES ASSUME Init PROVE OnRamp(group)
    OBVIOUS
  <2>1. cfg \in GroupConfigs /\ now \in Times
    BY EnvironmentType, NowType DEF Init, now
  <2>2. ConstructedGroup(now) \in FanGroups /\ OnRamp(ConstructedGroup(now))
    BY <2>1, ConstructedGroupType, RampResetType, RampAssumption
       DEF ConstructedGroup, OnRamp, Duties
  <2>3. QED
    BY <2>1, <2>2, ApplyConfigurationDeadlines DEF Init, Begin
<1>2. TypeOK /\ OnRamp(group) /\ [Next]_vars => OnRamp(group)'
  BY StepOnRamp
<1>3. Spec => [](TypeOK /\ OnRamp(group))
  BY <1>1, <1>2, TypeCorrect, PTL DEF Spec
<1>4. TypeOK /\ OnRamp(group) /\ [Next]_vars => [Cold => group'.duty = 0]_vars
  <2> SUFFICES ASSUME TypeOK, OnRamp(group), Next, Cold PROVE group'.duty = 0
    BY DEF vars
  <2>1. PICK gap \in Gaps, hostAlarm \in env.alarms, in \in env.inputs :
               Pass(gap, hostAlarm, in)
    BY DEF Next, NewTemperature, SetMode, NewConfiguration, Calibrate, EndCalibration
  <2> DEFINE t == (uptime + gap) % TimeModulus
  <2>2. /\ env \in Environments /\ cfg \in env.configs /\ cfg \in GroupConfigs
        /\ cal \in GroupCalibrations /\ group \in FanGroups
        /\ t \in Times /\ in \in GroupInputs /\ hostAlarm \in BOOLEAN
    BY EnvironmentType, NowType, FanGroupAssumption DEF TypeOK
  <2>3. group' = Update(group, cfg, cal, t, hostAlarm, in)
    BY <2>1 DEF Pass
  <2> HIDE DEF t
  <2>4. ~hostAlarm /\ cfg.enabled
    BY <2>2, <2>3, SuspendedUpdate
  <2>5. Punctual(group', group, cfg, cal, t, in)
    BY <2>2, <2>3, <2>4, ControlUpdateDeadlines DEF Update
  <2>6. StartupTime(cfg, cal) \in Nat /\ 2 * StartupTime(cfg, cal) < TimeModulus
    BY <2>2, BriefStartup
  <2>7. ~TimeReached(t, TimeAdd(t, StartupTime(cfg, cal)))
    BY <2>2, <2>6, NewBoostIsAhead
  <2>8. QED
    BY <2>5, <2>7 DEF Punctual
<1>5. QED
  BY <1>3, <1>4, PTL DEF Spec, NoColdStart

-----------------------------------------------------------------------------
(* The end of a boost, on a clock that turns over any number of times.  The deadline
   of the object is a reading of the clock; the invariant says which time it stands
   for: one after its last change, by less than half a turn, and not after the end of
   the last boost that was due. *)
StandsFor(reading, set, end) ==
  \E deadline \in Nat :
    /\ reading = deadline % TimeModulus
    /\ set <= deadline /\ deadline <= end
    /\ 2 * (deadline - set) < TimeModulus

BoostTimed ==
  /\ group.overrideMode = "Automatic" => group.overrideUntil = 0
  /\ boostSet <= uptime
  /\ StandsFor(group.startupUntil, boostSet, boostEnd)

LEMMA NewDeadline ==
  ASSUME NEW u \in Nat, NEW d \in Nat, 2 * d < TimeModulus, NEW end \in Nat, u + d <= end
  PROVE  StandsFor(TimeAdd(u % TimeModulus, d), u, end)
<1>1. u + d \in Nat /\ u <= u + d /\ (u + d) - u = d
  OBVIOUS
<1>2. TimeAdd(u % TimeModulus, d) = (u + d) % TimeModulus
  BY AddAcrossTurn
<1>3. QED
  BY <1>1, <1>2 DEF StandsFor

(* A later end of the boost that is due. *)
LEMMA LaterEnd ==
  ASSUME NEW reading, NEW set \in Nat, NEW end \in Nat, NEW later \in Nat, end <= later,
         StandsFor(reading, set, end)
  PROVE  StandsFor(reading, set, later)
BY DEF StandsFor

(* The boost goes on at its deadline or later only when half a turn has passed. *)
LEMMA DeadlineReached ==
  ASSUME NEW u \in Nat, NEW reading, NEW set \in Nat, NEW end \in Nat, set <= u, end <= u,
         StandsFor(reading, set, end), 2 * (u - set) < TimeModulus
  PROVE  TimeReached(u % TimeModulus, reading)
<1>1. PICK deadline \in Nat :
        /\ reading = deadline % TimeModulus
        /\ set <= deadline /\ deadline <= end
  BY DEF StandsFor
<1>2. TimeModulus \in Nat
  BY TimeAssumption
<1>3. deadline <= u /\ 2 * (u - deadline) < TimeModulus /\ u - deadline < TimeModulus
  BY <1>1, <1>2
<1>4. Elapsed(u % TimeModulus, reading) = u - deadline
  BY <1>1, <1>3, ElapsedAcrossTurn
<1>5. QED
  BY <1>3, <1>4 DEF TimeReached

LEMMA InitBoostTimed == BriefBoosts /\ Init => BoostTimed /\ BoostEnds
<1> SUFFICES ASSUME BriefBoosts, Init PROVE BoostTimed /\ BoostEnds
  OBVIOUS
<1> DEFINE made == ConstructedGroup(now)
           d == IF cfg.enabled THEN StartupTime(cfg, cal) ELSE 0
<1>1. /\ cfg \in GroupConfigs /\ cal \in GroupCalibrations /\ env \in Environments
      /\ cfg \in env.configs /\ uptime = 1 /\ now = 1 % TimeModulus /\ now \in Times
  BY EnvironmentType, NowType DEF Init, now
<1>2. StartupTime(cfg, cal) \in Nat /\ 2 * StartupTime(cfg, cal) < TimeModulus
  BY <1>1, BriefStartup
<1>3. boostEnd = 1 + StartupTime(cfg, cal) /\ ~fresh
      /\ boostSet = IF group.startupUntil = 0 THEN 0 ELSE 1
  BY <1>1 DEF Init
<1>4. made \in FanGroups
  BY <1>1, ConstructedGroupType
<1>5. made.overrideMode = "Automatic" /\ made.overrideUntil = 0 /\ made.startupUntil = 0
  BY DEF ConstructedGroup
<1> HIDE DEF made
<1>6. group = ApplyConfiguration(made, cfg, cal, now)
  BY DEF Init, Begin, made
<1>7. /\ group.overrideMode = "Automatic" /\ group.overrideUntil = 0
      /\ group.startupUntil = 0 \/ group.startupUntil = TimeAdd(now, d)
  BY <1>1, <1>4, <1>5, <1>6, ApplyConfigurationDeadlines DEF SameDeadlines
<1>8. d \in Nat /\ 2 * d < TimeModulus /\ 1 + d <= boostEnd /\ boostEnd \in Nat
  BY <1>2, <1>3, TimeAssumption
<1>9. CASE group.startupUntil = 0
  <2>1. boostSet = 0 /\ 0 % TimeModulus = 0 /\ TimeModulus \in Nat /\ 2 * (0 - 0) < TimeModulus
    BY <1>3, <1>9, TimeAssumption
  <2>2. QED
    BY <1>1, <1>3, <1>7, <1>8, <1>9, <2>1 DEF BoostTimed, BoostEnds, StandsFor
<1>10. CASE group.startupUntil # 0
  <2>1. StandsFor(TimeAdd(1 % TimeModulus, d), 1, boostEnd)
    BY <1>8, NewDeadline
  <2>2. QED
    BY <1>1, <1>3, <1>7, <1>10, <2>1 DEF BoostTimed, BoostEnds
<1>11. QED
  BY <1>9, <1>10

(* A step between two control updates keeps the deadline or sets one from now on. *)
LEMMA RecordBoostTimed ==
  ASSUME TypeOK, BoostTimed, NEW g \in FanGroups, NEW began, Record(g, began),
         UNCHANGED uptime, ~fresh',
         g.overrideMode = "Automatic" => g.overrideUntil = 0,
         NEW d \in Nat, 2 * d < TimeModulus, NEW s \in Nat, s = StartupTime(cfg', cal'), d <= s,
         g.startupUntil = group.startupUntil \/ g.startupUntil = TimeAdd(now, d)
  PROVE  BoostTimed' /\ BoostEnds'
<1>1. group' = g /\ uptime \in Nat /\ now = uptime % TimeModulus /\ uptime' = uptime
  BY DEF Record, TypeOK, now
<1>2. CASE g.startupUntil = group.startupUntil
  <2>1. boostEnd' = boostEnd /\ boostSet' = boostSet
    BY <1>2 DEF Record
  <2>2. QED
    BY <1>1, <1>2, <2>1 DEF BoostTimed, BoostEnds
<1>3. CASE g.startupUntil # group.startupUntil
  <2>1. boostEnd' = uptime + s /\ boostSet' = uptime
    BY <1>3 DEF Record
  <2>2. uptime + d <= uptime + s /\ uptime + s \in Nat
    BY <1>1
  <2>3. StandsFor(TimeAdd(uptime % TimeModulus, d), uptime, uptime + s)
    BY <1>1, <2>2, NewDeadline
  <2>4. QED
    BY <1>1, <1>3, <2>1, <2>3 DEF BoostTimed, BoostEnds
<1>4. QED
  BY <1>2, <1>3

LEMMA PassBoostTimed ==
  ASSUME BriefBoosts, TypeOK, BoostTimed, NEW gap \in Gaps, NEW hostAlarm \in env.alarms,
         NEW in \in env.inputs, Pass(gap, hostAlarm, in)
  PROVE  BoostTimed' /\ BoostEnds'
<1> DEFINE at == uptime + gap
           t == at % TimeModulus
           g == Update(group, cfg, cal, t, hostAlarm, in)
           s == StartupTime(cfg, cal)
<1>1. /\ cfg \in GroupConfigs /\ cal \in GroupCalibrations
      /\ in \in GroupInputs /\ hostAlarm \in BOOLEAN
      /\ env \in Environments /\ cfg \in env.configs
      /\ group \in FanGroups /\ uptime \in Nat /\ boostEnd \in Nat /\ boostSet \in Nat
  BY EnvironmentType DEF TypeOK
<1>2. at \in Nat /\ uptime <= at /\ t \in Times
  BY <1>1, NowType, FanGroupAssumption
<1>3. s \in Nat /\ 2 * s < TimeModulus
  BY <1>1, BriefStartup
<1>4. /\ group' = g /\ uptime' = at
      /\ boostEnd' = IF \/ group.duty = 0
                        \/ group.overrideMode # "Automatic" /\ g.overrideMode = "Automatic"
                       THEN Larger(boostEnd, at + s) ELSE boostEnd
      /\ boostSet' = IF g.startupUntil # group.startupUntil THEN at ELSE boostSet
  BY DEF Pass
<1> HIDE DEF at, s
<1>5. boostEnd' \in Nat /\ boostEnd <= boostEnd' /\ boostSet' \in Nat /\ boostSet' <= at
  BY <1>1, <1>2, <1>3, <1>4 DEF Larger, BoostTimed
<1>6. ASSUME g.startupUntil = group.startupUntil
      PROVE  StandsFor(g.startupUntil, boostSet', boostEnd')
  BY <1>1, <1>4, <1>5, <1>6, LaterEnd DEF BoostTimed
<1>7. CASE hostAlarm \/ ~cfg.enabled
  <2>1. g.mode \in {"Alarm", "Disabled"} /\ SameDeadlines(g, group)
    BY <1>1, <1>2, <1>7, SuspendedUpdate
  <2> HIDE DEF g
  <2>2. BoostTimed'
    BY <1>4, <1>5, <1>6, <2>1 DEF BoostTimed, SameDeadlines
  <2>3. QED
    BY <1>4, <2>1, <2>2 DEF BoostEnds
<1>8. CASE ~hostAlarm /\ cfg.enabled
  <2>1. Punctual(g, group, cfg, cal, t, in)
    BY <1>1, <1>2, <1>8, ControlUpdateDeadlines DEF Update
  <2> HIDE DEF g
  <2>2. g.overrideMode = "Automatic" => g.overrideUntil = 0
    BY <2>1 DEF Punctual, BoostTimed
  <2>3. StandsFor(g.startupUntil, boostSet', boostEnd')
    <3>1. CASE g.startupUntil # group.startupUntil
      <4>1. /\ g.startupUntil = TimeAdd(t, s) /\ g.overrideMode = "Automatic"
            /\ Expires(group, t) \/ group.duty = 0
        BY <2>1, <3>1 DEF Punctual, s
      <4>2. group.duty = 0 \/ group.overrideMode # "Automatic"
        BY <4>1 DEF Expires, BoostTimed
      <4>3. boostEnd' = Larger(boostEnd, at + s) /\ boostSet' = at
        BY <1>4, <3>1, <4>1, <4>2
      <4>4. at + s <= boostEnd'
        BY <1>1, <1>2, <1>3, <4>3 DEF Larger
      <4>5. StandsFor(TimeAdd(at % TimeModulus, s), at, boostEnd')
        BY <1>2, <1>3, <1>5, <4>4, NewDeadline
      <4>6. QED
        BY <4>1, <4>3, <4>5
    <3>2. QED
      BY <1>6, <3>1
  <2>4. BoostTimed'
    BY <1>4, <1>5, <2>2, <2>3 DEF BoostTimed
  <2>5. g.mode = "Full" /\ g.overrideMode = "Automatic" => ~TimeReached(t, g.startupUntil)
    BY <2>1 DEF Punctual
  <2>6. at < boostEnd' \/ 2 * (at - boostSet') >= TimeModulus \/ TimeReached(t, g.startupUntil)
    <3>1. TimeModulus \in Nat
      BY TimeAssumption
    <3>2. QED
      BY <1>2, <1>5, <2>3, <3>1, DeadlineReached
  <2>7. QED
    BY <1>4, <2>4, <2>5, <2>6 DEF BoostEnds
<1>9. QED
  BY <1>1, <1>7, <1>8

LEMMA StepBoostTimed ==
  ASSUME BriefBoosts, TypeOK, BoostTimed /\ BoostEnds, [Next]_vars
  PROVE  (BoostTimed /\ BoostEnds)'
<1>1. /\ env \in Environments /\ cfg \in env.configs /\ cfg \in GroupConfigs
      /\ cal \in env.calibrations /\ cal \in GroupCalibrations
      /\ group \in FanGroups /\ now \in Times /\ uptime \in Nat
      /\ FullDuty \in Duties /\ "Automatic" \in RequestedModes
  BY EnvironmentType, NowType, RampAssumption DEF TypeOK, now, Duties, RequestedModes
<1>2. /\ StartupTime(cfg, cal) \in Nat /\ 2 * StartupTime(cfg, cal) < TimeModulus
      /\ 0 \in Nat /\ 2 * 0 < TimeModulus
  BY <1>1, BriefStartup, TimeAssumption
<1>3. group.overrideMode = "Automatic" => group.overrideUntil = 0
  BY DEF BoostTimed
(* A step that leaves the deadlines alone. *)
<1>4. ASSUME NEW g \in FanGroups, SameDeadlines(g, group), Record(g, expiry),
             UNCHANGED <<uptime, cfg, cal>>, ~fresh'
      PROVE  (BoostTimed /\ BoostEnds)'
  <2>1. /\ g.startupUntil = group.startupUntil
        /\ g.overrideMode = "Automatic" => g.overrideUntil = 0
    BY <1>3, <1>4 DEF SameDeadlines
  <2>2. StartupTime(cfg, cal) = StartupTime(cfg', cal')
    BY <1>4
  <2>3. QED
    BY <1>2, <1>4, <2>1, <2>2, RecordBoostTimed
<1>5. CASE \E r \in env.readings : NewTemperature(r)
  <2>1. PICK r \in env.readings : NewTemperature(r)
    BY <1>5
  <2> DEFINE g == SetTemperature(group, r.value, r.valid)
  <2>2. g \in FanGroups /\ SameDeadlines(g, group)
    BY <1>1, EnvironmentType, SetTemperatureType, SetTemperatureDeadlines
  <2>3. Record(g, expiry) /\ ~fresh' /\ UNCHANGED <<uptime, cfg, cal>>
    BY <2>1 DEF NewTemperature
  <2> HIDE DEF g
  <2>4. QED
    BY <1>4, <2>2, <2>3
<1>6. CASE \E o \in env.overrides : SetMode(o)
  <2>1. PICK o \in env.overrides : SetMode(o)
    BY <1>6
  <2> DEFINE timeout == IF o.timeout = 0 THEN DefaultOverrideTime ELSE o.timeout
             g == SetOverride(group, cfg, cal, o.mode, o.duty, o.timeout, now)
  <2>2. o.mode \in RequestedModes /\ o.duty \in Nat /\ o.timeout \in Nat
    BY <1>1, EnvironmentType DEF ModeRequests
  <2>3. g \in FanGroups
    BY <1>1, <2>2, SetOverrideType
  <2>4. /\ g.overrideMode = "Automatic" => g.overrideUntil = 0
        /\ \/ g.startupUntil = group.startupUntil
           \/ g.startupUntil = TimeAdd(now, StartupTime(cfg, cal))
    BY <1>1, <2>2, SetOverrideDeadlines
  <2>5. Record(g, uptime + timeout) /\ ~fresh' /\ UNCHANGED <<uptime, cfg, cal>>
    BY <2>1 DEF SetMode
  <2> HIDE DEF g, timeout
  <2>6. StartupTime(cfg, cal) = StartupTime(cfg', cal')
    BY <2>5
  <2>7. QED
    BY <1>2, <2>3, <2>4, <2>5, <2>6, RecordBoostTimed
<1>7. CASE \E c \in env.configs : NewConfiguration(c)
  <2>1. PICK c \in env.configs : NewConfiguration(c)
    BY <1>7
  <2> DEFINE s == StartupTime(cfg', cal')
             d == IF cfg'.enabled THEN s ELSE 0
             g == ApplyConfiguration(group, cfg', cal', now)
  <2>2. /\ cfg' \in env.configs /\ cal' \in env.calibrations
        /\ cfg' \in GroupConfigs /\ cal' \in GroupCalibrations
    BY <1>1, <2>1, EnvironmentType DEF TypeOK, NewConfiguration
  <2>3. s \in Nat /\ 2 * s < TimeModulus
    BY <1>1, <2>2, BriefStartup
  <2>4. g \in FanGroups
    BY <1>1, <2>2, ApplyConfigurationType
  <2>5. \/ SameDeadlines(g, group)
        \/ /\ g.overrideMode = "Automatic" /\ g.overrideUntil = 0
           /\ g.startupUntil = TimeAdd(now, d)
    BY <1>1, <2>2, ApplyConfigurationDeadlines
  <2>6. Record(g, expiry) /\ ~fresh' /\ UNCHANGED uptime
    BY <2>1 DEF NewConfiguration
  <2>7. s = StartupTime(cfg', cal') /\ d \in Nat /\ 2 * d < TimeModulus /\ d <= s
    BY <1>2, <2>3
  <2> HIDE DEF g, d, s
  <2>8. /\ g.overrideMode = "Automatic" => g.overrideUntil = 0
        /\ g.startupUntil = group.startupUntil \/ g.startupUntil = TimeAdd(now, d)
    BY <1>3, <2>5 DEF SameDeadlines
  <2>9. QED
    BY <2>3, <2>4, <2>6, <2>7, <2>8, RecordBoostTimed
<1>8. CASE \E d \in env.duties : Calibrate(d)
  <2>1. PICK d \in env.duties : Calibrate(d)
    BY <1>8
  <2> DEFINE handed == SetCalibrationOverride(group, TRUE, d)
             g == SynchronizeAppliedDuty(handed, d, now)
  <2>2. d \in Duties
    BY <1>1, EnvironmentType
  <2>3. handed \in FanGroups /\ SameDeadlines(handed, group)
    BY <1>1, <2>2, SetCalibrationOverrideType, SetCalibrationOverrideDeadlines
  <2>4. Record(g, expiry) /\ ~fresh' /\ UNCHANGED <<uptime, cfg, cal>>
    BY <2>1 DEF Calibrate, handed
  <2> HIDE DEF handed
  <2>5. g \in FanGroups /\ SameDeadlines(g, handed)
    BY <1>1, <2>2, <2>3, SynchronizeAppliedDutyType, SynchronizeAppliedDutyDeadlines
  <2> HIDE DEF g
  <2>6. QED
    BY <1>4, <2>3, <2>4, <2>5 DEF SameDeadlines
<1>9. CASE EndCalibration
  <2> DEFINE back == SetCalibrationOverride(group, FALSE, FullDuty)
             auto == SetOverride(back, cfg, cal, "Automatic", 0, 0, now)
             g == SynchronizeAppliedDuty(auto, FullDuty, now)
  <2>1. back \in FanGroups
    BY <1>1, SetCalibrationOverrideType
  <2>2. Record(g, Never) /\ ~fresh' /\ UNCHANGED <<uptime, cfg, cal>>
    BY <1>9 DEF EndCalibration, back, auto
  <2> HIDE DEF back
  <2>3. /\ auto \in FanGroups
        /\ auto.overrideMode = "Automatic" /\ auto.overrideUntil = 0
        /\ auto.startupUntil = TimeAdd(now, StartupTime(cfg, cal))
    <3>1. 0 \in Nat
      OBVIOUS
    <3>2. QED
      BY <1>1, <2>1, <3>1, SetOverrideType, SetOverrideDeadlines
  <2> HIDE DEF auto
  <2>4. g \in FanGroups /\ SameDeadlines(g, auto)
    BY <1>1, <2>3, SynchronizeAppliedDutyType, SynchronizeAppliedDutyDeadlines
  <2> HIDE DEF g
  <2>5. StartupTime(cfg, cal) = StartupTime(cfg', cal')
    BY <2>2
  <2>6. g.overrideUntil = 0 /\ g.startupUntil = TimeAdd(now, StartupTime(cfg, cal))
    BY <2>3, <2>4 DEF SameDeadlines
  <2>7. QED
    BY <1>2, <2>2, <2>4, <2>5, <2>6, RecordBoostTimed
<1>10. CASE \E gap \in Gaps, hostAlarm \in env.alarms, in \in env.inputs :
              Pass(gap, hostAlarm, in)
  BY <1>10, PassBoostTimed
<1>11. CASE UNCHANGED vars
  BY <1>11 DEF BoostTimed, BoostEnds, vars
<1>12. QED
  BY <1>5, <1>6, <1>7, <1>8, <1>9, <1>10, <1>11 DEF Next

(* A boost ends when its time is over, in every turn of the clock, and only a group at
   rest, the end of an override or of a calibration, and new settings start one.  A
   boost that goes on without any of these is one whose deadline nothing has changed
   for half a turn: nothing shorter than that brings one back. *)
THEOREM BoostsEnd ==
  ASSUME BriefBoosts
  PROVE  Spec => []BoostEnds
<1>1. Init => BoostTimed /\ BoostEnds
  BY InitBoostTimed
<1>2. TypeOK /\ (BoostTimed /\ BoostEnds) /\ [Next]_vars => (BoostTimed /\ BoostEnds)'
  BY StepBoostTimed
<1>3. QED
  BY <1>1, <1>2, TypeCorrect, PTL DEF Spec

=============================================================================
