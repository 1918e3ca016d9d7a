----------------------- MODULE FanGroupControllerProofs -----------------------
(***************************************************************************)
(* Lemmas about the methods of FanGroupController, for every configuration,*)
(* calibration, clock and input: each leaves an object of the class, and   *)
(* one control update leaves it at full speed when it is unsafe and never  *)
(* below its floor in automatic control.                                   *)
(***************************************************************************)
EXTENDS FanGroupController, TLAPS

-----------------------------------------------------------------------------
(* The clock and the ramp. *)

(* Sums and differences of times are times. *)
LEMMA TimesClosed ==
  ASSUME NEW a \in Int, NEW b \in Int
  PROVE  TimeAdd(a, b) \in Times /\ Elapsed(a, b) \in Times
BY TimeAssumption DEF Times, TimeAdd, Elapsed

(* The unsigned difference of two readings of the clock is the time between them,
   if that is less than a turn. *)
LEMMA ElapsedAcrossTurn ==
  ASSUME NEW u \in Nat, NEW s \in Nat, s <= u, u - s < TimeModulus
  PROVE  Elapsed(u % TimeModulus, s % TimeModulus) = u - s
<1> DEFINE M == TimeModulus
           a == u \div M
           b == s \div M
           x == u % M
           y == s % M
<1>1. M \in Nat /\ M > 0
  BY TimeAssumption
<1>2. /\ a \in Int /\ b \in Int /\ x \in 0 .. M - 1 /\ y \in 0 .. M - 1
      /\ u = M * a + x /\ s = M * b + y
  BY <1>1
<1>3. \A n \in 0 .. M - 1 : n % M = n /\ (n - M) % M = n
  BY <1>1
<1> HIDE DEF M, a, b, x, y
<1>4. PICK k \in Int : k = a - b
  BY <1>2
<1>5. M * k = (u - s) - (x - y)
  <2>1. M * a - M * b = M * k
    BY <1>1, <1>2, <1>4
  <2>2. QED
    BY <1>1, <1>2, <2>1
<1>6. u - s \in 0 .. M - 1 /\ M * k < 2 * M /\ M * k > -M
  BY <1>1, <1>2, <1>5 DEF M
<1>7. k < 2 /\ k > -1
  BY <1>1, <1>6
<1>8. k = 0 \/ k = 1
  BY <1>7
<1>9. x - y = u - s \/ x - y = (u - s) - M
  <2>1. CASE k = 0
    BY <1>1, <1>2, <1>5, <2>1
  <2>2. CASE k = 1
    BY <1>1, <1>2, <1>5, <2>2
  <2>3. QED
    BY <1>8, <2>1, <2>2
<1>10. (x - y) % M = u - s
  BY <1>3, <1>6, <1>9
<1>11. QED
  BY <1>10 DEF Elapsed, M, x, y

(* Adding to a reading of the clock is adding to the time it stands for. *)
LEMMA AddAcrossTurn ==
  ASSUME NEW u \in Nat, NEW d \in Nat
  PROVE  TimeAdd(u % TimeModulus, d) = (u + d) % TimeModulus
<1> DEFINE M == TimeModulus
           x == u % M
           a == u \div M
           b == (x + d) \div M
           y == (x + d) % M
           e == (u + d) \div M
           z == (u + d) % M
<1>1. M \in Nat /\ M > 0
  BY TimeAssumption
<1>2. a \in Int /\ x \in 0 .. M - 1 /\ u = M * a + x
  BY <1>1
<1>3. b \in Int /\ y \in 0 .. M - 1 /\ x + d = M * b + y
  BY <1>1, <1>2
<1>4. e \in Int /\ z \in 0 .. M - 1 /\ u + d = M * e + z
  BY <1>1
<1> HIDE DEF a, b, e, x, y, z, M
<1>5. PICK k \in Int : k = e - a - b
  BY <1>2, <1>3, <1>4
<1>6. M * k = y - z
  <2>1. M * e - M * a - M * b = M * k
    BY <1>1, <1>2, <1>3, <1>4, <1>5
  <2>2. QED
    BY <1>1, <1>2, <1>3, <1>4, <2>1
<1>7. M * k < M /\ M * k > -M
  BY <1>1, <1>3, <1>4, <1>6
<1>8. k = 0
  BY <1>1, <1>7
<1>9. y = z
  BY <1>1, <1>3, <1>4, <1>6, <1>8
<1>10. QED
  BY <1>9 DEF TimeAdd, x, y, z, M

LEMMA RampResetType ==
  ASSUME NEW duty \in Nat, NEW at \in Times
  PROVE  /\ RampReset(duty, at) \in Ramps
         /\ duty \in Duties => RampReset(duty, at).duty = duty
BY RampAssumption DEF RampReset, Ramps, Duties, Capped

(* A step ends on the way from where the ramp was to its target. *)
LEMMA RampStepType ==
  ASSUME NEW r \in Ramps, NEW asked \in Duties, NEW at \in Times
  PROVE  /\ RampStep(r, asked, at) \in Ramps
         /\ r.duty <= asked => RampStep(r, asked, at).duty \in r.duty .. asked
         /\ r.duty >= asked => RampStep(r, asked, at).duty \in asked .. r.duty
<1> DEFINE target  == Capped(asked, FullDuty)
           elapsed == IF Discards(r, target) THEN 0 ELSE Elapsed(at, r.last)
           credit  == IF Discards(r, target) THEN 0 ELSE r.credit
           rising  == target > r.duty
           budget  == credit + Capped(elapsed, ElapsedCap)
                                 * (IF rising THEN UpRate ELSE DownRate)
           steps   == budget \div CreditUnit
           away    == IF rising THEN target - r.duty ELSE r.duty - target
<1>1. target = asked /\ r.duty \in Duties /\ r.last \in Times /\ r.credit \in Nat
  BY RampAssumption DEF Duties, Capped, Ramps
<1>2. budget \in Nat
  <2>1. Elapsed(at, r.last) \in Nat
    <3>1. at \in Int /\ r.last \in Int /\ Times \subseteq Nat
      BY <1>1, TimeAssumption DEF Times
    <3>2. QED
      BY <3>1, TimesClosed
  <2>2. Capped(elapsed, ElapsedCap) \in Nat /\ credit \in Nat
    BY <1>1, <2>1, RampAssumption DEF Capped
  <2>3. (IF rising THEN UpRate ELSE DownRate) \in Nat
    BY RampAssumption
  <2> HIDE DEF credit, elapsed, rising
  <2>4. QED
    BY <2>2, <2>3
<1> HIDE DEF budget
<1>3. steps \in Nat /\ KeptCredit(budget) \in 0 .. CreditUnit - 1
  BY <1>2, RampAssumption DEF KeptCredit
<1>4. RampStep(r, asked, at) =
        IF steps >= away
          THEN [duty |-> target, target |-> target, last |-> at, credit |-> 0]
          ELSE [duty   |-> IF rising THEN r.duty + steps ELSE r.duty - steps,
                target |-> target, last |-> at, credit |-> KeptCredit(budget)]
  BY DEF RampStep, budget
<1> HIDE DEF steps, target
<1>5. CASE steps >= away
  BY <1>1, <1>4, <1>5, RampAssumption DEF Ramps, Duties
<1>6. CASE ~(steps >= away)
  BY <1>1, <1>3, <1>4, <1>6, RampAssumption DEF Ramps, Duties
<1>7. QED
  BY <1>5, <1>6

-----------------------------------------------------------------------------
(* The methods. *)

(* Two numbers, and one for each of some fans. *)
FanNumbers(a, b, h, M) == {a, b} \cup {h[f] : f \in M}

(* A group has two fans at most, so the highest of these exists. *)
LEMMA HighestOfFans ==
  ASSUME NEW a \in Int, NEW b \in Int, NEW M \in SUBSET Fans,
         NEW h \in [Fans -> Int]
  PROVE  /\ Highest(FanNumbers(a, b, h, M)) \in FanNumbers(a, b, h, M)
         /\ \A e \in FanNumbers(a, b, h, M) : e <= Highest(FanNumbers(a, b, h, M))
<1> DEFINE S == FanNumbers(a, b, h, M)
<1> USE DEF FanNumbers
<1> DEFINE m0 == IF a > b THEN a ELSE b
           m1 == IF 1 \in M /\ h[1] > m0 THEN h[1] ELSE m0
           m2 == IF 2 \in M /\ h[2] > m1 THEN h[2] ELSE m1
<1>1. M \subseteq {1, 2}
  BY GroupAssumption
<1>2. m0 \in S /\ m0 \in Int /\ a <= m0 /\ b <= m0
  OBVIOUS
<1> HIDE DEF m0
<1>3. m1 \in S /\ m1 \in Int /\ m0 <= m1 /\ (1 \in M => h[1] <= m1)
  BY <1>2
<1> HIDE DEF m1
<1>4. m2 \in S /\ m2 \in Int /\ m1 <= m2 /\ (2 \in M => h[2] <= m2)
  BY <1>3
<1> HIDE DEF m2
<1>5. \A e \in S : e <= m2
  <2> SUFFICES ASSUME NEW e \in S PROVE e <= m2
    OBVIOUS
  <2>1. CASE e \in {a, b}
    BY <2>1, <1>2, <1>3, <1>4
  <2>2. CASE \E f \in M : e = h[f]
    <3>1. PICK f \in M : e = h[f]
      BY <2>2
    <3>2. CASE f = 1
      BY <3>1, <3>2, <1>3, <1>4
    <3>3. CASE f = 2
      BY <3>1, <3>3, <1>4
    <3>4. QED
      BY <1>1, <3>2, <3>3
  <2>3. QED
    BY <2>1, <2>2
<1>6. \E d \in S : \A e \in S : e <= d
  BY <1>4, <1>5
<1> HIDE DEF S, FanNumbers
<1>7. Highest(S) \in S /\ \A e \in S : e <= Highest(S)
  BY <1>6 DEF Highest
<1>8. QED
  BY <1>7 DEF S

LEMMA MinimumDutyType ==
  ASSUME NEW c \in GroupConfigs, NEW k \in GroupCalibrations
  PROVE  MinimumDuty(c, k) \in Duties \ {0}
<1>1. c.minimumDuty \in Duties \ {0} /\ k.minimumRunningDuty \in Duties
  BY DEF GroupConfigs, GroupCalibrations
<1>2. UnmeasuredFloor \in Duties
  BY GroupAssumption, RampAssumption DEF Duties
<1>3. QED
  BY <1>1, <1>2, RampAssumption DEF MinimumDuty, Larger, Duties

LEMMA StartupDutyType ==
  ASSUME NEW c \in GroupConfigs, NEW k \in GroupCalibrations
  PROVE  StartupDuty(c, k) \in Duties /\ StartupDuty(c, k) >= MinimumDuty(c, k)
<1> DEFINE M == IF k.measured THEN c.expectedFanMask ELSE {}
           h == [f \in Fans |-> BoostedStart(k, f)]
           S == FanNumbers(c.startupDuty, MinimumDuty(c, k), h, M)
<1>1. M \in SUBSET Fans
  BY DEF GroupConfigs
<1>2. h \in [Fans -> Duties]
  <2> SUFFICES ASSUME NEW f \in Fans PROVE BoostedStart(k, f) \in Duties
    OBVIOUS
  <2>1. k.startDuty[f] \in Duties
    BY DEF GroupCalibrations
  <2>2. QED
    BY <2>1, GroupAssumption, RampAssumption DEF BoostedStart, Capped, Duties
<1>3. c.startupDuty \in Duties /\ MinimumDuty(c, k) \in Duties
  BY MinimumDutyType DEF GroupConfigs
<1>4. StartupDuty(c, k) = Highest(S)
  BY <1>1 DEF StartupDuty, FanNumbers
<1>5. Duties \subseteq Int
  BY RampAssumption DEF Duties
<1>6. h \in [Fans -> Int] /\ c.startupDuty \in Int /\ MinimumDuty(c, k) \in Int
  BY <1>2, <1>3, <1>5
<1> HIDE DEF M, h
<1>7. Highest(S) \in S /\ \A e \in S : e <= Highest(S)
  BY <1>1, <1>6, HighestOfFans
<1>8. S \subseteq Duties /\ MinimumDuty(c, k) \in S
  BY <1>1, <1>2, <1>3 DEF FanNumbers
<1> HIDE DEF S
<1>9. QED
  BY <1>4, <1>5, <1>7, <1>8

LEMMA StartupTimeType ==
  ASSUME NEW c \in GroupConfigs, NEW k \in GroupCalibrations
  PROVE  StartupTime(c, k) \in Nat
BY GroupAssumption DEF StartupTime, Larger, GroupConfigs

-----------------------------------------------------------------------------
(* Each method leaves an object of the class. *)

LEMMA TimersType ==
  ASSUME NEW g \in FanGroups
  PROVE  /\ StopFanTimers(g) \in FanGroups
         /\ StopCurrentTimers(g) \in FanGroups
         /\ ClearFaultTimers(g) \in FanGroups
<1>1. 0 \in Times
  BY TimeAssumption DEF Times
<1>2. \A x \in FanGroups : StopFanTimers(x) \in FanGroups
  BY <1>1 DEF StopFanTimers, FanGroups
<1>3. \A x \in FanGroups : StopCurrentTimers(x) \in FanGroups
  BY <1>1 DEF StopCurrentTimers, FanGroups
<1>4. QED
  BY <1>2, <1>3 DEF ClearFaultTimers

LEMMA ConstructedGroupType ==
  ASSUME NEW t \in Times
  PROVE  ConstructedGroup(t) \in FanGroups
<1>1. 0 \in Times /\ FullDuty \in Duties
  BY TimeAssumption, RampAssumption DEF Times, Duties
<1>2. RampReset(FullDuty, t) \in Ramps
  BY RampResetType, RampAssumption
<1>3. 0 \in Temperatures
  BY GroupAssumption
<1>4. QED
  BY <1>1, <1>2, <1>3
     DEF ConstructedGroup, FanGroups, OperatingModes, RequestedModes

LEMMA ApplyConfigurationType ==
  ASSUME NEW g \in FanGroups, NEW c \in GroupConfigs, NEW k \in GroupCalibrations,
         NEW t \in Times
  PROVE  ApplyConfiguration(g, c, k, t) \in FanGroups
<1>1. 0 \in Times /\ t \in Int
  BY TimeAssumption DEF Times
<1>2. (IF c.enabled THEN StartupTime(c, k) ELSE 0) \in Int
  BY StartupTimeType
<1>3. TimeAdd(t, IF c.enabled THEN StartupTime(c, k) ELSE 0) \in Times
  BY <1>1, <1>2, TimesClosed
<1>4. ClearFaultTimers(g) \in FanGroups
  BY TimersType
<1>5. c.enabled \in BOOLEAN /\ c.expectedFanMask \in SUBSET Fans
  BY DEF GroupConfigs
<1>6. QED
  BY <1>1, <1>3, <1>4, <1>5
     DEF ApplyConfiguration, FanGroups, RequestedModes

LEMMA BeginType ==
  ASSUME NEW c \in GroupConfigs, NEW k \in GroupCalibrations, NEW t \in Times
  PROVE  Begin(c, k, t) \in FanGroups
BY ConstructedGroupType, ApplyConfigurationType DEF Begin

LEMMA SetTemperatureType ==
  ASSUME NEW g \in FanGroups, NEW r \in Reports
  PROVE  SetTemperature(g, r.value, r.valid) \in FanGroups
BY DEF SetTemperature, FanGroups, Reports

LEMMA SetOverrideType ==
  ASSUME NEW g \in FanGroups, NEW c \in GroupConfigs, NEW k \in GroupCalibrations,
         NEW mode \in RequestedModes, NEW duty \in Nat, NEW timeout \in Nat,
         NEW t \in Times
  PROVE  SetOverride(g, c, k, mode, duty, timeout, t) \in FanGroups
<1>1. 0 \in Times /\ t \in Int
  BY TimeAssumption DEF Times
<1>2. /\ TimeAdd(t, StartupTime(c, k)) \in Times
      /\ TimeAdd(t, IF timeout = 0 THEN DefaultOverrideTime ELSE timeout) \in Times
  BY <1>1, StartupTimeType, TimesClosed, GroupAssumption
<1>3. Capped(duty, FullDuty) \in Duties
  BY RampAssumption DEF Capped, Duties
<1>4. QED
  BY <1>1, <1>2, <1>3 DEF SetOverride, FanGroups

LEMMA SetCalibrationOverrideType ==
  ASSUME NEW g \in FanGroups, NEW on \in BOOLEAN, NEW duty \in Duties
  PROVE  SetCalibrationOverride(g, on, duty) \in FanGroups
<1>1. Capped(duty, FullDuty) \in Duties
  BY RampAssumption DEF Capped, Duties
<1>2. QED
  BY <1>1 DEF SetCalibrationOverride, FanGroups

LEMMA SynchronizeAppliedDutyType ==
  ASSUME NEW g \in FanGroups, NEW duty \in Duties, NEW t \in Times
  PROVE  SynchronizeAppliedDuty(g, duty, t) \in FanGroups
<1>1. RampReset(duty, t) \in Ramps
  BY RampResetType, RampAssumption DEF Duties
<1>2. QED
  BY <1>1 DEF SynchronizeAppliedDuty, FanGroups

-----------------------------------------------------------------------------
(* The stages of a control update.  Each lemma also says what the stage keeps
   that the safety theorems need. *)

(* Nothing but setTemperature changes what the object knows of the reading. *)
SameReading(x, g) ==
  /\ x.temperature = g.temperature
  /\ x.temperatureValid = g.temperatureValid

LEMMA ReadTemperatureType ==
  ASSUME NEW g \in FanGroups, NEW c \in GroupConfigs
  PROVE  /\ ReadTemperature(g, c) \in FanGroups
         /\ SameReading(ReadTemperature(g, c), g)
         /\ g.temperatureValid /\ g.temperature >= c.critical =>
              "TemperatureCritical" \in ReadTemperature(g, c).active
<1>1. c.curve[g.temperature] \in Nat
  BY DEF GroupConfigs, FanGroups
<1>2. {"TemperatureWarning", "TemperatureCritical", "TemperatureInvalid"}
        \subseteq GroupFaults
  BY DEF GroupFaults
<1>3. QED
  BY <1>1, <1>2 DEF ReadTemperature, FanGroups, SameReading

LEMMA ExpireOverrideType ==
  ASSUME NEW g \in FanGroups, NEW c \in GroupConfigs, NEW k \in GroupCalibrations,
         NEW t \in Times
  PROVE  LET x == ExpireOverride(g, c, k, t)
         IN  /\ x \in FanGroups
             /\ SameReading(x, g)
             /\ x.active = g.active
<1>1. 0 \in Times /\ t \in Int
  BY TimeAssumption DEF Times
<1>2. TimeAdd(t, StartupTime(c, k)) \in Times
  BY <1>1, StartupTimeType, TimesClosed
<1>3. QED
  BY <1>1, <1>2 DEF ExpireOverride, FanGroups, RequestedModes, SameReading

LEMMA PrepareRunType ==
  ASSUME NEW g \in FanGroups, NEW c \in GroupConfigs, NEW k \in GroupCalibrations,
         NEW t \in Times
  PROVE  LET x == PrepareRun(g, c, k, t)
         IN  /\ x \in FanGroups
             /\ SameReading(x, g)
             /\ x.active = g.active
             /\ AutoStop(g, c, k) => x.target = g.target
<1>1. t \in Int
  BY TimeAssumption DEF Times
<1>2. TimeAdd(t, StartupTime(c, k)) \in Times
  BY <1>1, StartupTimeType, TimesClosed
<1>3. Larger(g.target, 1) \in Nat
  BY DEF Larger, FanGroups
<1>4. QED
  BY <1>2, <1>3 DEF PrepareRun, FanGroups, SameReading

(* In automatic control the duty asked for is 0 to stop, the floor or above to
   run; and an unsafe group is not in automatic control. *)
LEMMA ChooseModeType ==
  ASSUME NEW g \in FanGroups, NEW c \in GroupConfigs, NEW k \in GroupCalibrations,
         NEW t \in Times, NEW in \in GroupInputs,
         NEW stopping \in BOOLEAN, NEW noStop \in BOOLEAN
  PROVE  LET x == ChooseMode(g, c, k, t, in, stopping, noStop)
         IN  /\ x \in FanGroups
             /\ SameReading(x, g)
             /\ x.active = g.active /\ x.target = g.target /\ x.ramp = g.ramp
             /\ x.mode # "Alarm"
             /\ Unsafe(g, noStop) => x.mode = "Failsafe" /\ x.duty = FullDuty
             /\ x.mode = "Automatic" =>
                  IF stopping THEN x.duty = 0 ELSE x.duty >= MinimumDuty(c, k)
<1> DEFINE x == ChooseMode(g, c, k, t, in, stopping, noStop)
<1>1. /\ FullDuty \in Duties /\ 0 \in Duties /\ Duties \subseteq Int
      /\ g.calibrationDuty \in Duties
      /\ g.overrideDuty \in Duties
      /\ StartupDuty(c, k) \in Duties
      /\ Larger(in.demand, MinimumDuty(c, k)) \in Duties
      /\ Larger(in.demand, MinimumDuty(c, k)) >= MinimumDuty(c, k)
  <2>1. in.demand \in Duties /\ MinimumDuty(c, k) \in Duties
    BY MinimumDutyType DEF GroupInputs
  <2>2. QED
    BY <2>1, StartupDutyType, RampAssumption DEF FanGroups, Larger, Duties
<1> DEFINE Chosen(mode, duty) ==
             /\ x = [g EXCEPT !.mode = mode, !.duty = duty]
             /\ mode \in OperatingModes \ {"Alarm"} /\ duty \in Duties
             /\ Unsafe(g, noStop) => mode = "Failsafe" /\ duty = FullDuty
             /\ mode = "Automatic" =>
                  IF stopping THEN duty = 0 ELSE duty >= MinimumDuty(c, k)
<1>2. \E mode, duty : Chosen(mode, duty)
  <2>1. CASE Unsafe(g, noStop)
    <3>1. Chosen("Failsafe", FullDuty)
      BY <1>1, <2>1 DEF ChooseMode, OperatingModes
    <3>2. QED
      BY <3>1
  <2>2. CASE ~Unsafe(g, noStop) /\ g.calibrationOverride
    <3>1. Chosen("Calibration", g.calibrationDuty)
      BY <1>1, <2>2 DEF ChooseMode, OperatingModes
    <3>2. QED
      BY <3>1
  <2>3. CASE ~Unsafe(g, noStop) /\ ~g.calibrationOverride /\ stopping
    <3>1. Chosen("Automatic", 0)
      BY <1>1, <2>3 DEF ChooseMode, OperatingModes
    <3>2. QED
      BY <3>1
  <2>4. CASE /\ ~Unsafe(g, noStop) /\ ~g.calibrationOverride /\ ~stopping
             /\ g.overrideMode # "Automatic"
    <3>1. CASE g.overrideMode = "Manual"
      <4>1. Chosen("Manual", g.overrideDuty)
        BY <1>1, <2>4, <3>1 DEF ChooseMode, OperatingModes
      <4>2. QED
        BY <4>1
    <3>2. CASE g.overrideMode = "Full"
      <4>1. Chosen("Full", FullDuty)
        BY <1>1, <2>4, <3>2 DEF ChooseMode, OperatingModes
      <4>2. QED
        BY <4>1
    <3>3. CASE g.overrideMode = "Off"
      <4>1. Chosen("Off", 0)
        BY <1>1, <2>4, <3>3 DEF ChooseMode, OperatingModes
      <4>2. QED
        BY <4>1
    <3>4. g.overrideMode \in {"Manual", "Full", "Off"}
      BY <2>4 DEF FanGroups, RequestedModes
    <3> HIDE DEF Chosen
    <3>5. QED
      BY <3>1, <3>2, <3>3, <3>4
  <2>5. CASE /\ ~Unsafe(g, noStop) /\ ~g.calibrationOverride /\ ~stopping
             /\ g.overrideMode = "Automatic"
    <3>1. CASE TimeReached(t, g.startupUntil)
      <4>1. Chosen("Automatic", Larger(in.demand, MinimumDuty(c, k)))
        BY <1>1, <2>5, <3>1 DEF ChooseMode, OperatingModes
      <4>2. QED
        BY <4>1
    <3>2. CASE ~TimeReached(t, g.startupUntil)
      <4>1. Chosen("Full", StartupDuty(c, k))
        BY <1>1, <2>5, <3>2 DEF ChooseMode, OperatingModes
      <4>2. QED
        BY <4>1
    <3>3. QED
      BY <3>1, <3>2
  <2> HIDE DEF Chosen
  <2>6. QED
    BY <2>1, <2>2, <2>3, <2>4, <2>5
<1>3. PICK mode, duty : Chosen(mode, duty)
  BY <1>2
<1> HIDE DEF x
<1>4. /\ x \in FanGroups
      /\ SameReading(x, g)
      /\ x.active = g.active /\ x.target = g.target /\ x.ramp = g.ramp
      /\ x.mode = mode /\ x.duty = duty
  BY <1>3 DEF FanGroups, SameReading
<1>5. /\ x \in FanGroups
      /\ SameReading(x, g)
      /\ x.active = g.active /\ x.target = g.target /\ x.ramp = g.ramp
      /\ x.mode # "Alarm"
      /\ Unsafe(g, noStop) => x.mode = "Failsafe" /\ x.duty = FullDuty
      /\ x.mode = "Automatic" =>
           IF stopping THEN x.duty = 0 ELSE x.duty >= MinimumDuty(c, k)
  BY <1>3, <1>4
<1>6. QED
  BY <1>5 DEF x

(* The ramp leaves every mode but automatic alone, and there it does not pass
   below the floor on its way, unless to stand still. *)
LEMMA RampOutputType ==
  ASSUME NEW g \in FanGroups, NEW c \in GroupConfigs, NEW k \in GroupCalibrations,
         NEW t \in Times
  PROVE  LET x == RampOutput(g, c, k, t)
         IN  /\ x \in FanGroups
             /\ SameReading(x, g)
             /\ x.active = g.active /\ x.target = g.target /\ x.mode = g.mode
             /\ g.mode # "Automatic" => x.duty = g.duty
             /\ g.mode = "Automatic" /\ (g.duty = 0 \/ g.duty >= MinimumDuty(c, k)) =>
                  x.duty >= MinimumDuty(c, k) \/ (x.duty = 0 /\ g.duty = 0)
<1> DEFINE floor == MinimumDuty(c, k)
           start == RampStart(g.ramp, floor, t)
           running == RampStep(start, g.duty, t)
           halting == RampStep(g.ramp, floor, t)
           x == RampOutput(g, c, k, t)
<1>1. /\ g.duty \in Duties /\ g.ramp \in Ramps /\ 0 \in Duties
      /\ floor \in Duties /\ Duties \subseteq Nat
  BY MinimumDutyType, RampAssumption DEF FanGroups, Duties
<1> HIDE DEF floor
<1>2. start \in Ramps /\ start.duty >= floor
  <2>1. RampReset(floor, t) \in Ramps /\ RampReset(floor, t).duty = floor
    BY <1>1, RampResetType
  <2>2. g.ramp.duty \in Nat
    BY <1>1 DEF Ramps
  <2>3. QED
    BY <1>1, <2>1, <2>2 DEF RampStart
<1> HIDE DEF start
<1>3. /\ running \in Ramps
      /\ start.duty <= g.duty => running.duty \in start.duty .. g.duty
      /\ start.duty >= g.duty => running.duty \in g.duty .. start.duty
  BY <1>1, <1>2, RampStepType
<1>4. halting \in Ramps
  BY <1>1, RampStepType
<1>5. RampReset(g.duty, t) \in Ramps /\ RampReset(0, t) \in Ramps
  BY <1>1, RampResetType
<1>6. /\ running.duty \in Duties /\ halting.duty \in Duties
      /\ start.duty \in Duties
  BY <1>2, <1>3, <1>4 DEF Ramps
<1>7. x = IF g.mode # "Automatic" THEN [g EXCEPT !.ramp = RampReset(g.duty, t)]
          ELSE IF g.duty # 0
            THEN [g EXCEPT !.ramp = running, !.duty = running.duty]
          ELSE IF halting.duty > floor
            THEN [g EXCEPT !.ramp = halting, !.duty = halting.duty]
            ELSE [g EXCEPT !.ramp = RampReset(0, t), !.duty = 0]
  BY DEF RampOutput, floor, start
<1> HIDE DEF running, halting, x
<1>8. /\ x \in FanGroups
      /\ SameReading(x, g)
      /\ x.active = g.active /\ x.target = g.target /\ x.mode = g.mode
      /\ g.mode # "Automatic" => x.duty = g.duty
      /\ g.mode = "Automatic" =>
           x.duty = IF g.duty # 0 THEN running.duty
                    ELSE IF halting.duty > floor THEN halting.duty ELSE 0
  BY <1>1, <1>3, <1>4, <1>5, <1>6, <1>7, ZenonT(60) DEF FanGroups, SameReading
<1>9. g.duty >= floor => running.duty >= floor
  <2>1. /\ floor \in Nat /\ g.duty \in Nat /\ start.duty \in Nat
        /\ running.duty \in Nat
    BY <1>1, <1>6
  <2>2. QED
    BY <1>2, <1>3, <2>1
<1>10. floor \in Nat /\ halting.duty \in Nat /\ floor # 0
  BY <1>1, <1>6, MinimumDutyType DEF floor
<1>11. ASSUME g.mode = "Automatic", g.duty = 0 \/ g.duty >= floor
       PROVE  x.duty >= floor \/ (x.duty = 0 /\ g.duty = 0)
  <2>1. CASE g.duty = 0
    <3>1. (x.duty = halting.duty /\ halting.duty > floor) \/ x.duty = 0
      BY <1>8, <1>11, <2>1
    <3>2. QED
      BY <1>10, <2>1, <3>1
  <2>2. CASE g.duty # 0
    <3>1. x.duty = running.duty
      BY <1>8, <1>11, <2>2
    <3>2. QED
      BY <1>9, <1>11, <2>2, <3>1
  <2>3. QED
    BY <2>1, <2>2
<1>12. QED
  BY <1>8, <1>11 DEF x, floor

LEMMA UpdateFanFaultsType ==
  ASSUME NEW g \in FanGroups, NEW c \in GroupConfigs, NEW k \in GroupCalibrations,
         NEW t \in Times, NEW in \in GroupInputs
  PROVE  LET x == UpdateFanFaults(g, c, k, t, in)
         IN  /\ x \in FanGroups
             /\ SameReading(x, g)
             /\ x.mode = g.mode /\ x.duty = g.duty /\ x.target = g.target
             /\ g.active \subseteq x.active
<1> DEFINE bad == in.slow \cap c.expectedFanMask
           since == [f \in Fans |-> IF f \in bad
                                      THEN Armed(g.fanBadSince[f], t) ELSE 0]
           raised == {FanSlow(f) : f \in {x \in bad : Elapsed(t, since[x]) >= c.faultDelay}}
           x == UpdateFanFaults(g, c, k, t, in)
<1>1. bad \subseteq Fans
  BY DEF GroupConfigs
<1>2. since \in [Fans -> Times]
  BY TimeAssumption DEF Armed, FanGroups, Times
<1>3. raised \subseteq GroupFaults
  BY <1>1 DEF GroupFaults
<1>4. StopFanTimers(g) \in FanGroups
  BY TimersType
<1>5. \/ x = StopFanTimers(g)
      \/ x = [g EXCEPT !.fanBadSince = since, !.active = @ \cup raised]
  BY DEF UpdateFanFaults
<1> HIDE DEF bad, since, raised, x
<1>6. /\ x \in FanGroups
      /\ SameReading(x, g)
      /\ x.mode = g.mode /\ x.duty = g.duty /\ x.target = g.target
      /\ g.active \subseteq x.active
  BY <1>2, <1>3, <1>4, <1>5, ZenonT(60) DEF FanGroups, StopFanTimers, SameReading
<1>7. QED
  BY <1>6 DEF x

LEMMA UpdateCurrentFaultsType ==
  ASSUME NEW g \in FanGroups, NEW c \in GroupConfigs, NEW k \in GroupCalibrations,
         NEW t \in Times, NEW in \in GroupInputs
  PROVE  LET x == UpdateCurrentFaults(g, c, k, t, in)
         IN  /\ x \in FanGroups
             /\ SameReading(x, g)
             /\ x.mode = g.mode /\ x.duty = g.duty /\ x.target = g.target
             /\ g.active \subseteq x.active
<1> DEFINE low  == IF in.current = "low" THEN Armed(g.currentLowSince, t) ELSE 0
           high == IF in.current = "high" THEN Armed(g.currentHighSince, t) ELSE 0
           raised ==
             {fault \in {"CurrentLow", "CurrentHigh"} :
                IF fault = "CurrentLow"
                  THEN in.current = "low" /\ Elapsed(t, low) >= c.faultDelay
                  ELSE in.current = "high" /\ Elapsed(t, high) >= c.faultDelay}
           x == UpdateCurrentFaults(g, c, k, t, in)
<1>1. low \in Times /\ high \in Times
  BY TimeAssumption DEF Armed, FanGroups, Times
<1>2. raised \subseteq GroupFaults
  BY DEF GroupFaults
<1>3. StopCurrentTimers(g) \in FanGroups
  BY TimersType
<1>4. \/ x = StopCurrentTimers(g)
      \/ x = g
      \/ x = [g EXCEPT !.currentLowSince = low, !.currentHighSince = high,
                       !.active = @ \cup raised]
  BY DEF UpdateCurrentFaults
<1> HIDE DEF low, high, raised, x
<1>5. /\ x \in FanGroups
      /\ SameReading(x, g)
      /\ x.mode = g.mode /\ x.duty = g.duty /\ x.target = g.target
      /\ g.active \subseteq x.active
  <2>1. CASE x = g
    BY <2>1 DEF SameReading
  <2>2. CASE x = StopCurrentTimers(g)
    BY <1>3, <2>2 DEF FanGroups, StopCurrentTimers, SameReading
  <2>3. CASE x = [g EXCEPT !.currentLowSince = low, !.currentHighSince = high,
                           !.active = @ \cup raised]
    BY <1>1, <1>2, <2>3 DEF FanGroups, SameReading
  <2>4. QED
    BY <1>4, <2>1, <2>2, <2>3
<1>6. QED
  BY <1>5 DEF x

(* The protection takes automatic control away, at full speed, or keeps all. *)
LEMMA ProtectSlowFanType ==
  ASSUME NEW g \in FanGroups, NEW t \in Times
  PROVE  LET x == ProtectSlowFan(g, t)
         IN  /\ x \in FanGroups
             /\ SameReading(x, g)
             /\ \/ x.mode = "Failsafe" /\ x.duty = FullDuty
                \/ x.mode = g.mode /\ x.duty = g.duty /\ x.target = g.target
<1> DEFINE safe == [g EXCEPT !.mode = "Failsafe", !.duty = FullDuty,
                             !.ramp = RampReset(FullDuty, t)]
           x == ProtectSlowFan(g, t)
<1>1. /\ safe \in FanGroups /\ SameReading(safe, g)
      /\ safe.mode = "Failsafe" /\ safe.duty = FullDuty
  <2>1. RampReset(FullDuty, t) \in Ramps /\ FullDuty \in Duties
    BY RampResetType, RampAssumption DEF Duties
  <2>2. QED
    BY <2>1 DEF FanGroups, OperatingModes, SameReading
<1>2. x = [safe EXCEPT !.latched = @ \cup g.active]
        \/ x = [g EXCEPT !.latched = @ \cup g.active]
  BY DEF ProtectSlowFan
<1>3. g.active \subseteq GroupFaults
  BY DEF FanGroups
<1> HIDE DEF safe, x
<1>4. /\ x \in FanGroups
      /\ SameReading(x, g)
      /\ \/ x.mode = "Failsafe" /\ x.duty = FullDuty
         \/ x.mode = g.mode /\ x.duty = g.duty /\ x.target = g.target
  BY <1>1, <1>2, <1>3 DEF FanGroups, SameReading
<1>5. QED
  BY <1>4 DEF x

(* One control update: the object keeps its type, an unsafe reading leaves it
   at full speed, and automatic control leaves it at the floor or, where a stop
   is verified and wanted, at rest. *)
Safely(x, g, c, k) ==
  /\ x \in FanGroups
  /\ x.mode # "Alarm"
  /\ SameReading(x, g)
  /\ x.duty = FullDuty \/ (x.temperatureValid /\ x.temperature < c.critical)
  /\ x.mode = "Automatic" =>
       \/ x.duty >= MinimumDuty(c, k)
       \/ x.duty = 0 /\ CanStop(c, k) /\ x.target = 0

LEMMA ControlUpdateType ==
  ASSUME NEW g \in FanGroups, NEW c \in GroupConfigs, NEW k \in GroupCalibrations,
         NEW t \in Times, NEW in \in GroupInputs
  PROVE  Safely(ControlUpdate(g, c, k, t, in), g, c, k)
<1> DEFINE read     == ReadTemperature(g, c)
           expired  == ExpireOverride(read, c, k, t)
           stopping == AutoStop(expired, c, k)
           noStop   == UnsupportedStop(expired, c, k)
           prepared == PrepareRun(expired, c, k, t)
           chosen   == ChooseMode(prepared, c, k, t, in, stopping, noStop)
           output   == RampOutput(chosen, c, k, t)
           fans     == UpdateFanFaults(output, c, k, t, in)
           current  == UpdateCurrentFaults(fans, c, k, t, in)
           x        == ProtectSlowFan(current, t)
           floor    == MinimumDuty(c, k)
<1>0. ControlUpdate(g, c, k, t, in) = x
  BY DEF ControlUpdate
<1>1. /\ read \in FanGroups /\ SameReading(read, g)
      /\ g.temperatureValid /\ g.temperature >= c.critical =>
           "TemperatureCritical" \in read.active
  BY ReadTemperatureType
<1> HIDE DEF read
<1>2. expired \in FanGroups /\ SameReading(expired, read) /\ expired.active = read.active
  BY <1>1, ExpireOverrideType
<1> HIDE DEF expired
<1>3. /\ prepared \in FanGroups /\ SameReading(prepared, expired)
      /\ prepared.active = expired.active
      /\ stopping => prepared.target = expired.target
  BY <1>2, PrepareRunType
<1>4. /\ stopping \in BOOLEAN /\ noStop \in BOOLEAN
      /\ stopping => expired.target = 0 /\ CanStop(c, k)
  BY DEF AutoStop, UnsupportedStop
<1> HIDE DEF prepared, stopping, noStop
<1>5. /\ chosen \in FanGroups /\ SameReading(chosen, prepared)
      /\ chosen.target = prepared.target
      /\ chosen.mode # "Alarm"
      /\ Unsafe(prepared, noStop) => chosen.mode = "Failsafe" /\ chosen.duty = FullDuty
      /\ chosen.mode = "Automatic" =>
           IF stopping THEN chosen.duty = 0 ELSE chosen.duty >= floor
  BY <1>3, <1>4, ChooseModeType
<1> HIDE DEF chosen
<1>6. /\ output \in FanGroups /\ SameReading(output, chosen)
      /\ output.target = chosen.target /\ output.mode = chosen.mode
      /\ chosen.mode # "Automatic" => output.duty = chosen.duty
      /\ chosen.mode = "Automatic" /\ (chosen.duty = 0 \/ chosen.duty >= floor) =>
           output.duty >= floor \/ (output.duty = 0 /\ chosen.duty = 0)
  BY <1>5, RampOutputType
<1> HIDE DEF output
<1>7. /\ fans \in FanGroups /\ SameReading(fans, output)
      /\ fans.mode = output.mode /\ fans.duty = output.duty
      /\ fans.target = output.target
  BY <1>6, UpdateFanFaultsType
<1> HIDE DEF fans
<1>8. /\ current \in FanGroups /\ SameReading(current, fans)
      /\ current.mode = fans.mode /\ current.duty = fans.duty
      /\ current.target = fans.target
  BY <1>7, UpdateCurrentFaultsType
<1> HIDE DEF current
<1>9. /\ x \in FanGroups /\ SameReading(x, current)
      /\ \/ x.mode = "Failsafe" /\ x.duty = FullDuty
         \/ x.mode = current.mode /\ x.duty = current.duty /\ x.target = current.target
  BY <1>8, ProtectSlowFanType
<1> HIDE DEF x
<1>10. SameReading(x, g) /\ SameReading(prepared, g)
  BY <1>1, <1>2, <1>3, <1>5, <1>6, <1>7, <1>8, <1>9 DEF SameReading
<1>11. x.mode # "Alarm"
  BY <1>5, <1>6, <1>7, <1>8, <1>9
<1>12. x.duty = FullDuty \/ (x.temperatureValid /\ x.temperature < c.critical)
  <2>1. CASE Unsafe(prepared, noStop)
    BY <2>1, <1>5, <1>6, <1>7, <1>8, <1>9
  <2>2. CASE ~Unsafe(prepared, noStop)
    <3>1. prepared.temperatureValid /\ "TemperatureCritical" \notin prepared.active
      BY <2>2 DEF Unsafe
    <3>2. g.temperatureValid /\ ~(g.temperature >= c.critical)
      BY <3>1, <1>1, <1>2, <1>3, <1>10 DEF SameReading
    <3>3. g.temperature \in Int /\ c.critical \in Int
      BY GroupAssumption DEF FanGroups, GroupConfigs
    <3>4. QED
      BY <3>2, <3>3, <1>10 DEF SameReading
  <2>3. QED
    BY <2>1, <2>2
<1>13. ASSUME x.mode = "Automatic"
       PROVE  \/ x.duty >= floor
              \/ x.duty = 0 /\ CanStop(c, k) /\ x.target = 0
  <2>1. /\ chosen.mode = "Automatic" /\ x.duty = output.duty
        /\ x.target = prepared.target
    BY <1>13, <1>5, <1>6, <1>7, <1>8, <1>9
  <2>2. CASE stopping
    BY <2>1, <2>2, <1>3, <1>4, <1>5, <1>6
  <2>3. CASE ~stopping
    <3>1. chosen.duty >= floor
      BY <2>1, <2>3, <1>5
    <3>2. floor > 0
      BY MinimumDutyType, RampAssumption DEF Duties
    <3>3. chosen.duty # 0
      BY <3>1, <3>2, MinimumDutyType, RampAssumption DEF Duties
    <3>4. QED
      BY <2>1, <3>1, <3>3, <1>6
  <2>4. QED
    BY <2>2, <2>3
<1>14. QED
  BY <1>0, <1>9, <1>10, <1>11, <1>12, <1>13 DEF Safely

LEMMA UpdateType ==
  ASSUME NEW g \in FanGroups, NEW c \in GroupConfigs, NEW k \in GroupCalibrations,
         NEW t \in Times, NEW hostAlarm \in BOOLEAN, NEW in \in GroupInputs
  PROVE  LET x == Update(g, c, k, t, hostAlarm, in)
         IN  /\ x \in FanGroups
             /\ \/ x.duty = FullDuty
                \/ /\ x.mode # "Alarm"
                   /\ c.enabled => x.temperatureValid /\ x.temperature < c.critical
             /\ x.mode = "Automatic" =>
                  \/ x.duty >= MinimumDuty(c, k)
                  \/ x.duty = 0 /\ CanStop(c, k) /\ x.target = 0
<1>1. ClearFaultTimers(g) \in FanGroups
  BY TimersType
<1>2. /\ FullDuty \in Duties /\ 0 \in Duties
      /\ RampReset(FullDuty, t) \in Ramps /\ RampReset(0, t) \in Ramps
  BY RampAssumption, RampResetType DEF Duties
<1>3. CASE hostAlarm
  <2>1. /\ AlarmUpdate(g, t) \in FanGroups
        /\ AlarmUpdate(g, t).duty = FullDuty
        /\ AlarmUpdate(g, t).mode = "Alarm"
    BY <1>1, <1>2 DEF AlarmUpdate, FanGroups, OperatingModes
  <2>2. QED
    BY <1>3, <2>1 DEF Update
<1>4. CASE ~hostAlarm /\ ~c.enabled
  <2>1. /\ DisabledUpdate(g, t) \in FanGroups
        /\ DisabledUpdate(g, t).mode = "Disabled"
    BY <1>1, <1>2 DEF DisabledUpdate, FanGroups, OperatingModes
  <2>2. QED
    BY <1>4, <2>1 DEF Update
<1>5. CASE ~hostAlarm /\ c.enabled
  BY <1>5, ControlUpdateType DEF Update, Safely
<1>6. QED
  BY <1>3, <1>4, <1>5

(* A control update does not change the reading, and says when it is invalid. *)
LEMMA ControlUpdateReading ==
  ASSUME NEW g \in FanGroups, NEW c \in GroupConfigs, NEW k \in GroupCalibrations,
         NEW t \in Times, NEW in \in GroupInputs, ~g.temperatureValid
  PROVE  "TemperatureInvalid" \in ControlUpdate(g, c, k, t, in).active
<1> DEFINE read     == ReadTemperature(g, c)
           expired  == ExpireOverride(read, c, k, t)
           stopping == AutoStop(expired, c, k)
           noStop   == UnsupportedStop(expired, c, k)
           prepared == PrepareRun(expired, c, k, t)
           chosen   == ChooseMode(prepared, c, k, t, in, stopping, noStop)
           output   == RampOutput(chosen, c, k, t)
           fans     == UpdateFanFaults(output, c, k, t, in)
           current  == UpdateCurrentFaults(fans, c, k, t, in)
           x        == ProtectSlowFan(current, t)
<1>0. ControlUpdate(g, c, k, t, in) = x
  BY DEF ControlUpdate
<1>1. read \in FanGroups /\ "TemperatureInvalid" \in read.active
  BY ReadTemperatureType, ZenonT(60) DEF ReadTemperature, FanGroups
<1> HIDE DEF read
<1>2. expired \in FanGroups /\ expired.active = read.active
  BY <1>1, ExpireOverrideType
<1> HIDE DEF expired
<1>3. prepared \in FanGroups /\ prepared.active = expired.active
  BY <1>2, PrepareRunType
<1>4. stopping \in BOOLEAN /\ noStop \in BOOLEAN
  BY DEF AutoStop, UnsupportedStop
<1> HIDE DEF prepared, stopping, noStop
<1>5. chosen \in FanGroups /\ chosen.active = prepared.active
  BY <1>3, <1>4, ChooseModeType
<1> HIDE DEF chosen
<1>6. output \in FanGroups /\ output.active = chosen.active
  BY <1>5, RampOutputType
<1> HIDE DEF output
<1>7. fans \in FanGroups /\ output.active \subseteq fans.active
  BY <1>6, UpdateFanFaultsType
<1> HIDE DEF fans
<1>8. current \in FanGroups /\ fans.active \subseteq current.active
  BY <1>7, UpdateCurrentFaultsType
<1> HIDE DEF current
<1>9. x.active = current.active
  BY <1>8 DEF ProtectSlowFan, FanGroups
<1> HIDE DEF x
<1>10. QED
  BY <1>0, <1>1, <1>2, <1>3, <1>5, <1>6, <1>7, <1>8, <1>9

LEMMA UpdateReading ==
  ASSUME NEW g \in FanGroups, NEW c \in GroupConfigs, NEW k \in GroupCalibrations,
         NEW t \in Times, NEW hostAlarm \in BOOLEAN, NEW in \in GroupInputs
  PROVE  LET x == Update(g, c, k, t, hostAlarm, in)
         IN  /\ SameReading(x, g)
             /\ hostAlarm => x.duty = FullDuty
             /\ ~hostAlarm /\ c.enabled /\ "TemperatureInvalid" \notin x.active =>
                  x.temperatureValid
<1>1. ClearFaultTimers(g) \in FanGroups /\ SameReading(ClearFaultTimers(g), g)
  BY TimersType DEF ClearFaultTimers, StopFanTimers, StopCurrentTimers, FanGroups,
                    SameReading
<1>2. CASE hostAlarm
  BY <1>1, <1>2 DEF Update, AlarmUpdate, FanGroups, SameReading
<1>3. CASE ~hostAlarm /\ ~c.enabled
  BY <1>1, <1>3 DEF Update, DisabledUpdate, FanGroups, SameReading
<1>4. CASE ~hostAlarm /\ c.enabled
  <2>1. Update(g, c, k, t, hostAlarm, in) = ControlUpdate(g, c, k, t, in)
    BY <1>4 DEF Update
  <2>2. SameReading(ControlUpdate(g, c, k, t, in), g)
    BY ControlUpdateType DEF Safely
  <2>3. g.temperatureValid \in BOOLEAN
    BY DEF FanGroups
  <2>4. QED
    BY <1>4, <2>1, <2>2, <2>3, ControlUpdateReading DEF SameReading
<1>5. QED
  BY <1>2, <1>3, <1>4

-----------------------------------------------------------------------------
(* Deadlines and timers: what each stage of a control update does to the
   deadlines of override and boost and to the timers of the faults. *)

SameDeadlines(x, g) ==
  /\ x.overrideMode = g.overrideMode
  /\ x.overrideUntil = g.overrideUntil
  /\ x.startupUntil = g.startupUntil

SameTimers(x, g) ==
  /\ x.fanBadSince = g.fanBadSince
  /\ x.currentLowSince = g.currentLowSince
  /\ x.currentHighSince = g.currentHighSince

(* The duty of the object is where its ramp is. *)
OnRamp(g) == g.ramp.duty = g.duty

TemperatureFaults == {"TemperatureInvalid", "TemperatureWarning", "TemperatureCritical"}

Expires(g, t) == g.overrideUntil # 0 /\ TimeReached(t, g.overrideUntil)

LEMMA ReadTemperatureDeadlines ==
  ASSUME NEW g \in FanGroups, NEW c \in GroupConfigs
  PROVE  LET x == ReadTemperature(g, c)
         IN  /\ SameDeadlines(x, g) /\ SameTimers(x, g)
             /\ x.duty = g.duty /\ x.ramp = g.ramp
             /\ x.active \subseteq TemperatureFaults
BY DEF ReadTemperature, FanGroups, SameDeadlines, SameTimers, TemperatureFaults

LEMMA ExpireOverrideDeadlines ==
  ASSUME NEW g \in FanGroups, NEW c \in GroupConfigs, NEW k \in GroupCalibrations,
         NEW t \in Times
  PROVE  LET x == ExpireOverride(g, c, k, t)
         IN  /\ SameTimers(x, g) /\ x.duty = g.duty /\ x.ramp = g.ramp
             /\ IF Expires(g, t)
                  THEN /\ x.overrideMode = "Automatic" /\ x.overrideUntil = 0
                       /\ x.startupUntil = TimeAdd(t, StartupTime(c, k))
                  ELSE SameDeadlines(x, g)
BY DEF ExpireOverride, Expires, FanGroups, SameDeadlines, SameTimers

LEMMA PrepareRunDeadlines ==
  ASSUME NEW g \in FanGroups, NEW c \in GroupConfigs, NEW k \in GroupCalibrations,
         NEW t \in Times
  PROVE  LET x == PrepareRun(g, c, k, t)
         IN  /\ SameTimers(x, g) /\ x.duty = g.duty /\ x.ramp = g.ramp
             /\ x.overrideMode = g.overrideMode /\ x.overrideUntil = g.overrideUntil
             /\ x.startupUntil =
                  IF /\ g.temperatureValid /\ ~AutoStop(g, c, k)
                     /\ g.overrideMode = "Automatic" /\ g.duty = 0
                    THEN TimeAdd(t, StartupTime(c, k)) ELSE g.startupUntil
BY DEF PrepareRun, FanGroups, SameTimers

(* A boost ends at its deadline, and automatic running begins there. *)
LEMMA ChooseModeDeadlines ==
  ASSUME NEW g \in FanGroups, NEW c \in GroupConfigs, NEW k \in GroupCalibrations,
         NEW t \in Times, NEW in \in GroupInputs,
         NEW stopping \in BOOLEAN, NEW noStop \in BOOLEAN
  PROVE  LET x == ChooseMode(g, c, k, t, in, stopping, noStop)
         IN  /\ SameDeadlines(x, g) /\ SameTimers(x, g) /\ x.ramp = g.ramp
             /\ x.mode = "Failsafe" => x.duty = FullDuty
             /\ x.mode = "Full" =>
                  \/ x.duty = FullDuty /\ g.overrideMode # "Automatic"
                  \/ g.overrideMode = "Automatic" /\ ~TimeReached(t, g.startupUntil)
             /\ x.mode = "Automatic" =>
                  \/ stopping
                  \/ /\ g.temperatureValid /\ g.overrideMode = "Automatic"
                     /\ TimeReached(t, g.startupUntil)
             /\ x.mode \in {"Failsafe", "Full", "Automatic", "Calibration", "Manual", "Off"}
<1> DEFINE x == ChooseMode(g, c, k, t, in, stopping, noStop)
           Chosen(mode, duty) ==
             /\ x = [g EXCEPT !.mode = mode, !.duty = duty]
             /\ mode = "Failsafe" => duty = FullDuty
             /\ mode = "Full" =>
                  \/ duty = FullDuty /\ g.overrideMode # "Automatic"
                  \/ g.overrideMode = "Automatic" /\ ~TimeReached(t, g.startupUntil)
             /\ mode = "Automatic" =>
                  \/ stopping
                  \/ /\ g.temperatureValid /\ g.overrideMode = "Automatic"
                     /\ TimeReached(t, g.startupUntil)
             /\ mode \in {"Failsafe", "Full", "Automatic", "Calibration", "Manual", "Off"}
<1>1. \E mode, duty : Chosen(mode, duty)
  <2>1. CASE Unsafe(g, noStop)
    <3>1. Chosen("Failsafe", FullDuty)
      BY <2>1 DEF ChooseMode
    <3>2. QED
      BY <3>1
  <2>2. CASE ~Unsafe(g, noStop) /\ g.calibrationOverride
    <3>1. Chosen("Calibration", g.calibrationDuty)
      BY <2>2 DEF ChooseMode
    <3>2. QED
      BY <3>1
  <2>3. CASE ~Unsafe(g, noStop) /\ ~g.calibrationOverride /\ stopping
    <3>1. Chosen("Automatic", 0)
      BY <2>3 DEF ChooseMode
    <3>2. QED
      BY <3>1
  <2>4. CASE /\ ~Unsafe(g, noStop) /\ ~g.calibrationOverride /\ ~stopping
             /\ g.overrideMode # "Automatic"
    <3>1. g.overrideMode \in {"Manual", "Full", "Off"}
      BY <2>4 DEF FanGroups, RequestedModes
    <3>2. \E duty : Chosen(g.overrideMode, duty)
      <4>1. ASSUME g.overrideMode = "Manual" PROVE Chosen("Manual", g.overrideDuty)
        BY <2>4, <4>1 DEF ChooseMode
      <4>2. ASSUME g.overrideMode = "Full" PROVE Chosen("Full", FullDuty)
        BY <2>4, <4>2 DEF ChooseMode
      <4>3. ASSUME g.overrideMode = "Off" PROVE Chosen("Off", 0)
        BY <2>4, <4>3 DEF ChooseMode
      <4> HIDE DEF Chosen
      <4>4. QED
        BY <3>1, <4>1, <4>2, <4>3
    <3> HIDE DEF Chosen
    <3>3. QED
      BY <3>2
  <2>5. CASE /\ ~Unsafe(g, noStop) /\ ~g.calibrationOverride /\ ~stopping
             /\ g.overrideMode = "Automatic"
    <3>1. CASE TimeReached(t, g.startupUntil)
      <4>1. Chosen("Automatic", Larger(in.demand, MinimumDuty(c, k)))
        BY <2>5, <3>1 DEF ChooseMode, Unsafe
      <4>2. QED
        BY <4>1
    <3>2. CASE ~TimeReached(t, g.startupUntil)
      <4>1. Chosen("Full", StartupDuty(c, k))
        BY <2>5, <3>2 DEF ChooseMode
      <4>2. QED
        BY <4>1
    <3>3. QED
      BY <3>1, <3>2
  <2> HIDE DEF Chosen
  <2>6. QED
    BY <2>1, <2>2, <2>3, <2>4, <2>5
<1>2. PICK mode, duty : Chosen(mode, duty)
  BY <1>1
<1> HIDE DEF x
<1>3. /\ SameDeadlines(x, g) /\ SameTimers(x, g) /\ x.ramp = g.ramp
      /\ x.mode = mode /\ x.duty = duty
  BY <1>2 DEF FanGroups, SameDeadlines, SameTimers
<1>4. QED
  BY <1>2, <1>3 DEF x

LEMMA RampOutputDeadlines ==
  ASSUME NEW g \in FanGroups, NEW c \in GroupConfigs, NEW k \in GroupCalibrations,
         NEW t \in Times
  PROVE  LET x == RampOutput(g, c, k, t)
         IN  /\ SameDeadlines(x, g) /\ SameTimers(x, g) /\ OnRamp(x)
             (* What stands still and is to stand still stays so. *)
             /\ g.mode = "Automatic" /\ g.duty = 0 /\ g.ramp.duty = 0 => x.duty = 0
<1> DEFINE floor == MinimumDuty(c, k)
           running == RampStep(RampStart(g.ramp, floor, t), g.duty, t)
           halting == RampStep(g.ramp, floor, t)
           x == RampOutput(g, c, k, t)
<1>1. /\ g.duty \in Duties /\ g.ramp \in Ramps /\ 0 \in Duties
      /\ floor \in Duties /\ Duties \subseteq Nat
  BY MinimumDutyType, RampAssumption DEF FanGroups, Duties
<1>2. RampReset(g.duty, t).duty = g.duty /\ RampReset(0, t).duty = 0
  BY <1>1, RampResetType
<1>3. g.ramp.duty = 0 => halting.duty \in 0 .. floor
  <2>1. ASSUME g.ramp.duty = 0 PROVE halting.duty \in 0 .. floor
    <3>1. g.ramp.duty <= floor
      BY <1>1, <2>1 DEF Duties
    <3>2. halting.duty \in g.ramp.duty .. floor
      BY <1>1, <3>1, RampStepType
    <3>3. QED
      BY <2>1, <3>2
  <2>2. QED
    BY <2>1
<1>4. x = IF g.mode # "Automatic" THEN [g EXCEPT !.ramp = RampReset(g.duty, t)]
          ELSE IF g.duty # 0
            THEN [g EXCEPT !.ramp = running, !.duty = running.duty]
          ELSE IF halting.duty > floor
            THEN [g EXCEPT !.ramp = halting, !.duty = halting.duty]
            ELSE [g EXCEPT !.ramp = RampReset(0, t), !.duty = 0]
  BY DEF RampOutput
<1> HIDE DEF running, halting, x
<1>5. SameDeadlines(x, g) /\ SameTimers(x, g) /\ OnRamp(x)
  BY <1>2, <1>4 DEF FanGroups, SameDeadlines, SameTimers, OnRamp
<1>6. g.mode = "Automatic" /\ g.duty = 0 /\ g.ramp.duty = 0 => x.duty = 0
  <2>1. ASSUME g.mode = "Automatic", g.duty = 0, g.ramp.duty = 0 PROVE x.duty = 0
    <3>1. ~(halting.duty > floor)
      BY <1>1, <1>3, <2>1 DEF Duties
    <3> HIDE DEF floor
    <3>2. x = [g EXCEPT !.ramp = RampReset(0, t), !.duty = 0]
      BY <1>4, <2>1, <3>1
    <3>3. QED
      BY <3>2 DEF FanGroups
  <2>2. QED
    BY <2>1
<1>7. QED
  BY <1>5, <1>6 DEF x

(* A fault of a fan, or of the current, comes from a timer that has run for the
   delay, and a timer runs on or starts only while what it times is measured. *)
FanTimed(x, g, c, t, in) ==
  \A f \in Fans :
    /\ x.fanBadSince[f] # 0 =>
         f \in in.slow /\ x.fanBadSince[f] = Armed(g.fanBadSince[f], t)
    /\ FanSlow(f) \in x.active =>
         f \in in.slow /\ Elapsed(t, Armed(g.fanBadSince[f], t)) >= c.faultDelay

CurrentTimed(x, g, c, t, in) ==
  /\ x.currentLowSince # 0 =>
       \/ in.current = "low" /\ x.currentLowSince = Armed(g.currentLowSince, t)
       \/ in.current = "unknown" /\ x.currentLowSince = g.currentLowSince
  /\ x.currentHighSince # 0 =>
       \/ in.current = "high" /\ x.currentHighSince = Armed(g.currentHighSince, t)
       \/ in.current = "unknown" /\ x.currentHighSince = g.currentHighSince
  /\ "CurrentLow" \in x.active =>
       in.current = "low" /\ Elapsed(t, Armed(g.currentLowSince, t)) >= c.faultDelay
  /\ "CurrentHigh" \in x.active =>
       in.current = "high" /\ Elapsed(t, Armed(g.currentHighSince, t)) >= c.faultDelay

LEMMA FanSlowDistinct ==
  /\ \A f \in Fans, h \in Fans : FanSlow(f) = FanSlow(h) => f = h
  /\ \A f \in Fans : FanSlow(f) \notin TemperatureFaults \cup {"CurrentLow", "CurrentHigh"}
BY GroupAssumption DEF FanSlow, TemperatureFaults

LEMMA UpdateFanFaultsDeadlines ==
  ASSUME NEW g \in FanGroups, NEW c \in GroupConfigs, NEW k \in GroupCalibrations,
         NEW t \in Times, NEW in \in GroupInputs, g.active \subseteq TemperatureFaults
  PROVE  LET x == UpdateFanFaults(g, c, k, t, in)
         IN  /\ SameDeadlines(x, g) /\ x.ramp = g.ramp
             /\ x.currentLowSince = g.currentLowSince
             /\ x.currentHighSince = g.currentHighSince
             /\ x.active \cap {"CurrentLow", "CurrentHigh"} = {}
             /\ FanTimed(x, g, c, t, in)
             /\ \A f \in Fans : FanSlow(f) \in x.active =>
                  g.mode \notin {"Calibration", "Manual", "Off"}
<1> DEFINE bad == in.slow \cap c.expectedFanMask
           since == [f \in Fans |-> IF f \in bad
                                      THEN Armed(g.fanBadSince[f], t) ELSE 0]
           late == {h \in bad : Elapsed(t, since[h]) >= c.faultDelay}
           x == UpdateFanFaults(g, c, k, t, in)
           rests == [f \in Fans |-> 0]
<1>1. late \subseteq Fans /\ bad \subseteq Fans
  BY DEF GroupConfigs
<1>2. \/ x = [g EXCEPT !.fanBadSince = rests]
      \/ /\ x = [g EXCEPT !.fanBadSince = since,
                          !.active = @ \cup {FanSlow(f) : f \in late}]
         /\ g.mode \notin {"Calibration", "Manual", "Off"}
  BY DEF UpdateFanFaults, StopFanTimers
<1>3. \A f \in Fans : /\ since[f] # 0 => f \in in.slow /\ since[f] = Armed(g.fanBadSince[f], t)
                      /\ f \in late => /\ f \in in.slow
                                       /\ Elapsed(t, Armed(g.fanBadSince[f], t)) >= c.faultDelay
  OBVIOUS
<1>4. \A f \in Fans : /\ FanSlow(f) \notin g.active
                      /\ FanSlow(f) \in {FanSlow(h) : h \in late} => f \in late
  BY <1>1, FanSlowDistinct
<1>5. /\ g.active \cap {"CurrentLow", "CurrentHigh"} = {}
      /\ {FanSlow(f) : f \in late} \cap {"CurrentLow", "CurrentHigh"} = {}
  BY <1>1, FanSlowDistinct, ZenonT(60) DEF TemperatureFaults
<1> HIDE DEF bad, since, late, x
<1>6. CASE x = [g EXCEPT !.fanBadSince = rests]
  <2>1. /\ SameDeadlines(x, g) /\ x.ramp = g.ramp /\ x.active = g.active
        /\ x.currentLowSince = g.currentLowSince
        /\ x.currentHighSince = g.currentHighSince
        /\ \A f \in Fans : x.fanBadSince[f] = 0
    BY <1>6 DEF FanGroups, SameDeadlines
  <2>2. QED
    BY <2>1, <1>4, <1>5 DEF FanTimed, x
<1>7. CASE /\ x = [g EXCEPT !.fanBadSince = since,
                            !.active = @ \cup {FanSlow(f) : f \in late}]
           /\ g.mode \notin {"Calibration", "Manual", "Off"}
  <2>1. /\ SameDeadlines(x, g) /\ x.ramp = g.ramp
        /\ x.active = g.active \cup {FanSlow(f) : f \in late}
        /\ x.currentLowSince = g.currentLowSince
        /\ x.currentHighSince = g.currentHighSince
        /\ x.fanBadSince = since
    BY <1>7 DEF FanGroups, SameDeadlines
  <2>2. \A f \in Fans : FanSlow(f) \in x.active => f \in late
    BY <2>1, <1>4
  <2>3. FanTimed(x, g, c, t, in)
    BY <2>1, <2>2, <1>3 DEF FanTimed
  <2>4. QED
    BY <2>1, <2>3, <1>5, <1>7 DEF x
<1>8. QED
  BY <1>2, <1>6, <1>7

LEMMA UpdateCurrentFaultsDeadlines ==
  ASSUME NEW g \in FanGroups, NEW c \in GroupConfigs, NEW k \in GroupCalibrations,
         NEW t \in Times, NEW in \in GroupInputs,
         g.active \cap {"CurrentLow", "CurrentHigh"} = {}
  PROVE  LET x == UpdateCurrentFaults(g, c, k, t, in)
         IN  /\ SameDeadlines(x, g) /\ x.ramp = g.ramp
             /\ x.fanBadSince = g.fanBadSince
             /\ CurrentTimed(x, g, c, t, in)
             /\ \A f \in Fans : FanSlow(f) \in x.active => FanSlow(f) \in g.active
<1> DEFINE low  == IF in.current = "low" THEN Armed(g.currentLowSince, t) ELSE 0
           high == IF in.current = "high" THEN Armed(g.currentHighSince, t) ELSE 0
           raised ==
             {fault \in {"CurrentLow", "CurrentHigh"} :
                IF fault = "CurrentLow"
                  THEN in.current = "low" /\ Elapsed(t, low) >= c.faultDelay
                  ELSE in.current = "high" /\ Elapsed(t, high) >= c.faultDelay}
           x == UpdateCurrentFaults(g, c, k, t, in)
<1>1. \/ x = [g EXCEPT !.currentLowSince = 0, !.currentHighSince = 0]
      \/ x = g /\ in.current = "unknown"
      \/ x = [g EXCEPT !.currentLowSince = low, !.currentHighSince = high,
                       !.active = @ \cup raised]
  BY DEF UpdateCurrentFaults, StopCurrentTimers
<1>2. /\ low # 0 => in.current = "low" /\ low = Armed(g.currentLowSince, t)
      /\ high # 0 => in.current = "high" /\ high = Armed(g.currentHighSince, t)
      /\ "CurrentLow" \in raised =>
           in.current = "low" /\ Elapsed(t, Armed(g.currentLowSince, t)) >= c.faultDelay
      /\ "CurrentHigh" \in raised =>
           in.current = "high" /\ Elapsed(t, Armed(g.currentHighSince, t)) >= c.faultDelay
      /\ \A f \in Fans : FanSlow(f) \notin raised
  BY FanSlowDistinct
<1> HIDE DEF low, high, raised, x
<1>3. CASE x = [g EXCEPT !.currentLowSince = 0, !.currentHighSince = 0]
  BY <1>3 DEF FanGroups, SameDeadlines, CurrentTimed, x
<1>4. CASE x = g /\ in.current = "unknown"
  BY <1>4 DEF SameDeadlines, CurrentTimed, x
<1>5. CASE x = [g EXCEPT !.currentLowSince = low, !.currentHighSince = high,
                         !.active = @ \cup raised]
  <2>1. /\ SameDeadlines(x, g) /\ x.ramp = g.ramp
        /\ x.fanBadSince = g.fanBadSince
        /\ x.currentLowSince = low /\ x.currentHighSince = high
        /\ x.active = g.active \cup raised
    BY <1>5 DEF FanGroups, SameDeadlines
  <2>2. QED
    BY <2>1, <1>2 DEF CurrentTimed, x
<1>6. QED
  BY <1>1, <1>3, <1>4, <1>5

LEMMA ProtectSlowFanDeadlines ==
  ASSUME NEW g \in FanGroups, NEW t \in Times
  PROVE  LET x == ProtectSlowFan(g, t)
         IN  /\ SameDeadlines(x, g) /\ SameTimers(x, g) /\ x.active = g.active
             /\ OnRamp(g) => OnRamp(x)
             /\ IF g.mode = "Automatic" /\ \E f \in Fans : FanSlow(f) \in g.active
                  THEN x.mode = "Failsafe" /\ x.duty = FullDuty
                  ELSE x.mode = g.mode /\ x.duty = g.duty
<1>1. RampReset(FullDuty, t).duty = FullDuty
  BY RampResetType, RampAssumption DEF Duties
<1>2. QED
  BY <1>1 DEF ProtectSlowFan, FanGroups, SameDeadlines, SameTimers, OnRamp

(* One control update and its deadlines: an override ends when it expires and not
   before; only that and a group at rest begin a boost; a boost and the rest of a
   group end when their deadline is reached; faults come from their timers. *)
Punctual(x, g, c, k, t, in) ==
  /\ OnRamp(x)
  /\ IF Expires(g, t) THEN x.overrideMode = "Automatic" /\ x.overrideUntil = 0
     ELSE x.overrideMode = g.overrideMode /\ x.overrideUntil = g.overrideUntil
  /\ \/ x.startupUntil = g.startupUntil
     \/ /\ x.startupUntil = TimeAdd(t, StartupTime(c, k))
        /\ x.overrideMode = "Automatic" /\ (Expires(g, t) \/ g.duty = 0)
  /\ x.mode = "Full" /\ x.overrideMode = "Automatic" => ~TimeReached(t, x.startupUntil)
  /\ x.mode = "Automatic" /\ OnRamp(g) /\ g.duty = 0 /\ x.duty # 0 =>
       TimeReached(t, TimeAdd(t, StartupTime(c, k)))
  /\ FanTimed(x, g, c, t, in) /\ CurrentTimed(x, g, c, t, in)
  /\ \A f \in Fans : FanSlow(f) \in x.active =>
       \/ x.duty = FullDuty
       \/ x.mode = "Full" /\ x.overrideMode = "Automatic"

LEMMA ControlUpdateDeadlines ==
  ASSUME NEW g \in FanGroups, NEW c \in GroupConfigs, NEW k \in GroupCalibrations,
         NEW t \in Times, NEW in \in GroupInputs
  PROVE  Punctual(ControlUpdate(g, c, k, t, in), g, c, k, t, in)
<1> DEFINE read     == ReadTemperature(g, c)
           expired  == ExpireOverride(read, c, k, t)
           stopping == AutoStop(expired, c, k)
           noStop   == UnsupportedStop(expired, c, k)
           prepared == PrepareRun(expired, c, k, t)
           chosen   == ChooseMode(prepared, c, k, t, in, stopping, noStop)
           output   == RampOutput(chosen, c, k, t)
           fans     == UpdateFanFaults(output, c, k, t, in)
           current  == UpdateCurrentFaults(fans, c, k, t, in)
           x        == ProtectSlowFan(current, t)
           boost    == TimeAdd(t, StartupTime(c, k))
<1>0. ControlUpdate(g, c, k, t, in) = x
  BY DEF ControlUpdate
<1>1. /\ read \in FanGroups /\ SameDeadlines(read, g) /\ SameTimers(read, g)
      /\ read.duty = g.duty /\ read.ramp = g.ramp
      /\ read.active \subseteq TemperatureFaults
  BY ReadTemperatureType, ReadTemperatureDeadlines
<1> HIDE DEF read
<1>2. /\ expired \in FanGroups /\ SameReading(expired, read) /\ expired.active = read.active
      /\ SameTimers(expired, read) /\ expired.duty = read.duty /\ expired.ramp = read.ramp
      /\ IF Expires(read, t)
           THEN /\ expired.overrideMode = "Automatic" /\ expired.overrideUntil = 0
                /\ expired.startupUntil = boost
           ELSE SameDeadlines(expired, read)
  BY <1>1, ExpireOverrideType, ExpireOverrideDeadlines
<1> HIDE DEF expired
<1>3. /\ prepared \in FanGroups /\ SameReading(prepared, expired)
      /\ prepared.active = expired.active
      /\ SameTimers(prepared, expired) /\ prepared.duty = expired.duty
      /\ prepared.ramp = expired.ramp
      /\ prepared.overrideMode = expired.overrideMode
      /\ prepared.overrideUntil = expired.overrideUntil
      /\ prepared.startupUntil =
           IF /\ expired.temperatureValid /\ ~stopping
              /\ expired.overrideMode = "Automatic" /\ expired.duty = 0
             THEN boost ELSE expired.startupUntil
  BY <1>2, PrepareRunType, PrepareRunDeadlines
<1>4. stopping \in BOOLEAN /\ noStop \in BOOLEAN
  BY DEF AutoStop, UnsupportedStop
<1> HIDE DEF prepared, stopping, noStop
<1>5. /\ chosen \in FanGroups /\ chosen.active = prepared.active
      /\ SameDeadlines(chosen, prepared) /\ SameTimers(chosen, prepared)
      /\ chosen.ramp = prepared.ramp
      /\ chosen.mode = "Failsafe" => chosen.duty = FullDuty
      /\ chosen.mode = "Full" =>
           \/ chosen.duty = FullDuty /\ prepared.overrideMode # "Automatic"
           \/ prepared.overrideMode = "Automatic" /\ ~TimeReached(t, prepared.startupUntil)
      /\ chosen.mode = "Automatic" =>
           \/ stopping /\ chosen.duty = 0
           \/ /\ ~stopping
              /\ prepared.temperatureValid /\ prepared.overrideMode = "Automatic"
              /\ TimeReached(t, prepared.startupUntil)
      /\ chosen.mode \in {"Failsafe", "Full", "Automatic", "Calibration", "Manual", "Off"}
  BY <1>3, <1>4, ChooseModeType, ChooseModeDeadlines
<1> HIDE DEF chosen
<1>6. /\ output \in FanGroups /\ output.active = chosen.active /\ output.mode = chosen.mode
      /\ SameDeadlines(output, chosen) /\ SameTimers(output, chosen) /\ OnRamp(output)
      /\ chosen.mode # "Automatic" => output.duty = chosen.duty
      /\ chosen.mode = "Automatic" /\ chosen.duty = 0 /\ chosen.ramp.duty = 0 =>
           output.duty = 0
  BY <1>5, RampOutputType, RampOutputDeadlines
<1> HIDE DEF output
<1>7. /\ fans \in FanGroups /\ fans.mode = output.mode /\ fans.duty = output.duty
      /\ SameDeadlines(fans, output) /\ fans.ramp = output.ramp
      /\ fans.currentLowSince = output.currentLowSince
      /\ fans.currentHighSince = output.currentHighSince
      /\ fans.active \cap {"CurrentLow", "CurrentHigh"} = {}
      /\ FanTimed(fans, output, c, t, in)
      /\ \A f \in Fans : FanSlow(f) \in fans.active =>
           output.mode \notin {"Calibration", "Manual", "Off"}
  <2>1. output.active \subseteq TemperatureFaults
    BY <1>1, <1>2, <1>3, <1>5, <1>6
  <2>2. QED
    BY <2>1, <1>6, UpdateFanFaultsType, UpdateFanFaultsDeadlines
<1> HIDE DEF fans
<1>8. /\ current \in FanGroups /\ current.mode = fans.mode /\ current.duty = fans.duty
      /\ SameDeadlines(current, fans) /\ current.ramp = fans.ramp
      /\ current.fanBadSince = fans.fanBadSince
      /\ CurrentTimed(current, fans, c, t, in)
      /\ \A f \in Fans : FanSlow(f) \in current.active => FanSlow(f) \in fans.active
  BY <1>7, UpdateCurrentFaultsType, UpdateCurrentFaultsDeadlines
<1> HIDE DEF current
<1>9. /\ SameDeadlines(x, current) /\ SameTimers(x, current) /\ x.active = current.active
      /\ OnRamp(current) => OnRamp(x)
      /\ IF current.mode = "Automatic" /\ \E f \in Fans : FanSlow(f) \in current.active
           THEN x.mode = "Failsafe" /\ x.duty = FullDuty
           ELSE x.mode = current.mode /\ x.duty = current.duty
  BY <1>8, ProtectSlowFanDeadlines
<1> HIDE DEF x
<1>10. SameDeadlines(x, prepared)
  BY <1>5, <1>6, <1>7, <1>8, <1>9 DEF SameDeadlines
<1>11. Expires(read, t) = Expires(g, t)
  BY <1>1 DEF Expires, SameDeadlines
<1>12. OnRamp(x)
  BY <1>6, <1>7, <1>8, <1>9 DEF OnRamp
<1>13. IF Expires(g, t) THEN x.overrideMode = "Automatic" /\ x.overrideUntil = 0
       ELSE x.overrideMode = g.overrideMode /\ x.overrideUntil = g.overrideUntil
  BY <1>1, <1>2, <1>3, <1>10, <1>11 DEF SameDeadlines
<1>14. \/ x.startupUntil = g.startupUntil
       \/ /\ x.startupUntil = boost
          /\ x.overrideMode = "Automatic" /\ (Expires(g, t) \/ g.duty = 0)
  BY <1>1, <1>2, <1>3, <1>10, <1>11 DEF SameDeadlines
<1>15. x.mode = "Full" /\ x.overrideMode = "Automatic" => ~TimeReached(t, x.startupUntil)
  BY <1>5, <1>6, <1>7, <1>8, <1>9, <1>10 DEF SameDeadlines
<1>16. ASSUME x.mode = "Automatic", OnRamp(g), g.duty = 0, x.duty # 0
       PROVE  TimeReached(t, boost)
  <2>1. chosen.mode = "Automatic" /\ x.duty = output.duty
    BY <1>16, <1>6, <1>7, <1>8, <1>9
  <2>2. chosen.ramp.duty = 0 /\ expired.duty = 0
    BY <1>16, <1>1, <1>2, <1>3, <1>5 DEF OnRamp
  <2>3. ~stopping
    BY <1>5, <1>6, <1>16, <2>1, <2>2
  <2>4. expired.temperatureValid /\ expired.overrideMode = "Automatic"
    BY <1>3, <1>5, <2>1, <2>3 DEF SameReading
  <2>5. prepared.startupUntil = boost /\ TimeReached(t, prepared.startupUntil)
    BY <1>3, <1>5, <2>1, <2>2, <2>3, <2>4
  <2>6. QED
    BY <2>5
<1>17. FanTimed(x, g, c, t, in)
  <2>1. x.fanBadSince = fans.fanBadSince /\ output.fanBadSince = g.fanBadSince
    BY <1>1, <1>2, <1>3, <1>5, <1>6, <1>8, <1>9 DEF SameTimers
  <2>2. \A f \in Fans : FanSlow(f) \in x.active => FanSlow(f) \in fans.active
    BY <1>8, <1>9
  <2>3. QED
    BY <1>7, <2>1, <2>2 DEF FanTimed
<1>18. CurrentTimed(x, g, c, t, in)
  <2>1. /\ x.currentLowSince = current.currentLowSince
        /\ x.currentHighSince = current.currentHighSince
        /\ fans.currentLowSince = g.currentLowSince
        /\ fans.currentHighSince = g.currentHighSince
    BY <1>1, <1>2, <1>3, <1>5, <1>6, <1>7, <1>9 DEF SameTimers
  <2>2. QED
    BY <1>8, <1>9, <2>1 DEF CurrentTimed
<1>19. ASSUME NEW f \in Fans, FanSlow(f) \in x.active
       PROVE  \/ x.duty = FullDuty
              \/ x.mode = "Full" /\ x.overrideMode = "Automatic"
  <2>1. FanSlow(f) \in current.active /\ current.mode = chosen.mode
        /\ chosen.mode \in {"Failsafe", "Full", "Automatic"}
    BY <1>19, <1>5, <1>6, <1>7, <1>8, <1>9
  <2>2. CASE chosen.mode = "Automatic"
    BY <1>9, <2>1, <2>2
  <2>3. CASE chosen.mode # "Automatic"
    <3>1. x.mode = chosen.mode /\ x.duty = chosen.duty
      BY <1>6, <1>7, <1>8, <1>9, <2>1, <2>3
    <3>2. x.overrideMode = prepared.overrideMode
      BY <1>10 DEF SameDeadlines
    <3>3. QED
      BY <1>5, <2>1, <2>3, <3>1, <3>2
  <2>4. QED
    BY <2>2, <2>3
<1>20. QED
  BY <1>0, <1>12, <1>13, <1>14, <1>15, <1>16, <1>17, <1>18, <1>19 DEF Punctual

(* A silent host and a disabled group suspend all of it. *)
LEMMA SuspendedUpdate ==
  ASSUME NEW g \in FanGroups, NEW c \in GroupConfigs, NEW k \in GroupCalibrations,
         NEW t \in Times, NEW hostAlarm \in BOOLEAN, NEW in \in GroupInputs,
         hostAlarm \/ ~c.enabled
  PROVE  LET x == Update(g, c, k, t, hostAlarm, in)
         IN  /\ x.mode \in {"Alarm", "Disabled"}
             /\ SameDeadlines(x, g) /\ OnRamp(x) /\ x.active = {}
             /\ \A f \in Fans : x.fanBadSince[f] = 0
             /\ x.currentLowSince = 0 /\ x.currentHighSince = 0
<1>1. RampReset(FullDuty, t).duty = FullDuty /\ RampReset(0, t).duty = 0
  BY RampResetType, RampAssumption DEF Duties
<1>2. /\ ClearFaultTimers(g) \in FanGroups /\ SameDeadlines(ClearFaultTimers(g), g)
      /\ \A f \in Fans : ClearFaultTimers(g).fanBadSince[f] = 0
      /\ ClearFaultTimers(g).currentLowSince = 0
      /\ ClearFaultTimers(g).currentHighSince = 0
  BY TimersType DEF ClearFaultTimers, StopFanTimers, StopCurrentTimers, FanGroups, SameDeadlines
<1>3. QED
  BY <1>1, <1>2 DEF Update, AlarmUpdate, DisabledUpdate, SameDeadlines, OnRamp, FanGroups

-----------------------------------------------------------------------------
(* The other methods and the deadlines. *)

(* Each timer runs on or is stopped. *)
KeepsTimers(x, g) ==
  /\ \A f \in Fans : x.fanBadSince[f] \in {0, g.fanBadSince[f]}
  /\ x.currentLowSince \in {0, g.currentLowSince}
  /\ x.currentHighSince \in {0, g.currentHighSince}

LEMMA SetTemperatureDeadlines ==
  ASSUME NEW g \in FanGroups, NEW temperature, NEW valid
  PROVE  LET x == SetTemperature(g, temperature, valid)
         IN  SameDeadlines(x, g) /\ KeepsTimers(x, g) /\ (OnRamp(g) => OnRamp(x))
BY DEF SetTemperature, FanGroups, SameDeadlines, KeepsTimers, OnRamp

LEMMA SetCalibrationOverrideDeadlines ==
  ASSUME NEW g \in FanGroups, NEW on, NEW duty
  PROVE  LET x == SetCalibrationOverride(g, on, duty)
         IN  SameDeadlines(x, g) /\ KeepsTimers(x, g) /\ (OnRamp(g) => OnRamp(x))
BY DEF SetCalibrationOverride, FanGroups, SameDeadlines, KeepsTimers, OnRamp

LEMMA SynchronizeAppliedDutyDeadlines ==
  ASSUME NEW g \in FanGroups, NEW duty \in Duties, NEW t \in Times
  PROVE  LET x == SynchronizeAppliedDuty(g, duty, t)
         IN  SameDeadlines(x, g) /\ KeepsTimers(x, g) /\ (OnRamp(g) => OnRamp(x))
<1>1. RampReset(duty, t).duty = duty
  BY RampResetType, RampAssumption DEF Duties
<1>2. QED
  BY <1>1 DEF SynchronizeAppliedDuty, FanGroups, SameDeadlines, KeepsTimers, OnRamp

LEMMA SetOverrideDeadlines ==
  ASSUME NEW g \in FanGroups, NEW c \in GroupConfigs, NEW k \in GroupCalibrations,
         NEW mode \in RequestedModes, NEW duty \in Nat, NEW timeout \in Nat, NEW t \in Times
  PROVE  LET x == SetOverride(g, c, k, mode, duty, timeout, t)
         IN  /\ KeepsTimers(x, g) /\ (OnRamp(g) => OnRamp(x))
             /\ x.overrideMode = mode
             /\ mode = "Automatic" =>
                  /\ x.overrideUntil = 0
                  /\ x.startupUntil = TimeAdd(t, StartupTime(c, k))
             /\ mode # "Automatic" =>
                  /\ x.startupUntil = g.startupUntil
                  /\ timeout = 0 => x.overrideUntil = TimeAdd(t, DefaultOverrideTime)
                  /\ timeout # 0 => x.overrideUntil = TimeAdd(t, timeout)
BY DEF SetOverride, FanGroups, KeepsTimers, OnRamp

LEMMA ApplyConfigurationDeadlines ==
  ASSUME NEW g \in FanGroups, NEW c \in GroupConfigs, NEW k, NEW t
  PROVE  LET x == ApplyConfiguration(g, c, k, t)
         IN  /\ KeepsTimers(x, g) /\ (OnRamp(g) => OnRamp(x))
             /\ \/ SameDeadlines(x, g)
                \/ /\ x.overrideMode = "Automatic" /\ x.overrideUntil = 0
                   /\ x.startupUntil = TimeAdd(t, IF c.enabled THEN StartupTime(c, k) ELSE 0)
<1>1. /\ ClearFaultTimers(g) \in FanGroups /\ KeepsTimers(ClearFaultTimers(g), g)
      /\ OnRamp(g) => OnRamp(ClearFaultTimers(g))
  BY TimersType DEF ClearFaultTimers, StopFanTimers, StopCurrentTimers, FanGroups,
                    KeepsTimers, OnRamp
<1>2. QED
  BY <1>1 DEF ApplyConfiguration, FanGroups, SameDeadlines, KeepsTimers, OnRamp

=============================================================================
