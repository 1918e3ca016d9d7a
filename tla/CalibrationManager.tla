------------------------ MODULE CalibrationManager ------------------------
(***************************************************************************)
(* A calibration of one fan group, phase by phase (CalibrationManager):    *)
(* two trials of stopping and starting the fans, two verifications of the  *)
(* start that was found, a search for the duty below which a fan stops,    *)
(* two verifications of the floor, and a sweep of the table.               *)
(*                                                                         *)
(* Module Firmware has one phase for all of this.  Here the fans answer    *)
(* any readings, the passes come at any of the Spacings, and the limit of  *)
(* the run (720 s) may strike at any time, so that nothing rests on it.    *)
(***************************************************************************)
EXTENDS Naturals, Sequences, FiniteSets

CONSTANTS
  Fans,            (* The fans of the group.                               *)
  ExpectedMasks,   (* The sets of fans that a configuration may expect.    *)
  Speeds,          (* What a tachometer may read, in RPM.                  *)
  Turning,         (* A fan turns from this speed on: 300.                 *)
  Tolerance,       (* Readings that differ by more are unstable: 150, up   *)
                   (* to 3000 RPM (above that it is 5% in the code).       *)
  DutyStep,        (* The step of both searches: 5 points.                 *)
  Margin,          (* What is added to a start or a floor: 3 points.       *)
  Intervals,       (* Intervals of the table: 8.                           *)
  MaxFloor,        (* The highest floor that is accepted: 92.              *)
  Spacings,        (* Time between two passes.                             *)
  Interval,        (* Time between two samples: 1 s.                       *)
  ShortSettle,     (* Time before the first sample of a window: 5 s ...    *)
  LongSettle,      (* ... or 8 s.                                          *)
  WindowLimit      (* A window that is not complete by then fails: 18 s.   *)

ASSUME CalibrationAssumption ==
  /\ DutyStep \in 1 .. 100 /\ 100 % DutyStep = 0
  /\ Intervals \in Nat \ {0}
  /\ Spacings \subseteq Nat \ {0}
  /\ ExpectedMasks \subseteq (SUBSET Fans) \ {{}} /\ IsFiniteSet(Fans)
  /\ Speeds \subseteq Nat /\ Turning \in Nat \ {0}
  /\ {Margin, Interval, WindowLimit} \subseteq Nat
  /\ MaxFloor \in Nat /\ MaxFloor + Intervals <= 100  (* Each interval has a point. *)

VARIABLES
  phase, expected,
  stops,             (* Fans not yet seen unable to stop: working_.reserved *)
  started, startDuty, trial, lastRunning, floor, points,
  duty,              (* requestedDuty_                                     *)
  window,            (* The samples of the window, oldest first            *)
  windowAge,         (* Time since the window began ...                    *)
  sampleAge,         (* ... and since the last sample                      *)
  rests, moved       (* History: the windows of this run that measured a   *)
                     (* stop, and the fans that moved in one of them       *)

vars == <<phase, expected, stops, started, startDuty, trial, lastRunning, floor,
          points, duty, window, windowAge, sampleAge, rests, moved>>

working == <<stops, started, startDuty, trial, lastRunning, floor, points, rests, moved>>

Active == {"SpinDown", "StartSearch", "VerifyStop", "StartVerify", "MinimumSearch",
           "RunningBoost", "MinimumVerify", "Sweep"}
Ended  == {"Idle", "Aborted", "Saved", "StorageFailed", "Unstable",
           "InvalidMeasurements", "TimedOut", "PowerUnavailable"}

Readings == [Fans -> Speeds]

Difference(a, b) == IF a > b THEN a - b ELSE b - a
Greatest(S) == CHOOSE x \in S : \A y \in S : x >= y

(* An age beyond the limit that it is compared with is as good as the limit. *)
AgeUpTo(limit, age) == IF age < limit THEN age ELSE limit

-----------------------------------------------------------------------------
(* Beginnings and ends. *)

(* The members are cleared; a fan counts as stopping until it does not. *)
Fresh(mask) ==
  /\ stops' = mask /\ started' = {} /\ startDuty' = [f \in Fans |-> 0]
  /\ trial' = 0 /\ lastRunning' = 100 /\ floor' = 0 /\ points' = <<>>
  /\ rests' = 0 /\ moved' = {}

Init ==
  /\ phase = "Idle" /\ expected \in ExpectedMasks
  /\ stops = {} /\ started = {} /\ startDuty = [f \in Fans |-> 0]
  /\ trial = 0 /\ lastRunning = 100 /\ floor = 0 /\ points = <<>> /\ duty = 100
  /\ window = <<>> /\ windowAge = 0 /\ sampleAge = 0
  /\ rests = 0 /\ moved = {}

(* start(), under the conditions of Firmware!MayStart. *)
Start ==
  /\ phase \in Ended
  /\ expected' \in ExpectedMasks /\ Fresh(expected')
  /\ phase' = "SpinDown" /\ duty' = 0
  /\ window' = <<>> /\ windowAge' = 0 /\ sampleAge' = 0

End(reason) ==
  /\ phase' = reason /\ duty' = 100
  /\ window' = <<>> /\ windowAge' = 0 /\ sampleAge' = 0

(* abort(); what was measured is not read before the next start clears it. *)
Fail(reason) == End(reason) /\ Fresh({}) /\ UNCHANGED expected

(* By the host, or by the loop for Firmware!MustAbort. *)
Abort == phase \in Active /\ Fail("Aborted")

(* update() with the limit of the run reached, or the supply not measured. *)
TimeOut == phase \in Active /\ Fail("TimedOut")
LosePower == phase \in Active /\ Fail("PowerUnavailable")

(* nextPhase(), or resetWindow() in the same phase. *)
Enter(next, d) ==
  /\ phase' = next /\ duty' = d
  /\ window' = <<>> /\ windowAge' = 0 /\ sampleAge' = 0

-----------------------------------------------------------------------------
(* sample() *)

NeedsRunning == phase \in {"Sweep", "StartVerify", "RunningBoost", "MinimumVerify"}

SettleTime == IF phase \in {"Sweep", "SpinDown", "VerifyStop", "MinimumVerify"}
                THEN LongSettle ELSE ShortSettle

AllTurn(r) == \A f \in expected : r[f] >= Turning

Late_RunningFault(age) == age >= WindowLimit /\ NeedsRunning
Late(age) == age >= WindowLimit

(* A fan is off its first sample of the window, or turned then and does not
   now, or the reverse: the window begins again with this reading. *)
Unstable(r) ==
  /\ window # <<>>
  /\ \E f \in expected : \/ Difference(r[f], window[1][f]) > Tolerance
                         \/ (r[f] >= Turning) # (window[1][f] >= Turning)

Sampled(r) ==
  IF NeedsRunning /\ ~AllTurn(r) THEN <<>>
  ELSE IF Unstable(r) THEN <<r>>
  ELSE Append(window, r)

(* The sum of a fan's samples is zero. *)
AtRest(w, f) == \A i \in DOMAIN w : w[i][f] = 0

Coasting_LastFault(w, r) == \E f \in expected : r[f] \in 1 .. Turning - 1

(* Three zero samples are required, not a final zero after coasting. *)
Coasting(w, r) == \E f \in expected : r[f] < Turning /\ ~AtRest(w, f)

-----------------------------------------------------------------------------
(* update(): what a complete window w, whose last reading is r, leads to. *)

(* The fans that turn at 0% cannot be stopped; a later start takes 100%. *)
StopMeasured(w, r) ==
  LET turning == {f \in expected : r[f] # 0}
      starts  == [f \in Fans |-> IF f \in turning THEN 100 ELSE startDuty[f]]
      highest == Greatest({starts[f] : f \in expected})
  IN  IF phase = "VerifyStop" /\ turning \cap stops # {}
        THEN Fail("InvalidMeasurements")
        ELSE /\ stops' = stops \ turning
             /\ started' = started \cup turning
             /\ startDuty' = starts
             /\ rests' = rests + 1
             /\ moved' = moved \cup {f \in expected : ~AtRest(w, f)}
             /\ IF phase = "SpinDown" THEN Enter("StartSearch", DutyStep)
                ELSE Enter("StartVerify", IF highest > 100 - Margin THEN 100
                                                         ELSE highest + Margin)
             /\ UNCHANGED <<expected, trial, lastRunning, floor, points>>

StartMeasured(r) ==
  LET new   == {f \in expected \ started : r[f] >= Turning}
      all   == started \cup new
      again == expected \subseteq all /\ trial = 0
      found == expected \subseteq all /\ trial = 1
  IN  IF ~(expected \subseteq all) /\ duty >= 100
        THEN Fail("InvalidMeasurements")
        ELSE /\ startDuty' = [f \in Fans |-> IF f \in new /\ duty > startDuty[f]
                                               THEN duty ELSE startDuty[f]]
             /\ started' = IF again THEN {} ELSE all
             /\ trial' = IF again THEN 1 ELSE IF found THEN 0 ELSE trial
             /\ IF again THEN Enter("SpinDown", 0)
                ELSE IF found THEN Enter("VerifyStop", 0)
                ELSE Enter("StartSearch", duty + DutyStep)
             /\ UNCHANGED <<expected, stops, lastRunning, floor, points, rests, moved>>

StartVerified ==
  /\ trial' = 1 - trial
  /\ IF trial = 0 THEN Enter("VerifyStop", 0) /\ UNCHANGED lastRunning
                  ELSE Enter("MinimumSearch", 100) /\ lastRunning' = 100
  /\ UNCHANGED <<expected, stops, started, startDuty, floor, points, rests, moved>>

TooHigh(lowest) == lowest > MaxFloor

(* The first fan to stop defines the floor of the group. *)
MinimumMeasured(r) ==
  LET running == AllTurn(r)
      last    == IF running THEN duty ELSE lastRunning
  IN  IF running /\ duty # 1
        THEN /\ lastRunning' = duty
             /\ Enter("MinimumSearch", IF duty > DutyStep THEN duty - DutyStep ELSE 1)
             /\ UNCHANGED <<expected, stops, started, startDuty, trial, floor, points, rests, moved>>
        ELSE IF TooHigh(last + Margin) THEN Fail("InvalidMeasurements")
        ELSE /\ lastRunning' = last /\ floor' = last + Margin
             /\ Enter("RunningBoost", 100)
             /\ UNCHANGED <<expected, stops, started, startDuty, trial, points, rests, moved>>

Boosted == Enter("MinimumVerify", floor) /\ UNCHANGED <<expected, working>>

MinimumVerified ==
  /\ trial' = trial + 1
  /\ Enter(IF trial = 0 THEN "RunningBoost" ELSE "Sweep", 100)
  /\ UNCHANGED <<expected, stops, started, startDuty, lastRunning, floor, points, rests, moved>>

SweepDuty_FloorFault(step) == 100 - ((100 - lastRunning) * step) \div Intervals
SweepDuty(step) == 100 - ((100 - floor) * step) \div Intervals

(* recordSweepPoint(); after the last point the loop saves in the same pass. *)
SweepMeasured ==
  /\ points' = Append(points, duty)
  /\ IF Len(points) < Intervals THEN Enter("Sweep", SweepDuty(Len(points) + 1))
     ELSE End("Saved") \/ End("StorageFailed")
  /\ UNCHANGED <<expected, stops, started, startDuty, trial, lastRunning, floor, rests, moved>>

Conclude(w, r) ==
  \/ phase \in {"SpinDown", "VerifyStop"} /\ StopMeasured(w, r)
  \/ phase = "StartSearch"   /\ StartMeasured(r)
  \/ phase = "StartVerify"   /\ StartVerified
  \/ phase = "MinimumSearch" /\ MinimumMeasured(r)
  \/ phase = "RunningBoost"  /\ Boosted
  \/ phase = "MinimumVerify" /\ MinimumVerified
  \/ phase = "Sweep"         /\ SweepMeasured

(* The window stays open with the samples w, the last of them age sampled ago. *)
Continue(w, age, sampled) ==
  /\ window' = w /\ windowAge' = age /\ sampleAge' = sampled
  /\ UNCHANGED <<phase, expected, duty, working>>

(* A pass d later, with the supply measured and the limit of the run far. *)
Update(d, r) ==
  LET age     == AgeUpTo(WindowLimit, windowAge + d)
      sampled == AgeUpTo(Interval, sampleAge + d)
      w       == Sampled(r)
  IN  /\ phase \in Active
      /\ IF Late(age)
           THEN Fail(IF NeedsRunning /\ ~AllTurn(r) THEN "InvalidMeasurements"
                                                    ELSE "Unstable")
         ELSE IF age < SettleTime \/ sampled < Interval
           THEN Continue(window, age, sampled)
         ELSE IF Len(w) < 3 THEN Continue(w, age, 0)
         ELSE IF phase \in {"SpinDown", "VerifyStop"} /\ Coasting(w, r)
           THEN Continue(<<>>, age, 0)
         ELSE Conclude(w, r)

Pass == \E d \in Spacings, r \in Readings : Update(d, r)

Next == Start \/ Abort \/ TimeOut \/ LosePower \/ Pass

(* The loop never stops making passes. *)
Spec == Init /\ [][Next]_vars /\ WF_vars(Pass)

-----------------------------------------------------------------------------
TypeOK ==
  /\ phase \in Active \cup Ended /\ expected \in ExpectedMasks
  /\ stops \in SUBSET Fans /\ started \in SUBSET Fans /\ moved \in SUBSET Fans
  /\ startDuty \in [Fans -> 0 .. 100] /\ trial \in 0 .. 2
  /\ {duty, lastRunning} \subseteq 0 .. 100 /\ floor \in 0 .. MaxFloor
  /\ points \in Seq(0 .. 100) /\ window \in Seq(Readings) /\ Len(window) <= 2
  /\ windowAge \in 0 .. WindowLimit /\ sampleAge \in 0 .. Interval /\ rests \in 0 .. 4

(* A table allows a fan to be stopped only if it was at rest, in three samples
   each time, in both trials and both verifications; and it holds a start for
   every fan that is expected. *)
StopsWereSeen ==
  phase = "Saved" =>
    \A f \in expected : startDuty[f] > 0 /\ (f \in stops => rests = 4 /\ f \notin moved)

(* A table that is saved is complete and its duties fall strictly from 100% to
   the floor: expectedRpm and its neighbours interpolate between them. *)
TableDescends ==
  phase = "Saved" =>
    /\ Len(points) = Intervals + 1
    /\ points[1] = 100 /\ points[Intervals + 1] = floor
    /\ \A i \in 1 .. Intervals : points[i] > points[i + 1]

(* A calibration ends, whatever the fans do, by the deadlines of its windows
   alone: coasting, unstable and stalled fans cannot hold it. *)
RunEnds == (phase \in Active) ~> (phase \in Ended)
=============================================================================
