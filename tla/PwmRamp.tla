------------------------------ MODULE PwmRamp ------------------------------
(***************************************************************************)
(* PwmRamp: the rate limiter of automatic control.  The duty moves towards *)
(* its target by whole percentage points; time too short for a point is    *)
(* kept as credit, CreditUnit of which buy one point.                      *)
(***************************************************************************)
EXTENDS McuTime

CONSTANTS
  FullDuty,     (* 100 percent.                                            *)
  CreditUnit,   (* 1000: rates are percentage points per 1000 ms.          *)
  UpRate,       (* 10.                                                     *)
  DownRate,     (* 3.                                                      *)
  ElapsedCap    (* 40000 ms: "bound arithmetic after long gaps".           *)

ASSUME RampAssumption ==
  /\ FullDuty \in Nat \ {0}
  /\ CreditUnit \in Nat \ {0}
  /\ UpRate \in Nat \ {0}
  /\ DownRate \in Nat \ {0}
  /\ ElapsedCap \in Nat

Duties == 0 .. FullDuty

Ramps == [duty : Duties, target : Duties, last : Times,
          credit : 0 .. CreditUnit - 1]

Capped(x, cap) == IF x > cap THEN cap ELSE x

(* reset: the output is set, not approached. *)
RampReset(duty, now) ==
  [duty |-> Capped(duty, FullDuty), target |-> Capped(duty, FullDuty),
   last |-> now, credit |-> 0]

Settled(r) == r.duty = r.target

Discards_NeverFault(r, target) == FALSE

(* A new target drops the time and the credit of the old one when the ramp was
   settled or the direction reverses. *)
Discards(r, target) ==
  /\ target # r.target
  /\ Settled(r) \/ ((target > r.duty) # (r.target > r.duty))

KeptCredit_NoneFault(budget) == 0

(* The credit that is left when only whole points are taken from the budget. *)
KeptCredit(budget) == budget % CreditUnit

(* step: move towards target for the time since the last step. *)
RampStep(r, asked, now) ==
  LET target  == Capped(asked, FullDuty)
      elapsed == IF Discards(r, target) THEN 0 ELSE Elapsed(now, r.last)
      credit  == IF Discards(r, target) THEN 0 ELSE r.credit
      rising  == target > r.duty
      budget  == credit + Capped(elapsed, ElapsedCap)
                            * (IF rising THEN UpRate ELSE DownRate)
      steps   == budget \div CreditUnit
      away    == IF rising THEN target - r.duty ELSE r.duty - target
  IN  IF steps >= away
        THEN [duty |-> target, target |-> target, last |-> now, credit |-> 0]
        ELSE [duty   |-> IF rising THEN r.duty + steps ELSE r.duty - steps,
              target |-> target,
              last   |-> now,
              credit |-> KeptCredit(budget)]

=============================================================================
