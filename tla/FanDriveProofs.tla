--------------------------- MODULE FanDriveProofs ---------------------------
(***************************************************************************)
(* The two parts that give a fan its duty.  The rates of the ramp, for     *)
(* every rate, unit of credit, cap on elapsed time and spacing of passes,  *)
(* with a clock that wraps; and what a calibration may save, for every     *)
(* fan, interval, window of speeds and deadline.                           *)
(***************************************************************************)
EXTENDS RampDriver, CalibrationManager, WellFoundedInduction, TLAPS

-----------------------------------------------------------------------------
(* The ramp. *)


(* Sums and differences of times are times. *)
LEMMA TimesClosed ==
  ASSUME NEW a \in Int, NEW b \in Int
  PROVE  TimeAdd(a, b) \in Times /\ Elapsed(a, b) \in Times
BY TimeAssumption DEF Times, TimeAdd, Elapsed

LEMMA RampResetType ==
  ASSUME NEW level \in Nat, NEW at \in Times
  PROVE  /\ RampReset(level, at) \in Ramps
         /\ level \in Duties => RampReset(level, at).duty = level
BY RampAssumption DEF RampReset, Ramps, Duties, Capped

(* A step ends on the way from where the ramp was to its target. *)
LEMMA RampStepType ==
  ASSUME NEW r \in Ramps, NEW asked \in Duties, NEW at \in Times
  PROVE  /\ RampStep(r, asked, at) \in Ramps
         /\ r.duty <= asked => RampStep(r, asked, at).duty \in r.duty .. asked
         /\ r.duty >= asked => RampStep(r, asked, at).duty \in asked .. r.duty
<1> DEFINE target  == Capped(asked, FullDuty)
           elapsed == IF Discards(r, target) THEN 0 ELSE Elapsed(at, r.last)
           credit  == IF Discards(r, target) THEN 0 ELSE r.credit
           rising  == target > r.duty
           budget  == credit + Capped(elapsed, ElapsedCap)
                                 * (IF rising THEN UpRate ELSE DownRate)
           steps   == budget \div CreditUnit
           away    == IF rising THEN target - r.duty ELSE r.duty - target
<1>1. target = asked /\ r.duty \in Duties /\ r.last \in Times /\ r.credit \in Nat
  BY RampAssumption DEF Duties, Capped, Ramps
<1>2. budget \in Nat
  <2>1. Elapsed(at, r.last) \in Nat
    <3>1. at \in Int /\ r.last \in Int /\ Times \subseteq Nat
      BY <1>1, TimeAssumption DEF Times
    <3>2. QED
      BY <3>1, TimesClosed
  <2>2. Capped(elapsed, ElapsedCap) \in Nat /\ credit \in Nat
    BY <1>1, <2>1, RampAssumption DEF Capped
  <2>3. (IF rising THEN UpRate ELSE DownRate) \in Nat
    BY RampAssumption
  <2> HIDE DEF credit, elapsed, rising
  <2>4. QED
    BY <2>2, <2>3
<1> HIDE DEF budget
<1>3. steps \in Nat /\ KeptCredit(budget) \in 0 .. CreditUnit - 1
  BY <1>2, RampAssumption DEF KeptCredit
<1>4. RampStep(r, asked, at) =
        IF steps >= away
          THEN [duty |-> target, target |-> target, last |-> at, credit |-> 0]
          ELSE [duty   |-> IF rising THEN r.duty + steps ELSE r.duty - steps,
                target |-> target, last |-> at, credit |-> KeptCredit(budget)]
  BY DEF RampStep, budget
<1> HIDE DEF steps, target
<1>5. CASE steps >= away
  BY <1>1, <1>4, <1>5, RampAssumption DEF Ramps, Duties
<1>6. CASE ~(steps >= away)
  BY <1>1, <1>3, <1>4, <1>6, RampAssumption DEF Ramps, Duties
<1>7. QED
  BY <1>5, <1>6

LEMMA ProductMonotone ==
  ASSUME NEW m \in Nat, NEW a \in Int, NEW b \in Int, a <= b
  PROVE  m * a <= m * b
OBVIOUS

LEMMA ModUnique ==
  ASSUME NEW x \in Int, NEW m \in Nat \ {0}, NEW d \in Int, NEW r \in 0 .. m - 1,
         x = m * d + r
  PROVE  x % m = r
<1> DEFINE e == x \div m
           s == x % m
<1>1. e \in Int /\ s \in 0 .. m - 1 /\ x = m * e + s
  OBVIOUS
<1> HIDE DEF e, s
<1>2. CASE d <= e - 1
  <2>1. m * d <= m * (e - 1)
    BY <1>1, <1>2, ProductMonotone
  <2>2. m * (e - 1) = m * e - m
    BY <1>1
  <2>3. QED
    BY <1>1, <2>1, <2>2
<1>3. CASE e <= d - 1
  <2>1. m * e <= m * (d - 1)
    BY <1>1, <1>3, ProductMonotone
  <2>2. m * (d - 1) = m * d - m
    OBVIOUS
  <2>3. QED
    BY <1>1, <2>1, <2>2
<1>4. CASE d = e
  BY <1>1, <1>4 DEF s
<1>5. QED
  BY <1>1, <1>2, <1>3, <1>4

(* The time between two passes is what has passed, or less: the clock may have
   wrapped in between, and more than once. *)
LEMMA ElapsedIsGap ==
  ASSUME NEW since \in Times, NEW gap \in Nat
  PROVE  Elapsed(TimeAdd(since, gap), since) \in 0 .. gap
<1> DEFINE m == TimeModulus
           sum == since + gap
           q == sum \div m
           s == sum % m
           d == gap \div m
           r == gap % m
<1>1. m \in Nat \ {0} /\ since \in Nat /\ sum \in Nat
  BY TimeAssumption DEF Times
<1> HIDE DEF m
<1>2. q \in Int /\ s \in Int /\ sum = m * q + s
  <2> HIDE DEF sum
  <2>1. QED
    BY <1>1
<1>3. d \in Int /\ r \in 0 .. m - 1 /\ gap = m * d + r
  BY <1>1
<1>4. r <= gap
  BY <1>1
<1>5. s - since = m * (d - q) + r
  <2> HIDE DEF q, s, d, r
  <2>1. m * (d - q) = m * d - m * q
    BY <1>1, <1>2, <1>3
  <2>2. QED
    BY <1>1, <1>2, <1>3, <2>1
<1> HIDE DEF q, s, d, r
<1>6. (s - since) % m = r
  BY <1>1, <1>2, <1>3, <1>5, ModUnique
<1>7. QED
  BY <1>3, <1>4, <1>6 DEF Elapsed, TimeAdd, m, s

-----------------------------------------------------------------------------
(* The credit that counts for rising and for falling. *)
RiseCredit(r) == IF r.target > r.duty THEN r.credit ELSE 0
FallCredit(r) == IF r.target < r.duty THEN r.credit ELSE 0

Rise(r, next) == IF next.duty > r.duty THEN next.duty - r.duty ELSE 0
Fall(r, next) == IF next.duty < r.duty THEN r.duty - next.duty ELSE 0

(* The budget of a step is what it was credited and what the rate allows for the
   time; it pays for the points that the duty moves and for the credit that is kept. *)
LEMMA Budget ==
  ASSUME NEW credit \in Nat, NEW time \in Nat, NEW gap \in Nat, time <= gap,
         NEW rate \in Nat, NEW away \in Nat
  PROVE  LET budget == credit + time * rate
             steps  == budget \div CreditUnit
         IN  /\ steps \in Nat /\ KeptCredit(budget) \in Nat
             /\ steps * CreditUnit + KeptCredit(budget) <= credit + rate * gap
             /\ steps >= away => away * CreditUnit <= credit + rate * gap
<1> DEFINE budget == credit + time * rate
           steps  == budget \div CreditUnit
           kept   == budget % CreditUnit
<1>1. CreditUnit \in Nat \ {0}
  BY RampAssumption
<1>2. budget \in Nat /\ budget <= credit + rate * gap
  <2>1. time * rate \in Nat /\ rate * time <= rate * gap /\ rate * time = time * rate
    BY ProductMonotone
  <2>2. rate * gap \in Nat
    OBVIOUS
  <2>3. QED
    BY <2>1, <2>2
<1> HIDE DEF budget
<1>3. steps \in Nat /\ kept \in Nat /\ budget = CreditUnit * steps + kept
  BY <1>1, <1>2
<1>4. steps * CreditUnit = CreditUnit * steps /\ away * CreditUnit = CreditUnit * away
  BY <1>1, <1>3
<1>5. ASSUME steps >= away PROVE CreditUnit * away <= CreditUnit * steps
  BY <1>1, <1>3, <1>5, ProductMonotone
<1>6. /\ CreditUnit * steps \in Int /\ CreditUnit * away \in Int
      /\ rate * gap \in Int
  BY <1>1, <1>3
<1> HIDE DEF steps, kept
<1>7. /\ steps * CreditUnit + kept <= credit + rate * gap
      /\ steps >= away => away * CreditUnit <= credit + rate * gap
  BY <1>2, <1>3, <1>4, <1>5, <1>6
<1>8. QED
  BY <1>3, <1>7 DEF KeptCredit, budget, steps, kept

WithinRates(r, next, t, gap) ==
  /\ Rise(r, next) * CreditUnit + RiseCredit(next) <= RiseCredit(r) + UpRate * gap
  /\ Fall(r, next) * CreditUnit + FallCredit(next) <= FallCredit(r) + DownRate * gap
  /\ next.last = t

(* A step rises and falls within the rates, at the cost of the credit. *)
LEMMA StepWithinRates ==
  ASSUME NEW r \in Ramps, NEW asked \in Duties, NEW t \in Times, NEW gap \in Nat,
         Elapsed(t, r.last) \in 0 .. gap
  PROVE  WithinRates(r, RampStep(r, asked, t), t, gap)
<1> DEFINE drops   == Discards(r, asked)
           elapsed == IF drops THEN 0 ELSE Elapsed(t, r.last)
           credit  == IF drops THEN 0 ELSE r.credit
           rising  == asked > r.duty
           rate    == IF rising THEN UpRate ELSE DownRate
           time    == Capped(elapsed, ElapsedCap)
           budget  == credit + time * rate
           steps   == budget \div CreditUnit
           away    == IF rising THEN asked - r.duty ELSE r.duty - asked
           next    == RampStep(r, asked, t)
<1>1. /\ Capped(asked, FullDuty) = asked /\ asked \in Nat /\ r.duty \in Nat
      /\ r.credit \in Nat /\ r.target \in Nat
  BY RampAssumption DEF Duties, Capped, Ramps
<1>2. next = IF steps >= away
               THEN [duty |-> asked, target |-> asked, last |-> t, credit |-> 0]
               ELSE [duty   |-> IF rising THEN r.duty + steps ELSE r.duty - steps,
                     target |-> asked, last |-> t, credit |-> KeptCredit(budget)]
  BY <1>1 DEF RampStep
<1>3. time \in Nat /\ time <= gap /\ credit \in Nat /\ away \in Nat /\ rate \in Nat
  BY <1>1, RampAssumption DEF Capped
<1>4. /\ steps \in Nat /\ KeptCredit(budget) \in Nat
      /\ steps * CreditUnit + KeptCredit(budget) <= credit + rate * gap
      /\ steps >= away => away * CreditUnit <= credit + rate * gap
  <2> HIDE DEF time, credit, away, rate
  <2>1. QED
    BY <1>3, Budget
<1>5. /\ UpRate * gap \in Nat /\ DownRate * gap \in Nat /\ CreditUnit \in Nat
      /\ 0 * CreditUnit = 0
  BY RampAssumption
<1>6. next.last = t
  BY <1>2
<1>7. /\ rising => credit <= RiseCredit(r)
      /\ ~rising /\ asked # r.duty => credit <= FallCredit(r)
  BY <1>1 DEF Discards, Settled, RiseCredit, FallCredit
<1>8. RiseCredit(r) \in Nat /\ FallCredit(r) \in Nat
  BY <1>1 DEF RiseCredit, FallCredit
<1> HIDE DEF steps, budget, credit, next, time, elapsed, drops
<1> SUFFICES WithinRates(r, next, t, gap)
  BY DEF next
<1> USE DEF WithinRates
<1>9. CASE rising
  <2>1. rate = UpRate /\ away = asked - r.duty
    BY <1>9
  <2>2. CASE steps >= away
    <3>1. Rise(r, next) = away /\ Fall(r, next) = 0 /\ RiseCredit(next) = 0 /\ FallCredit(next) = 0
      BY <1>1, <1>2, <1>9, <2>2 DEF Rise, Fall, RiseCredit, FallCredit
    <3>2. QED
      BY <1>3, <1>4, <1>5, <1>6, <1>7, <1>8, <1>9, <2>1, <2>2, <3>1
  <2>3. CASE ~(steps >= away)
    <3>1. /\ Rise(r, next) = steps /\ Fall(r, next) = 0
          /\ RiseCredit(next) = KeptCredit(budget) /\ FallCredit(next) = 0
      BY <1>1, <1>2, <1>4, <1>9, <2>3 DEF Rise, Fall, RiseCredit, FallCredit
    <3>2. QED
      BY <1>3, <1>4, <1>5, <1>6, <1>7, <1>8, <1>9, <2>1, <3>1
  <2>4. QED
    BY <2>2, <2>3
<1>10. CASE asked = r.duty
  <2>1. /\ Rise(r, next) = 0 /\ Fall(r, next) = 0
        /\ RiseCredit(next) = 0 /\ FallCredit(next) = 0
    BY <1>1, <1>2, <1>4, <1>10 DEF Rise, Fall, RiseCredit, FallCredit
  <2>2. QED
    BY <1>5, <1>6, <1>8, <2>1
<1>11. CASE ~rising /\ asked # r.duty
  <2>1. rate = DownRate /\ away = r.duty - asked
    BY <1>11
  <2>2. CASE steps >= away
    <3>1. Fall(r, next) = away /\ Rise(r, next) = 0 /\ RiseCredit(next) = 0 /\ FallCredit(next) = 0
      BY <1>1, <1>2, <1>11, <2>2 DEF Rise, Fall, RiseCredit, FallCredit
    <3>2. QED
      BY <1>3, <1>4, <1>5, <1>6, <1>7, <1>8, <1>11, <2>1, <2>2, <3>1
  <2>3. CASE ~(steps >= away)
    <3>1. /\ Fall(r, next) = steps /\ Rise(r, next) = 0
          /\ FallCredit(next) = KeptCredit(budget) /\ RiseCredit(next) = 0
      BY <1>1, <1>2, <1>4, <1>11, <2>3 DEF Rise, Fall, RiseCredit, FallCredit
    <3>2. QED
      BY <1>3, <1>4, <1>5, <1>6, <1>7, <1>8, <1>11, <2>1, <3>1
  <2>4. QED
    BY <2>2, <2>3
<1>12. QED
  BY <1>9, <1>10, <1>11

-----------------------------------------------------------------------------
(* What the observed movement has cost, with the credit that is left, is within the
   rates; an observation may begin with credit below one point. *)
Paid ==
  /\ observed.rise * CreditUnit + RiseCredit(ramp) < UpRate * observed.time + CreditUnit
  /\ observed.fall * CreditUnit + FallCredit(ramp) < DownRate * observed.time + CreditUnit

RampInv == RampTypeOK /\ ramp.last = now /\ Paid

LEMMA CreditBounds ==
  ASSUME NEW r \in Ramps
  PROVE  RiseCredit(r) \in 0 .. CreditUnit - 1 /\ FallCredit(r) \in 0 .. CreditUnit - 1
BY RampAssumption DEF RiseCredit, FallCredit, Ramps, Duties

LEMMA NewWindowPaid ==
  ASSUME ramp \in Ramps, observed = NewWindow
  PROVE  Paid
BY CreditBounds, RampAssumption DEF Paid, NewWindow

LEMMA RampInitInv == RampInit => RampInv
<1> SUFFICES ASSUME RampInit PROVE RampInv
  OBVIOUS
<1>1. 0 \in Times /\ FullDuty \in Duties /\ FullDuty \in Nat
  BY TimeAssumption, RampAssumption DEF Times, Duties
<1>2. ramp \in Ramps /\ ramp.last = now
  BY <1>1, RampResetType DEF RampInit, RampReset
<1>3. Paid
  BY <1>2, NewWindowPaid DEF RampInit
<1>4. RampTypeOK
  <2>1. observed \in [time : 0 .. MaxWindow, rise : Nat, fall : Nat]
    BY DriverAssumption DEF RampInit, NewWindow
  <2>2. now \in Times /\ goal \in Duties /\ steady \in BOOLEAN
    BY <1>1 DEF RampInit
  <2>3. QED
    BY <1>2, <2>1, <2>2 DEF RampTypeOK
<1>5. QED
  BY <1>2, <1>3, <1>4 DEF RampInv

LEMMA RampPassInv ==
  ASSUME RampInv, NEW gap \in Gaps, RampPass(gap)
  PROVE  RampInv'
<1> DEFINE t    == TimeAdd(now, gap)
           next == RampStep(ramp, goal, t)
<1>1. gap \in Nat /\ now \in Times /\ now \in Int /\ ramp \in Ramps /\ goal \in Duties
  BY DriverAssumption, TimeAssumption DEF RampInv, RampTypeOK, Times
<1>2. t \in Times
  BY <1>1, TimesClosed
<1>3. Elapsed(t, ramp.last) \in 0 .. gap
  BY <1>1, ElapsedIsGap DEF RampInv
<1> HIDE DEF t
<1>4. next \in Ramps
  BY <1>1, <1>2, RampStepType
<1>5. WithinRates(ramp, next, t, gap)
  BY <1>1, <1>2, <1>3, StepWithinRates
<1> DEFINE rise == Rise(ramp, next)
           fall == Fall(ramp, next)
<1>6. rise \in Nat /\ fall \in Nat
  BY <1>1, <1>4 DEF Rise, Fall, Ramps, Duties
<1>7. /\ now' = t /\ ramp' = next
      /\ observed' = IF observed.time + gap > MaxWindow THEN NewWindow
                   ELSE [time |-> observed.time + gap, rise |-> observed.rise + rise,
                         fall |-> observed.fall + fall]
      /\ UNCHANGED <<goal, steady>>
  BY DEF RampPass, t, Rise, Fall
<1>8. observed \in [time : 0 .. MaxWindow, rise : Nat, fall : Nat] /\ MaxWindow \in Nat
  BY DriverAssumption DEF RampInv, RampTypeOK
<1> HIDE DEF next
<1>9. RampTypeOK'
  <2> HIDE DEF rise, fall
  <2>1. observed' \in [time : 0 .. MaxWindow, rise : Nat, fall : Nat]
    BY <1>1, <1>6, <1>7, <1>8 DEF NewWindow
  <2>2. QED
    BY <1>2, <1>4, <1>7, <2>1 DEF RampInv, RampTypeOK
<1>10. Paid'
  <2>1. CASE observed.time + gap > MaxWindow
    <3>1. ramp' \in Ramps /\ observed' = NewWindow
      BY <1>4, <1>7, <2>1
    <3>2. RiseCredit(next) \in 0 .. CreditUnit - 1 /\ FallCredit(next) \in 0 .. CreditUnit - 1
      BY <1>4, CreditBounds
    <3>3. QED
      BY <1>7, <3>1, <3>2, RampAssumption DEF Paid, NewWindow, RiseCredit, FallCredit
  <2>2. CASE ~(observed.time + gap > MaxWindow)
    <3> DEFINE R == observed.rise  F == observed.fall  W == observed.time
    <3>1. R \in Nat /\ F \in Nat /\ W \in Nat
      BY <1>8
    <3>2. observed'.time = W + gap /\ observed'.rise = R + rise /\ observed'.fall = F + fall
      BY <1>7, <2>2
    <3> HIDE DEF R, F, W, rise, fall
    <3>3. /\ (R + rise) * CreditUnit = R * CreditUnit + rise * CreditUnit
          /\ (F + fall) * CreditUnit = F * CreditUnit + fall * CreditUnit
          /\ UpRate * (W + gap) = UpRate * W + UpRate * gap
          /\ DownRate * (W + gap) = DownRate * W + DownRate * gap
          /\ R * CreditUnit \in Int /\ rise * CreditUnit \in Int
          /\ F * CreditUnit \in Int /\ fall * CreditUnit \in Int
          /\ UpRate * W \in Int /\ UpRate * gap \in Int
          /\ DownRate * W \in Int /\ DownRate * gap \in Int
          /\ CreditUnit \in Int
      BY <1>1, <1>6, <3>1, RampAssumption
    <3>4. /\ RiseCredit(ramp) \in Int /\ FallCredit(ramp) \in Int
          /\ RiseCredit(next) \in Int /\ FallCredit(next) \in Int
      BY <1>1, <1>4, CreditBounds
    <3>5. /\ R * CreditUnit + RiseCredit(ramp) < UpRate * W + CreditUnit
          /\ F * CreditUnit + FallCredit(ramp) < DownRate * W + CreditUnit
      BY DEF RampInv, Paid, R, F, W
    <3>6. /\ rise * CreditUnit + RiseCredit(next) <= RiseCredit(ramp) + UpRate * gap
          /\ fall * CreditUnit + FallCredit(next) <= FallCredit(ramp) + DownRate * gap
      BY <1>5 DEF WithinRates, rise, fall
    <3>7. /\ (R + rise) * CreditUnit + RiseCredit(next) < UpRate * (W + gap) + CreditUnit
          /\ (F + fall) * CreditUnit + FallCredit(next) < DownRate * (W + gap) + CreditUnit
      BY <3>3, <3>4, <3>5, <3>6
    <3>8. RiseCredit(ramp') = RiseCredit(next) /\ FallCredit(ramp') = FallCredit(next)
      BY <1>7
    <3>9. QED
      BY <3>2, <3>7, <3>8 DEF Paid, RiseCredit, FallCredit
  <2>3. QED
    BY <2>1, <2>2
<1>11. QED
  BY <1>5, <1>7, <1>9, <1>10 DEF RampInv, WithinRates

LEMMA RampBypassInv ==
  ASSUME RampInv, NEW d \in Duties, Bypass(d)
  PROVE  RampInv'
<1>1. now \in Times /\ d \in Nat /\ RampReset(d, now) \in Ramps /\ RampReset(d, now).last = now
  BY RampResetType DEF RampInv, RampTypeOK, Duties, RampReset
<1>2. RiseCredit(ramp') \in 0 .. CreditUnit - 1 /\ FallCredit(ramp') \in 0 .. CreditUnit - 1
  BY <1>1, CreditBounds DEF Bypass
<1>3. Paid'
  BY <1>2, RampAssumption DEF Bypass, Paid, NewWindow, RiseCredit, FallCredit
<1>4. RampTypeOK'
  BY <1>1, DriverAssumption DEF Bypass, RampInv, RampTypeOK, NewWindow
<1>5. QED
  BY <1>1, <1>3, <1>4 DEF Bypass, RampInv

LEMMA RampNextInv == RampInv /\ [RampNext]_rampVars => RampInv'
<1> SUFFICES ASSUME RampInv, [RampNext]_rampVars PROVE RampInv'
  OBVIOUS
<1>1. ASSUME NEW gap \in Gaps, RampPass(gap) PROVE RampInv'
  BY <1>1, RampPassInv
<1>2. ASSUME NEW d \in Duties, Retarget(d) PROVE RampInv'
  BY <1>2 DEF Retarget, RampInv, RampTypeOK, Paid, RiseCredit, FallCredit
<1>3. ASSUME NEW d \in Duties, Bypass(d) PROVE RampInv'
  BY <1>3, RampBypassInv
<1>4. CASE Settle
  BY <1>4 DEF Settle, RampInv, RampTypeOK, Paid, RiseCredit, FallCredit
<1>5. CASE UNCHANGED rampVars
  BY <1>5 DEF rampVars, RampInv, RampTypeOK, Paid, RiseCredit, FallCredit
<1>6. QED
  BY <1>1, <1>2, <1>3, <1>4, <1>5 DEF RampNext

(* The output stays a percentage and the clock a time, for any rate, through any
   number of wraps. *)
THEOREM RampTypeCorrect == RampSpec => []RampTypeOK
<1>1. RampInv => RampTypeOK
  BY DEF RampInv
<1>2. QED
  BY <1>1, RampInitInv, RampNextInv, PTL DEF RampSpec

(* No order of passes, targets and bypasses lets the output rise or fall faster than
   its rates, whatever they are and however long a pass takes. *)
THEOREM RateAlwaysLimited == RampSpec => []RateLimited
<1>1. RampInv => RateLimited
  <2> SUFFICES ASSUME RampInv PROVE RateLimited
    OBVIOUS
  <2>1. RiseCredit(ramp) \in Nat /\ FallCredit(ramp) \in Nat
    BY CreditBounds, RampAssumption DEF RampInv, RampTypeOK
  <2>2. /\ observed.rise * CreditUnit \in Int /\ observed.fall * CreditUnit \in Int
        /\ UpRate * observed.time \in Int /\ DownRate * observed.time \in Int
        /\ CreditUnit \in Int
    BY RampAssumption DEF RampInv, RampTypeOK
  <2>3. QED
    BY <2>1, <2>2 DEF RampInv, Paid, RateLimited
<1>2. QED
  BY <1>1, RampInitInv, RampNextInv, PTL DEF RampSpec


-----------------------------------------------------------------------------
(* The calibration. *)

(* What a phase knows of the trials that came before it: how often a stop was
   measured, and that fans have started. *)
RestsMeasured ==
  CASE phase = "SpinDown"    -> trial
    [] phase = "StartSearch" -> trial + 1
    [] phase = "VerifyStop"  -> trial + 2
    [] phase = "StartVerify" -> trial + 3
    [] OTHER                 -> 4
Trials ==
  phase \in Active \cup {"Saved"} =>
    /\ rests = RestsMeasured
    /\ phase \notin {"Sweep", "Saved"} => trial \in 0 .. 1
    /\ phase = "MinimumSearch" => trial = 0

(* A fan that counts as stopping has not moved in any measured stop. *)
StoppedRested == stops \cap moved = {}

(* A fan that was started has the duty that did it. *)
StartsKnown ==
  /\ \A f \in started : startDuty[f] > 0
  /\ phase = "StartSearch" => duty \in 1 .. 100 /\ duty % DutyStep = 0
  /\ phase \in (Active \cup {"Saved"}) \ {"SpinDown", "StartSearch"} => expected \subseteq started

(* The table so far is the beginning of the sweep. *)
Swept ==
  /\ phase \in Active \ {"Sweep"} => points = <<>>
  /\ phase = "Sweep" => Len(points) <= Intervals /\ duty = SweepDuty(Len(points))
  /\ phase = "Saved" => Len(points) = Intervals + 1
  /\ phase \in {"Sweep", "Saved"} => \A i \in 1 .. Len(points) : points[i] = SweepDuty(i - 1)

CalibrationInv == TypeOK /\ Trials /\ StoppedRested /\ StartsKnown /\ Swept
-----------------------------------------------------------------------------
(* Division and multiples. *)

LEMMA DivType ==
  ASSUME NEW a \in Nat, NEW d \in Nat \ {0}
  PROVE  /\ a \div d \in Nat
         /\ d * (a \div d) <= a /\ a < d * (a \div d) + d
OBVIOUS

LEMMA DivGrows ==
  ASSUME NEW a \in Nat, NEW b \in Nat, NEW d \in Nat \ {0}, a + d <= b
  PROVE  a \div d < b \div d
<1> DEFINE p == a \div d
           q == b \div d
<1>1. p \in Nat /\ q \in Nat /\ d * p <= a /\ b < d * q + d
  BY DivType
<1> HIDE DEF p, q
<1>2. SUFFICES ASSUME q <= p PROVE FALSE
  BY <1>1 DEF p, q
<1>3. d * q <= d * p
  BY <1>1, <1>2
<1>4. d * q \in Nat /\ d * p \in Nat
  BY <1>1
<1>5. QED
  BY <1>1, <1>3, <1>4

LEMMA DivExact ==
  ASSUME NEW n \in Nat, NEW d \in Nat \ {0}
  PROVE  (n * d) \div d = n
OBVIOUS

LEMMA DivBounded ==
  ASSUME NEW n \in Nat, NEW d \in Nat \ {0}, NEW k \in 0 .. d
  PROVE  (n * k) \div d \in 0 .. n
<1>1. n * k \in Nat /\ n * k <= n * d /\ n * d \in Nat /\ n * d = d * n
  OBVIOUS
<1> DEFINE q == (n * k) \div d
<1>2. q \in Nat /\ d * q <= n * k
  BY <1>1, DivType
<1> HIDE DEF q
<1>3. SUFFICES ASSUME q >= n + 1 PROVE FALSE
  BY <1>2 DEF q
<1>4. d * q >= d * (n + 1) /\ d * (n + 1) = d * n + d /\ d * q \in Nat
  BY <1>2, <1>3
<1>5. QED
  BY <1>1, <1>2, <1>4

LEMMA NextMultiple ==
  ASSUME NEW m \in Nat \ {0}, 100 % m = 0, NEW d \in 0 .. 99, d % m = 0
  PROVE  d + m <= 100 /\ (d + m) % m = 0
<1>1. d = m * (d \div m) /\ 100 = m * (100 \div m) /\ d \div m \in Nat /\ 100 \div m \in Nat
  OBVIOUS
<1> DEFINE p == d \div m
           q == 100 \div m
<1> HIDE DEF p, q
<1>2. d = m * p /\ 100 = m * q /\ p \in Nat /\ q \in Nat
  BY <1>1 DEF p, q
<1>3. p < q
  <2> SUFFICES ASSUME q <= p PROVE FALSE
    BY <1>2
  <2>1. m * q <= m * p
    BY <1>2
  <2> QED BY <1>2, <2>1
<1>4. m * (p + 1) <= m * q /\ m * (p + 1) = m * p + m
  <2>1. p + 1 <= q BY <1>2, <1>3
  <2> QED BY <2>1, <1>2
<1>5. (m * (p + 1)) % m = 0
  BY <1>2
<1>6. QED
  BY <1>2, <1>4, <1>5

(* Any set of duties that is not empty has a greatest one. *)
LEMMA GreatestDuty ==
  ASSUME NEW S \in SUBSET (0 .. 100), S # {}
  PROVE  Greatest(S) \in S
<1> DEFINE below == {x \in 0 .. 100 : 100 - x \in S}
           less  == OpToRel(<, Nat)
<1>1. PICK x \in below : \A y \in below : ~(<<y, x>> \in less)
  <2>1. below \subseteq Nat
    OBVIOUS
  <2>3. below # {}
    <3>1. PICK s \in S : TRUE
      OBVIOUS
    <3>2. 100 - s \in below
      BY <3>1
    <3>3. QED BY <3>2
  <2>4. IsWellFoundedOn(less, Nat)
    BY NatLessThanWellFounded
  <2> HIDE DEF below, less
  <2>2. QED
    BY <2>1, <2>3, <2>4, WFMin
<1>2. \A y \in below : ~(y < x)
  <2> SUFFICES ASSUME NEW y \in below, y < x PROVE FALSE
    OBVIOUS
  <2>0. <<y, x>> \in Nat \X Nat /\ <<y, x>>[1] < <<y, x>>[2]
    OBVIOUS
  <2>1. less = {ss \in Nat \X Nat : ss[1] < ss[2]}
    BY DEF OpToRel
  <2>2. <<y, x>> \in less
    BY <2>0, <2>1
  <2>3. QED
    BY <1>1, <2>2
<1>3. 100 - x \in S /\ \A y \in S : 100 - y \in below
  OBVIOUS
<1>4. \A y \in S : 100 - x >= y
  <2>1. x \in 0 .. 100
    OBVIOUS
  <2>2. TAKE y \in S
  <2>3. y \in 0 .. 100 /\ ~(100 - y < x)
    BY <1>2, <1>3
  <2> HIDE DEF below
  <2>4. QED
    BY <2>1, <2>3
<1>5. QED
  BY <1>3, <1>4 DEF Greatest

-----------------------------------------------------------------------------
(* The sweep: every interval of the table has a point at least. *)

LEMMA SweepFalls ==
  ASSUME CalibrationInv, NEW step \in 0 .. Intervals - 1
  PROVE  SweepDuty(step) > SweepDuty(step + 1)
<1> DEFINE n == 100 - floor
<1>1. n \in Nat /\ n >= Intervals /\ step \in Nat /\ Intervals \in Nat \ {0}
  BY CalibrationAssumption DEF CalibrationInv, TypeOK
<1> HIDE DEF n
<1>2. n * step \in Nat /\ n * (step + 1) \in Nat /\ n * step + Intervals <= n * (step + 1)
  BY <1>1
<1>3. /\ (n * step) \div Intervals < (n * (step + 1)) \div Intervals
      /\ (n * step) \div Intervals \in Nat /\ (n * (step + 1)) \div Intervals \in Nat
  BY <1>1, <1>2, DivGrows, DivType
<1>4. QED
  BY <1>3 DEF SweepDuty, n

LEMMA SweepRange ==
  ASSUME CalibrationInv
  PROVE  /\ SweepDuty(0) = 100 /\ SweepDuty(Intervals) = floor
         /\ \A step \in 0 .. Intervals : SweepDuty(step) \in 0 .. 100
<1> DEFINE n == 100 - floor
<1>1. n \in 0 .. 100 /\ floor \in Nat /\ Intervals \in Nat \ {0}
  BY CalibrationAssumption DEF CalibrationInv, TypeOK
<1>2. floor = 100 - n
  BY <1>1
<1> HIDE DEF n
<1>3. n \in Nat /\ n * 0 = 0 /\ 0 \div Intervals = 0
  BY <1>1
<1>4. (n * Intervals) \div Intervals = n
  BY <1>1, <1>3, DivExact
<1>5. ASSUME NEW step \in 0 .. Intervals PROVE (n * step) \div Intervals \in 0 .. n
  BY <1>1, <1>3, DivBounded
<1>6. QED
  BY <1>1, <1>2, <1>3, <1>4, <1>5 DEF SweepDuty, n

-----------------------------------------------------------------------------
(* Beginnings and ends. *)

LEMMA StartKeeps == ASSUME CalibrationInv, Start PROVE CalibrationInv'
<1>1. TypeOK'
  BY CalibrationAssumption DEF CalibrationInv, TypeOK, Start, Fresh, Active, Ended
<1>2. Trials' /\ StoppedRested' /\ StartsKnown' /\ Swept'
  BY DEF Start, Fresh, Trials, RestsMeasured, StoppedRested, StartsKnown, Swept, Active, Ended
<1>3. QED
  BY <1>1, <1>2 DEF CalibrationInv

LEMMA FailKeeps ==
  ASSUME CalibrationInv, NEW reason \in Ended \ {"Saved"}, Fail(reason)
  PROVE  CalibrationInv'
<1>1. TypeOK'
  BY CalibrationAssumption DEF CalibrationInv, TypeOK, Fail, End, Fresh, Active, Ended
<1>2. Trials' /\ StoppedRested' /\ StartsKnown' /\ Swept'
  BY DEF Fail, End, Fresh, Trials, RestsMeasured, StoppedRested, StartsKnown, Swept, Active, Ended
<1>3. QED
  BY <1>1, <1>2 DEF CalibrationInv

LEMMA ContinueKeeps ==
  ASSUME CalibrationInv, NEW w \in Seq(Readings), Len(w) <= 2, NEW age \in 0 .. WindowLimit,
         NEW sampled \in 0 .. Interval, Continue(w, age, sampled)
  PROVE  CalibrationInv'
<1>1. TypeOK'
  BY DEF CalibrationInv, TypeOK, Continue, working
<1>2. Trials' /\ StoppedRested' /\ StartsKnown' /\ Swept'
  BY DEF CalibrationInv, Continue, working, Trials, RestsMeasured, StoppedRested, StartsKnown, Swept, SweepDuty
<1>3. QED
  BY <1>1, <1>2 DEF CalibrationInv

(* The types in two parts: the phase with its window, which every conclusion begins
   anew, and the results. *)
WindowType ==
  /\ phase \in Active \cup Ended /\ duty \in 0 .. 100
  /\ window \in Seq(Readings) /\ Len(window) <= 2
  /\ windowAge \in 0 .. WindowLimit /\ sampleAge \in 0 .. Interval

ResultsType ==
  /\ expected \in ExpectedMasks
  /\ stops \in SUBSET Fans /\ started \in SUBSET Fans /\ moved \in SUBSET Fans
  /\ startDuty \in [Fans -> 0 .. 100] /\ trial \in 0 .. 2
  /\ lastRunning \in 0 .. 100 /\ floor \in 0 .. MaxFloor
  /\ points \in Seq(0 .. 100) /\ rests \in 0 .. 4

LEMMA TypeParts ==
  /\ CalibrationInv => WindowType /\ ResultsType
  /\ WindowType' /\ ResultsType' => TypeOK'
BY DEF CalibrationInv, TypeOK, WindowType, ResultsType

LEMMA EnterType ==
  ASSUME NEW next \in Active, NEW d \in 0 .. 100, Enter(next, d)
  PROVE  WindowType'
BY CalibrationAssumption DEF Enter, WindowType

LEMMA EndType ==
  ASSUME NEW reason \in Ended, End(reason)
  PROVE  WindowType'
BY CalibrationAssumption DEF End, WindowType

-----------------------------------------------------------------------------
(* One lemma for each conclusion that is drawn from a complete window. *)

LEMMA StopMeasuredKeeps ==
  ASSUME CalibrationInv, NEW w, NEW r \in Readings, phase \in {"SpinDown", "VerifyStop"},
         ~Coasting(w, r), StopMeasured(w, r)
  PROVE  CalibrationInv'
<1> DEFINE turning == {f \in expected : r[f] # 0}
           starts  == [f \in Fans |-> IF f \in turning THEN 100 ELSE startDuty[f]]
           highest == Greatest({starts[f] : f \in expected})
           next    == IF highest > 100 - Margin THEN 100 ELSE highest + Margin
           swings  == {f \in expected : ~AtRest(w, f)}
<1>1. CASE Fail("InvalidMeasurements")
  BY <1>1, FailKeeps DEF Ended
<1>2. CASE ~Fail("InvalidMeasurements")
  <2>1. /\ stops' = stops \ turning /\ started' = started \cup turning /\ startDuty' = starts
        /\ rests' = rests + 1 /\ moved' = moved \cup swings
        /\ IF phase = "SpinDown" THEN Enter("StartSearch", DutyStep) ELSE Enter("StartVerify", next)
        /\ UNCHANGED <<expected, trial, lastRunning, floor, points>>
    BY <1>2 DEF StopMeasured
  <2>2. expected # {} /\ expected \subseteq Fans /\ turning \subseteq expected /\ swings \subseteq expected
    BY CalibrationAssumption DEF CalibrationInv, TypeOK
  <2>3. starts \in [Fans -> 0 .. 100]
    BY DEF CalibrationInv, TypeOK
  <2>4. next \in 0 .. 100
    <3> DEFINE S == {starts[f] : f \in expected}
    <3>1. S \in SUBSET (0 .. 100) /\ S # {}
      <4> HIDE DEF starts, turning
      <4>1. QED
        BY <2>2, <2>3
    <3> HIDE DEF S
    <3>2. Greatest(S) \in 0 .. 100 /\ Margin \in Nat
      BY <3>1, GreatestDuty, CalibrationAssumption
    <3>3. highest \in 0 .. 100
      BY <3>2 DEF S
    <3> HIDE DEF highest
    <3>4. QED
      BY <3>2, <3>3
  <2>5. \A f \in expected \ turning : f \notin swings
    <3> SUFFICES ASSUME NEW f \in expected, r[f] = 0 PROVE AtRest(w, f)
      OBVIOUS
    <3>1. QED
      BY CalibrationAssumption DEF Coasting
  <2> HIDE DEF turning, starts, highest, next, swings
  <2>6. TypeOK'
    <3>1. DutyStep \in 0 .. 100
      BY CalibrationAssumption
    <3>2. rests' \in 0 .. 4
      BY <2>1 DEF CalibrationInv, TypeOK, Trials, RestsMeasured, Active
    <3>3. WindowType'
      BY <2>1, <2>4, <3>1, EnterType DEF Active
    <3>4. ResultsType'
      BY <2>1, <2>2, <2>3, <3>2, TypeParts DEF ResultsType
    <3>5. QED
      BY <3>3, <3>4, TypeParts
  <2>7. Trials'
    BY <2>1 DEF CalibrationInv, TypeOK, Trials, RestsMeasured, Enter, Active
  <2>8. StoppedRested'
    BY <2>1, <2>2, <2>5 DEF CalibrationInv, TypeOK, StoppedRested
  <2>9. StartsKnown'
    <3>1. \A f \in started' : startDuty'[f] > 0
      BY <2>1, <2>2 DEF CalibrationInv, TypeOK, StartsKnown, starts
    <3>2. DutyStep \in 1 .. 100 /\ DutyStep % DutyStep = 0
      BY CalibrationAssumption
    <3>3. phase' \in {"StartSearch", "StartVerify"} /\ (phase' = "StartSearch" => duty' = DutyStep)
      BY <2>1 DEF Enter
    <3>4. phase' = "StartVerify" => expected' \subseteq started'
      BY <2>1 DEF CalibrationInv, StartsKnown, Enter, Active
    <3>5. QED
      BY <3>1, <3>2, <3>3, <3>4 DEF StartsKnown
  <2>10. Swept'
    BY <2>1 DEF CalibrationInv, Swept, Enter, Active
  <2>11. QED
    BY <2>6, <2>7, <2>8, <2>9, <2>10 DEF CalibrationInv
<1>3. QED
  BY <1>1, <1>2

LEMMA StartMeasuredKeeps ==
  ASSUME CalibrationInv, NEW r \in Readings, phase = "StartSearch", StartMeasured(r)
  PROVE  CalibrationInv'
<1> DEFINE new   == {f \in expected \ started : r[f] >= Turning}
           all   == started \cup new
           again == expected \subseteq all /\ trial = 0
           found == expected \subseteq all /\ trial = 1
           starts == [f \in Fans |-> IF f \in new /\ duty > startDuty[f] THEN duty ELSE startDuty[f]]
<1>1. CASE Fail("InvalidMeasurements")
  BY <1>1, FailKeeps DEF Ended
<1>2. CASE ~Fail("InvalidMeasurements")
  <2>1. /\ expected \subseteq all \/ ~(duty >= 100)
        /\ startDuty' = starts
        /\ started' = (IF again THEN {} ELSE all)
        /\ trial' = (IF again THEN 1 ELSE IF found THEN 0 ELSE trial)
        /\ IF again THEN Enter("SpinDown", 0)
           ELSE IF found THEN Enter("VerifyStop", 0)
           ELSE Enter("StartSearch", duty + DutyStep)
        /\ UNCHANGED <<expected, stops, lastRunning, floor, points, rests, moved>>
    BY <1>2 DEF StartMeasured
  <2>2. /\ expected \subseteq Fans /\ new \subseteq expected /\ all \subseteq Fans
        /\ duty \in 1 .. 100 /\ duty % DutyStep = 0 /\ trial \in 0 .. 1 /\ rests = trial + 1
    BY CalibrationAssumption DEF CalibrationInv, TypeOK, StartsKnown, Trials, RestsMeasured, Active
  <2>3. starts \in [Fans -> 0 .. 100]
    BY <2>2 DEF CalibrationInv, TypeOK
  <2>4. ~again /\ ~found => duty + DutyStep \in 1 .. 100 /\ (duty + DutyStep) % DutyStep = 0
    <3>1. SUFFICES ASSUME ~again, ~found
                   PROVE  duty + DutyStep \in 1 .. 100 /\ (duty + DutyStep) % DutyStep = 0
      OBVIOUS
    <3>2. duty \in 0 .. 99
      BY <2>1, <2>2, <3>1
    <3>3. DutyStep \in Nat \ {0} /\ 100 % DutyStep = 0
      BY CalibrationAssumption
    <3>4. duty + DutyStep <= 100 /\ (duty + DutyStep) % DutyStep = 0
      BY <2>2, <3>2, <3>3, NextMultiple
    <3>5. QED
      BY <2>2, <3>3, <3>4
  <2>5. \A f \in all : starts[f] > 0
    <3>1. \A f \in started : startDuty[f] > 0
      BY DEF CalibrationInv, StartsKnown
    <3>2. startDuty \in [Fans -> 0 .. 100] /\ all \subseteq Fans
      BY <2>2 DEF CalibrationInv, TypeOK
    <3> HIDE DEF new
    <3>3. \A f \in all : starts[f] = IF f \in new /\ duty > startDuty[f] THEN duty ELSE startDuty[f]
      BY <3>2
    <3>4. QED
      BY <2>2, <3>1, <3>2, <3>3
  <2> HIDE DEF new, starts
  <2>6. TypeOK'
    <3>1. \/ Enter("SpinDown", 0) \/ Enter("VerifyStop", 0)
          \/ Enter("StartSearch", duty + DutyStep) /\ duty + DutyStep \in 0 .. 100
      BY <2>1, <2>4
    <3>2. WindowType'
      <4>1. 0 \in 0 .. 100 /\ {"SpinDown", "VerifyStop", "StartSearch"} \subseteq Active
        BY DEF Active
      <4>2. QED
        BY <3>1, <4>1, EnterType
    <3>3. ResultsType'
      <4>1. started' \in SUBSET Fans /\ trial' \in 0 .. 2
        BY <2>1, <2>2
      <4>2. ResultsType
        BY TypeParts
      <4>3. QED
        BY <2>1, <2>3, <4>1, <4>2 DEF ResultsType
    <3>4. QED
      BY <3>2, <3>3, TypeParts
  <2>7. Trials'
    BY <2>1, <2>2 DEF Trials, RestsMeasured, Enter
  <2>8. StoppedRested'
    BY <2>1 DEF CalibrationInv, StoppedRested
  <2>9. StartsKnown'
    BY <2>1, <2>2, <2>4, <2>5 DEF StartsKnown, Enter
  <2>10. Swept'
    BY <2>1 DEF CalibrationInv, Swept, Enter, Active
  <2>11. QED
    BY <2>6, <2>7, <2>8, <2>9, <2>10 DEF CalibrationInv
<1>3. QED
  BY <1>1, <1>2

LEMMA StartVerifiedKeeps ==
  ASSUME CalibrationInv, phase = "StartVerify", StartVerified
  PROVE  CalibrationInv'
<1>1. trial \in 0 .. 1
  BY DEF CalibrationInv, Trials, Active
<1>2. TypeOK'
  <2>1. WindowType'
    BY <1>1, EnterType DEF StartVerified, Active
  <2>2. ResultsType'
    BY <1>1, TypeParts DEF StartVerified, ResultsType
  <2>3. QED
    BY <2>1, <2>2, TypeParts
<1>3. Trials' /\ StoppedRested' /\ StartsKnown' /\ Swept'
  BY <1>1 DEF CalibrationInv, StartVerified, Trials, RestsMeasured, StoppedRested, StartsKnown, Swept, Enter, Active
<1>4. QED
  BY <1>2, <1>3 DEF CalibrationInv

LEMMA MinimumMeasuredKeeps ==
  ASSUME CalibrationInv, NEW r \in Readings, phase = "MinimumSearch", MinimumMeasured(r)
  PROVE  CalibrationInv'
<1> DEFINE last == IF AllTurn(r) THEN duty ELSE lastRunning
<1>1. CASE Fail("InvalidMeasurements")
  BY <1>1, FailKeeps DEF Ended
<1>2. CASE ~Fail("InvalidMeasurements")
  <2>1. \/ /\ duty # 1 /\ lastRunning' = duty /\ floor' = floor
           /\ Enter("MinimumSearch", IF duty > DutyStep THEN duty - DutyStep ELSE 1)
        \/ /\ ~TooHigh(last + Margin) /\ lastRunning' = last /\ floor' = last + Margin
           /\ Enter("RunningBoost", 100)
    BY <1>2 DEF MinimumMeasured
  <2>2. UNCHANGED <<expected, stops, started, startDuty, trial, points, rests, moved>>
    BY <1>2 DEF MinimumMeasured
  <2>3. duty \in 0 .. 100 /\ lastRunning \in 0 .. 100 /\ last \in 0 .. 100 /\ DutyStep \in 1 .. 100
    BY CalibrationAssumption DEF CalibrationInv, TypeOK
  <2>4. (IF duty > DutyStep THEN duty - DutyStep ELSE 1) \in 0 .. 100
    BY <2>3
  <2>5. ~TooHigh(last + Margin) => last + Margin \in 0 .. MaxFloor
    BY <2>3, CalibrationAssumption DEF TooHigh
  <2> HIDE DEF last
  <2>6. TypeOK'
    <3>1. WindowType'
      BY <2>1, <2>4, EnterType DEF Active
    <3>2. ResultsType'
      BY <2>1, <2>2, <2>3, <2>5, TypeParts DEF ResultsType
    <3>3. QED
      BY <3>1, <3>2, TypeParts
  <2>7. Trials' /\ StoppedRested' /\ StartsKnown' /\ Swept'
    BY <2>1, <2>2 DEF CalibrationInv, Trials, RestsMeasured, StoppedRested, StartsKnown, Swept, Enter, Active
  <2>8. QED
    BY <2>6, <2>7 DEF CalibrationInv
<1>3. QED
  BY <1>1, <1>2

LEMMA BoostedKeeps ==
  ASSUME CalibrationInv, phase = "RunningBoost", Boosted
  PROVE  CalibrationInv'
<1>1. floor \in 0 .. 100
  BY CalibrationAssumption DEF CalibrationInv, TypeOK
<1>2. TypeOK'
  <2>1. WindowType'
    BY <1>1, EnterType DEF Boosted, Active
  <2>2. ResultsType'
    BY TypeParts DEF Boosted, working, ResultsType
  <2>3. QED
    BY <2>1, <2>2, TypeParts
<1>3. Trials' /\ StoppedRested' /\ StartsKnown' /\ Swept'
  BY DEF CalibrationInv, Boosted, working, Trials, RestsMeasured, StoppedRested, StartsKnown, Swept, Enter, Active
<1>4. QED
  BY <1>2, <1>3 DEF CalibrationInv

LEMMA MinimumVerifiedKeeps ==
  ASSUME CalibrationInv, phase = "MinimumVerify", MinimumVerified
  PROVE  CalibrationInv'
<1>1. trial \in 0 .. 1 /\ points = <<>>
  BY DEF CalibrationInv, Trials, Swept, Active
<1>2. TypeOK'
  <2>1. WindowType'
    <3>1. Enter("RunningBoost", 100) \/ Enter("Sweep", 100)
      BY DEF MinimumVerified
    <3>2. {"RunningBoost", "Sweep"} \subseteq Active /\ 100 \in 0 .. 100
      BY DEF Active
    <3>3. QED
      BY <3>1, <3>2, EnterType
  <2>2. ResultsType'
    BY <1>1, TypeParts DEF MinimumVerified, ResultsType
  <2>3. QED
    BY <2>1, <2>2, TypeParts
<1>3. Trials' /\ StoppedRested' /\ StartsKnown'
  BY <1>1 DEF CalibrationInv, MinimumVerified, Trials, RestsMeasured, StoppedRested, StartsKnown, Enter, Active
<1>4. Swept'
  <2>1. SweepDuty(0) = 100 /\ floor' = floor /\ points' = <<>>
    BY <1>1, SweepRange DEF MinimumVerified
  <2>2. SweepDuty(0)' = 100 /\ Len(points') = 0 /\ 0 <= Intervals
    BY <2>1, CalibrationAssumption DEF SweepDuty
  <2>3. phase' \in {"RunningBoost", "Sweep"} /\ (phase' = "Sweep" => duty' = 100)
    BY DEF MinimumVerified, Enter
  <2>4. QED
    BY <2>1, <2>2, <2>3 DEF Swept
<1>5. QED
  BY <1>2, <1>3, <1>4 DEF CalibrationInv

LEMMA SweepMeasuredKeeps ==
  ASSUME CalibrationInv, phase = "Sweep", SweepMeasured
  PROVE  CalibrationInv'
<1> DEFINE n == Len(points)
<1>0. Intervals \in Nat \ {0}
  BY CalibrationAssumption
<1>1. /\ n \in 0 .. Intervals /\ duty = SweepDuty(n) /\ duty \in 0 .. 100 /\ points \in Seq(0 .. 100)
      /\ \A i \in 1 .. n : points[i] = SweepDuty(i - 1)
  BY DEF CalibrationInv, TypeOK, Swept
<1>2. /\ points' = Append(points, duty)
      /\ UNCHANGED <<expected, stops, started, startDuty, trial, lastRunning, floor, rests, moved>>
  BY DEF SweepMeasured
<1>3. /\ points' \in Seq(0 .. 100) /\ Len(points') = n + 1
      /\ \A i \in 1 .. n + 1 : points'[i] = SweepDuty(i - 1)
  BY <1>1, <1>2
<1>4. CASE n < Intervals /\ Enter("Sweep", SweepDuty(n + 1))
  <2>1. SweepDuty(n + 1) \in 0 .. 100
    <3>1. n + 1 \in 0 .. Intervals
      BY <1>1, <1>4, CalibrationAssumption
    <3>2. QED
      BY <3>1, SweepRange
  <2>2. TypeOK'
    <3>1. WindowType'
      BY <1>4, <2>1, EnterType DEF Active
    <3>2. ResultsType'
      BY <1>2, <1>3, TypeParts DEF ResultsType
    <3>3. QED
      BY <3>1, <3>2, TypeParts
  <2>3. Trials' /\ StoppedRested' /\ StartsKnown'
    BY <1>2, <1>4 DEF CalibrationInv, Trials, RestsMeasured, StoppedRested, StartsKnown, Enter, Active
  <2>4. Swept'
    <3>1. \A k : SweepDuty(k)' = SweepDuty(k)
      BY <1>2 DEF SweepDuty
    <3>2. phase' = "Sweep" /\ duty' = SweepDuty(n + 1)
      BY <1>4 DEF Enter
    <3>3. Len(points') <= Intervals /\ Len(points') = n + 1
      BY <1>0, <1>1, <1>3, <1>4
    <3>4. duty' = 100 - ((100 - floor') * Len(points')) \div Intervals
      BY <1>2, <3>2, <3>3 DEF SweepDuty
    <3>5. \A i \in 1 .. Len(points') : points'[i] = SweepDuty(i - 1)'
      BY <1>3, <3>1, <3>3
    <3>6. QED
      BY <3>2, <3>3, <3>4, <3>5 DEF Swept, SweepDuty
  <2>5. QED
    BY <2>2, <2>3, <2>4 DEF CalibrationInv
<1>5. CASE n >= Intervals /\ (End("Saved") \/ End("StorageFailed"))
  <2>1. TypeOK'
    <3>1. WindowType'
      BY <1>5, EndType DEF Ended
    <3>2. ResultsType'
      BY <1>2, <1>3, TypeParts DEF ResultsType
    <3>3. QED
      BY <3>1, <3>2, TypeParts
  <2>2. Trials' /\ StoppedRested' /\ StartsKnown'
    BY <1>2, <1>5 DEF CalibrationInv, Trials, RestsMeasured, StoppedRested, StartsKnown, End, Active
  <2>3. Swept'
    <3>1. \A k : SweepDuty(k)' = SweepDuty(k)
      BY <1>2 DEF SweepDuty
    <3>2. phase' \in {"Saved", "StorageFailed"} /\ n = Intervals
      BY <1>0, <1>1, <1>5 DEF End
    <3>3. QED
      BY <1>3, <3>1, <3>2 DEF Swept, Active
  <2>4. QED
    BY <2>1, <2>2, <2>3 DEF CalibrationInv
<1>6. QED
  BY <1>0, <1>1, <1>4, <1>5 DEF SweepMeasured

-----------------------------------------------------------------------------
LEMMA CalibrationInitInv == Init => CalibrationInv
<1> SUFFICES ASSUME Init PROVE CalibrationInv
  OBVIOUS
<1>1. TypeOK
  BY CalibrationAssumption DEF Init, TypeOK, Ended
<1>2. Trials /\ StoppedRested /\ StartsKnown /\ Swept
  BY DEF Init, Trials, RestsMeasured, StoppedRested, StartsKnown, Swept, Active
<1>3. QED
  BY <1>1, <1>2 DEF CalibrationInv

LEMMA UpdateKeeps ==
  ASSUME CalibrationInv, NEW d \in Spacings, NEW r \in Readings, Update(d, r)
  PROVE  CalibrationInv'
<1> DEFINE age     == AgeUpTo(WindowLimit, windowAge + d)
           sampled == AgeUpTo(Interval, sampleAge + d)
           w       == Sampled(r)
<1>1. age \in 0 .. WindowLimit /\ sampled \in 0 .. Interval /\ 0 \in 0 .. Interval
  BY CalibrationAssumption DEF CalibrationInv, TypeOK, AgeUpTo
<1>2. w \in Seq(Readings) /\ window \in Seq(Readings) /\ Len(window) <= 2
  BY DEF CalibrationInv, TypeOK, Sampled
<1> HIDE DEF age, sampled, w
<1>3. \/ Fail("InvalidMeasurements") \/ Fail("Unstable")
      \/ Continue(window, age, sampled)
      \/ Len(w) < 3 /\ Continue(w, age, 0)
      \/ Continue(<<>>, age, 0)
      \/ ~(phase \in {"SpinDown", "VerifyStop"} /\ Coasting(w, r)) /\ Conclude(w, r)
  BY DEF Update, age, sampled, w
<1>4. ASSUME Fail("InvalidMeasurements") \/ Fail("Unstable") PROVE CalibrationInv'
  BY <1>4, FailKeeps DEF Ended
<1>5. ASSUME Continue(window, age, sampled) PROVE CalibrationInv'
  BY <1>1, <1>2, <1>5, ContinueKeeps
<1>6. ASSUME Len(w) < 3, Continue(w, age, 0) PROVE CalibrationInv'
  <2>1. Len(w) <= 2
    BY <1>2, <1>6
  <2>2. QED
    BY <1>1, <1>2, <1>6, <2>1, ContinueKeeps
<1>7. ASSUME Continue(<<>>, age, 0) PROVE CalibrationInv'
  <2>1. <<>> \in Seq(Readings) /\ Len(<<>>) <= 2
    OBVIOUS
  <2>2. QED
    BY <1>1, <1>7, <2>1, ContinueKeeps
<1>8. ASSUME ~(phase \in {"SpinDown", "VerifyStop"} /\ Coasting(w, r)), Conclude(w, r) PROVE CalibrationInv'
  <2>1. CASE phase \in {"SpinDown", "VerifyStop"} /\ StopMeasured(w, r)
    BY <1>8, <2>1, StopMeasuredKeeps
  <2>2. CASE phase = "StartSearch" /\ StartMeasured(r)
    BY <2>2, StartMeasuredKeeps
  <2>3. CASE phase = "MinimumSearch" /\ MinimumMeasured(r)
    BY <2>3, MinimumMeasuredKeeps
  <2>4. QED
    BY <1>8, <2>1, <2>2, <2>3, StartVerifiedKeeps, BoostedKeeps, MinimumVerifiedKeeps,
       SweepMeasuredKeeps DEF Conclude
<1>9. QED
  BY <1>3, <1>4, <1>5, <1>6, <1>7, <1>8

LEMMA CalibrationNextInv == CalibrationInv /\ [Next]_vars => CalibrationInv'
<1> SUFFICES ASSUME CalibrationInv, [Next]_vars PROVE CalibrationInv'
  OBVIOUS
<1>1. CASE Start
  BY <1>1, StartKeeps
<1>2. CASE Abort \/ TimeOut \/ LosePower
  BY <1>2, FailKeeps DEF Abort, TimeOut, LosePower, Ended
<1>3. CASE Pass
  BY <1>3, UpdateKeeps DEF Pass
<1>4. CASE UNCHANGED vars
  <2>1. TypeOK'
    BY <1>4 DEF vars, CalibrationInv, TypeOK
  <2>2. Trials' /\ StoppedRested' /\ StartsKnown' /\ Swept'
    BY <1>4 DEF vars, CalibrationInv, Trials, RestsMeasured, StoppedRested, StartsKnown, Swept, SweepDuty
  <2>3. QED
    BY <2>1, <2>2 DEF CalibrationInv
<1>5. QED
  BY <1>1, <1>2, <1>3, <1>4 DEF Next

(* Everything a calibration keeps has its type: duties are percentages, a floor is one
   that is accepted, and a window that goes on has at most two samples. *)
THEOREM CalibrationTypeCorrect == Spec => []TypeOK
<1>1. CalibrationInv => TypeOK
  BY DEF CalibrationInv
<1>2. QED
  BY CalibrationInitInv, CalibrationNextInv, <1>1, PTL DEF Spec

(* A fan that a saved table allows to stop was at rest in all four measured stops,
   and every fan has a start, for any fans and any readings of them. *)
THEOREM SavedStopsWereSeen == Spec => []StopsWereSeen
<1>1. CalibrationInv => StopsWereSeen
  BY DEF CalibrationInv, TypeOK, Trials, RestsMeasured, StoppedRested, StartsKnown, StopsWereSeen, Active
<1>2. QED
  BY CalibrationInitInv, CalibrationNextInv, <1>1, PTL DEF Spec

(* A saved table is complete and falls strictly from 100% to the floor, for any step of
   the searches, margin and number of intervals, because the highest floor that is
   accepted leaves a point for each interval. *)
THEOREM SavedTablesDescend == Spec => []TableDescends
<1>1. ASSUME CalibrationInv PROVE TableDescends
  <2> SUFFICES ASSUME phase = "Saved"
               PROVE  /\ Len(points) = Intervals + 1
                      /\ points[1] = 100 /\ points[Intervals + 1] = floor
                      /\ \A i \in 1 .. Intervals : points[i] > points[i + 1]
    BY DEF TableDescends
  <2>1. Len(points) = Intervals + 1 /\ \A i \in 1 .. Intervals + 1 : points[i] = SweepDuty(i - 1)
    BY <1>1 DEF CalibrationInv, Swept
  <2>2. Intervals \in Nat \ {0}
    BY CalibrationAssumption
  <2>3. points[1] = 100 /\ points[Intervals + 1] = floor
    BY <1>1, <2>1, <2>2, SweepRange
  <2>4. ASSUME NEW i \in 1 .. Intervals PROVE points[i] > points[i + 1]
    <3>1. i - 1 \in 0 .. Intervals - 1 /\ (i - 1) + 1 = i /\ i \in 1 .. Intervals + 1 /\ i + 1 \in 1 .. Intervals + 1
          /\ (i + 1) - 1 = i
      BY <2>2
    <3>2. SweepDuty(i - 1) > SweepDuty(i)
      BY <1>1, <3>1, SweepFalls
    <3>3. QED
      BY <2>1, <3>1, <3>2
  <2>5. QED
    BY <2>1, <2>3, <2>4
<1>2. QED
  BY CalibrationInitInv, CalibrationNextInv, <1>1, PTL DEF Spec
=============================================================================
