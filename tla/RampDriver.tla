----------------------------- MODULE RampDriver -----------------------------
(***************************************************************************)
(* The ramp as FanGroupController drives it: one step per pass of the      *)
(* loop, with any target and any time since the last pass, and a reset     *)
(* whenever the output is set by something other than automatic control.   *)
(***************************************************************************)
EXTENDS PwmRamp

CONSTANTS
  Gaps,        (* The times that may lie between two passes.               *)
  MaxWindow    (* Bound on the time over which the rate is observed.       *)

ASSUME DriverAssumption == Gaps \subseteq Nat \ {0} /\ MaxWindow \in Nat

VARIABLES
  now,      (* millis() of this pass.                                      *)
  ramp,     (* The PwmRamp object.                                         *)
  goal,     (* The duty that automatic control asks for.                   *)
  observed, (* History: the time since the observation began, and the      *)
            (* points the duty has risen and fallen by in it.              *)
  steady    (* Control no longer changes the goal.                         *)

rampVars == <<now, ramp, goal, observed, steady>>

NewWindow == [time |-> 0, rise |-> 0, fall |-> 0]

RampInit ==
  /\ now = 0
  /\ ramp = RampReset(FullDuty, now)
  /\ goal = FullDuty
  /\ observed = NewWindow
  /\ steady = FALSE

(* One pass: the time moves on and the ramp is stepped. *)
RampPass(gap) ==
  LET next == RampStep(ramp, goal, TimeAdd(now, gap))
  IN  /\ now' = TimeAdd(now, gap)
      /\ ramp' = next
      /\ observed' =
           IF observed.time + gap > MaxWindow
             THEN NewWindow
             ELSE [time |-> observed.time + gap,
                   rise |-> observed.rise
                              + (IF next.duty > ramp.duty
                                   THEN next.duty - ramp.duty ELSE 0),
                   fall |-> observed.fall
                              + (IF next.duty < ramp.duty
                                   THEN ramp.duty - next.duty ELSE 0)]
      /\ UNCHANGED <<goal, steady>>

(* Automatic control asks for another duty. *)
Retarget(g) ==
  /\ ~steady
  /\ goal' = g
  /\ UNCHANGED <<now, ramp, observed, steady>>

(* Something other than automatic control set the output. *)
Bypass(duty) ==
  /\ ~steady
  /\ ramp' = RampReset(duty, now)
  /\ observed' = NewWindow
  /\ UNCHANGED <<now, goal, steady>>

Settle ==
  /\ ~steady
  /\ steady' = TRUE
  /\ UNCHANGED <<now, ramp, goal, observed>>

RampNext ==
  \/ \E gap \in Gaps : RampPass(gap)
  \/ \E d \in Duties : Retarget(d) \/ Bypass(d)
  \/ Settle

RampFairness == WF_rampVars(\E gap \in Gaps : RampPass(gap))

RampSpec == RampInit /\ [][RampNext]_rampVars /\ RampFairness

-----------------------------------------------------------------------------
RampTypeOK ==
  /\ now \in Times
  /\ ramp \in Ramps
  /\ goal \in Duties
  /\ observed \in [time : 0 .. MaxWindow, rise : Nat, fall : Nat]
  /\ steady \in BOOLEAN

(* Over any stretch of automatic control, however the target jumps about and
   reverses, the output rises by no more than UpRate and falls by no more than
   DownRate allows for that time, up to the one point the kept credit may be
   short of: no idle time is banked and no credit earned in one direction is
   spent in the other. *)
RateLimited ==
  /\ observed.rise * CreditUnit < UpRate * observed.time + CreditUnit
  /\ observed.fall * CreditUnit < DownRate * observed.time + CreditUnit

(* A target that stays put is reached, even when every pass is too short for a
   whole percentage point: fractional time is retained across fast loops. *)
ReachesTarget == steady ~> (ramp.duty = goal)

=============================================================================
