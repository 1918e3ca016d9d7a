------------------------------ MODULE McuTime ------------------------------
(***************************************************************************)
(* The firmware's clock arithmetic.  millis() is a uint32_t that wraps     *)
(* every 49.7 days; a deadline is compared with it as a signed difference. *)
(***************************************************************************)
EXTENDS Integers

CONSTANT TimeModulus   (* 2^32 in the firmware; one unit is one tick here. *)

ASSUME TimeAssumption == TimeModulus \in Nat /\ TimeModulus >= 4

Times == 0 .. TimeModulus - 1

(* nowMs + duration. *)
TimeAdd(now, duration) == (now + duration) % TimeModulus

(* nowMs - sinceMs, unsigned. *)
Elapsed(now, since) == (now - since) % TimeModulus

(* timeReached: static_cast<int32_t>(nowMs - targetMs) >= 0. *)
TimeReached(now, target) == 2 * Elapsed(now, target) < TimeModulus

=============================================================================
