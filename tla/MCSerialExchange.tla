---- MODULE MCSerialExchange ----
(* The constants of MCSerialExchange.cfg. *)
EXTENDS SerialExchange

(* A line that loses frames, one on which the Nano is late, and a good line whose
   faults come and go while the beeper is enabled and disabled. *)
BadLineOrBeeper ==
  {[losses |-> 1, delays |-> 0, changes |-> 1, clients |-> TRUE, beeper |-> FALSE],
   [losses |-> 0, delays |-> 2, changes |-> 0, clients |-> TRUE, beeper |-> FALSE],
   [losses |-> 0, delays |-> 0, changes |-> 2, clients |-> FALSE, beeper |-> TRUE]}

====
