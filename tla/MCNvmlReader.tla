---- MODULE MCNvmlReader ----
(* The constants of MCNvmlReader.cfg. *)
EXTENDS NvmlReader

None == [maps |-> 0, troubles |-> 0, passing |-> 0, spawn |-> 0, malformed |-> 0, slow |-> 0]

(* Troubles of the driver, one after the other, and of the rest of the system. *)
Mixed ==
  {[None EXCEPT !.troubles = 3, !.passing = 1],
   [None EXCEPT !.troubles = 2, !.maps = 2, !.slow = 1],
   [None EXCEPT !.troubles = 2, !.slow = 1, !.spawn = 1, !.malformed = 1]}
====
