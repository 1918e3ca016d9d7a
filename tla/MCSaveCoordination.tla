---- MODULE MCSaveCoordination ----
(* The constants of MCSaveCoordination.cfg. *)
EXTENDS SaveCoordination

(* Another client that writes, and a line and an EEPROM that fail. *)
Clients  == [foreign |-> 2, lost |-> 0, broken |-> 0, restarts |-> 0]
Failures == [foreign |-> 0, lost |-> 2, broken |-> 1, restarts |-> 1]
Troubles == {Clients, Failures}
====
