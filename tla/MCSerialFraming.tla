---- MODULE MCSerialFraming ----
(* The constants of MCSerialFraming.cfg. *)
EXTENDS SerialFraming

(* An empty payload, one that reads like a header of a longer frame, and one that
   ends with the first byte of magic. *)
ThreePayloads == <<<<>>, <<Magic1, Magic2, Version, Type, 3>>, <<Magic1>>>>
====
