------------------------------- MODULE Eeprom -------------------------------
(***************************************************************************)
(* What the two stores of the Nano have in common: a record is in one of   *)
(* two slots, of which a save overwrites the one that is not in use, and   *)
(* bytes that were only partly written are no record.                      *)
(***************************************************************************)
CONSTANT Garbage   (* Bytes that are no record, number or checksum.        *)

Slots == {0, 1}
=============================================================================
