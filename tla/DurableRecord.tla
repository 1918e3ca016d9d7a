--------------------------- MODULE DurableRecord ---------------------------
(***************************************************************************)
(* What the firmware's configuration storage promises, with no mention of  *)
(* slots, sequence numbers or checksums: one durable record that a save    *)
(* either replaces as a whole or leaves alone.  A save that returns true   *)
(* has replaced it, a save that returns false has not, and a power loss in *)
(* the middle of a save does one or the other.  A start reads exactly the  *)
(* durable record.                                                         *)
(***************************************************************************)

CONSTANTS
  Data,       (* The records the firmware can save.                        *)
  Defaults    (* The record a start yields when nothing was ever saved.    *)

VARIABLES
  stage,      (* "off": no power; "idle": running; "saving": in save().    *)
  record,     (* The record the next start would yield.                    *)
  ram         (* The firmware's working copy: loaded, or being saved.      *)

vars == <<stage, record, ram>>

Init ==
  /\ stage = "off"
  /\ record = Defaults
  /\ ram = Defaults

(* A start loads the durable record. *)
Start ==
  /\ stage = "off"
  /\ stage' = "idle"
  /\ ram' = record
  /\ UNCHANGED record

(* The firmware changes its working copy and calls save(). *)
BeginSave(d) ==
  /\ stage = "idle"
  /\ stage' = "saving"
  /\ ram' = d
  /\ UNCHANGED record

(* save() returns true. *)
SaveSucceeds ==
  /\ stage = "saving"
  /\ stage' = "idle"
  /\ record' = ram
  /\ UNCHANGED ram

(* save() returns false: the working copy stays, the record does not move. *)
SaveFails ==
  /\ stage = "saving"
  /\ stage' = "idle"
  /\ UNCHANGED <<record, ram>>

(* Power is lost.  A save in progress happened or did not. *)
PowerLoss ==
  /\ stage # "off"
  /\ stage' = "off"
  /\ record' \in IF stage = "saving" THEN {record, ram} ELSE {record}
  /\ UNCHANGED ram

Next ==
  \/ Start
  \/ \E d \in Data : BeginSave(d)
  \/ SaveSucceeds
  \/ SaveFails
  \/ PowerLoss

Spec == Init /\ [][Next]_vars

=============================================================================
