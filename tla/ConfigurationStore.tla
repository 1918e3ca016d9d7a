------------------------- MODULE ConfigurationStore -------------------------
(***************************************************************************)
(* ConfigurationStore of the firmware: two EEPROM slots, of which load()   *)
(* takes the valid one with the newer sequence number and save()           *)
(* overwrites the other.  save() is modelled write by write, so that power *)
(* can be lost between (and inside) any two of them, and a write may leave *)
(* the wrong bytes behind.                                                 *)
(*                                                                         *)
(* A region of several bytes that is only partly written holds Garbage.    *)
(* The checksum is ideal: it is the pair it was calculated over, so it     *)
(* never accepts a record and sequence number other than the written ones. *)
(* The magic number is four bytes, none of them zero, so a partly written  *)
(* magic is not the magic: it is valid or it is not.                       *)
(***************************************************************************)
EXTENDS Integers, Eeprom

CONSTANTS
  Data,         (* Records that pass Configuration::validate.              *)
  Defaults,     (* Configuration::setDefaults, no calibration, no id.      *)
  SeqModulus    (* 2^32 in the firmware: sequence_ is a uint32_t.          *)

ASSUME StoreAssumption ==
  /\ Garbage \notin Data
  /\ Garbage \notin Int
  /\ Garbage \notin (Int \X Data)
  /\ Defaults \in Data
  /\ SeqModulus \in Nat
  /\ SeqModulus >= 4

VARIABLES
  eeprom,        (* The two slots.                                         *)
  stage,         (* "off", "idle", or the next write of save().            *)
  activeSlot,    (* activeSlot_, sequence_ and hasActiveSlot_.             *)
  sequence,
  hasActiveSlot,
  ram,           (* The PersistedData loaded or passed to save().          *)
  faulty,        (* A write or a read of this save has already gone wrong. *)
  committed      (* History: the record of the last save that returned     *)
                 (* true, or that the last start found.                    *)

vars == <<eeprom, stage, activeSlot, sequence, hasActiveSlot, ram, faulty,
          committed>>

Sequences32 == 0 .. SeqModulus - 1

SaveStages == {"invalidate", "data", "header", "magic", "verify", "reject"}

-----------------------------------------------------------------------------
(* Operators named ..._Fault are plausible faults of the operator they are named
   after.  No action uses them; the mutation runs put them in its place. *)

(* sequence_ + 1 in 32 bits. *)
NextSequence(s) == IF s = SeqModulus - 1 THEN 0 ELSE s + 1

NewerSequence_UnsignedFault(a, b) == a > b

(* static_cast<int32_t>(a - b) > 0: a is ahead of b by less than half the
   range. *)
NewerSequence(a, b) ==
  LET difference == IF a >= b THEN a - b ELSE a - b + SeqModulus
  IN  0 < difference /\ 2 * difference < SeqModulus

(* calculateChecksum: over the sequence number and the data, not the magic. *)
Checksum(s, d) == <<s, d>>

(* readSlot returns true. *)
SlotValid(slot) ==
  /\ slot.magic
  /\ slot.sequence # Garbage
  /\ slot.data # Garbage
  /\ slot.checksum = Checksum(slot.sequence, slot.data)

(* The slot that load() takes, when one of them is valid. *)
LoadSlot(slots) ==
  IF /\ SlotValid(slots[1])
     /\ \/ ~SlotValid(slots[0])
        \/ NewerSequence(slots[1].sequence, slots[0].sequence)
    THEN 1
    ELSE 0

NeitherValid(slots) == ~SlotValid(slots[0]) /\ ~SlotValid(slots[1])

(* The record that load() yields. *)
Loaded(slots) ==
  IF NeitherValid(slots) THEN Defaults ELSE slots[LoadSlot(slots)].data

TargetSlot_InUseFault == IF hasActiveSlot THEN activeSlot ELSE 0

(* The slot that save() writes. *)
TargetSlot == IF hasActiveSlot THEN 1 - activeSlot ELSE 0

-----------------------------------------------------------------------------
BlankSlot == [magic |-> FALSE, sequence |-> Garbage, data |-> Garbage,
              checksum |-> Garbage]

(* A new board: nothing stored, power off. *)
Init ==
  /\ eeprom = [s \in Slots |-> BlankSlot]
  /\ stage = "off"
  /\ activeSlot = 0
  /\ sequence = 0
  /\ hasActiveSlot = FALSE
  /\ ram = Defaults
  /\ faulty = FALSE
  /\ committed = Defaults

(* setup() calls load(): the RAM of the store starts from its initialisers. *)
Load ==
  /\ stage = "off"
  /\ stage' = "idle"
  /\ ram' = Loaded(eeprom)
  /\ committed' = Loaded(eeprom)
  /\ hasActiveSlot' = ~NeitherValid(eeprom)
  /\ activeSlot' = IF NeitherValid(eeprom) THEN 0 ELSE LoadSlot(eeprom)
  /\ sequence' = IF NeitherValid(eeprom) THEN 0
                 ELSE eeprom[LoadSlot(eeprom)].sequence
  /\ UNCHANGED <<eeprom, faulty>>

(* save(data) is called. *)
BeginSave(d) ==
  /\ stage = "idle"
  /\ stage' = "invalidate"
  /\ ram' = d
  /\ faulty' = FALSE
  /\ UNCHANGED <<eeprom, activeSlot, sequence, hasActiveSlot, committed>>

(* One updateBytes: the slot becomes `written`, or (at most once in a save)
   a cell does not take the write and it becomes one of `wrong`. *)
UpdateBytes(from, to, written, wrong) ==
  /\ stage = from
  /\ stage' = to
  /\ \/ /\ eeprom' = [eeprom EXCEPT ![TargetSlot] = written]
        /\ UNCHANGED faulty
     \/ /\ ~faulty
        /\ faulty' = TRUE
        /\ \E w \in wrong : eeprom' = [eeprom EXCEPT ![TargetSlot] = w]
  /\ UNCHANGED <<activeSlot, sequence, hasActiveSlot, ram, committed>>

Target == eeprom[TargetSlot]

(* The first write: the slot is no longer valid. *)
InvalidateMagic ==
  UpdateBytes("invalidate", "data", [Target EXCEPT !.magic = FALSE], {Target})

WriteData ==
  UpdateBytes("data", "header", [Target EXCEPT !.data = ram],
              {Target, [Target EXCEPT !.data = Garbage]})

(* Schema version, size, sequence number and checksum. *)
WriteHeader ==
  LET s == NextSequence(sequence)
  IN  UpdateBytes("header", "magic",
        [Target EXCEPT !.sequence = s, !.checksum = Checksum(s, ram)],
        {Target,
         [Target EXCEPT !.sequence = Garbage, !.checksum = Garbage],
         [Target EXCEPT !.sequence = s, !.checksum = Garbage]})

(* The magic number is committed last. *)
WriteMagic ==
  UpdateBytes("magic", "verify", [Target EXCEPT !.magic = TRUE],
              {[Target EXCEPT !.magic = FALSE]})

(* The slot reads back as the header and the data just written. *)
ReadsBack ==
  /\ SlotValid(Target)
  /\ Target.sequence = NextSequence(sequence)
  /\ Target.data = ram

(* save() returns true. *)
VerifySucceeds ==
  /\ stage = "verify"
  /\ ReadsBack
  /\ stage' = "idle"
  /\ activeSlot' = TargetSlot
  /\ sequence' = NextSequence(sequence)
  /\ hasActiveSlot' = TRUE
  /\ committed' = ram
  /\ UNCHANGED <<eeprom, ram, faulty>>

(* The slot, or (at most once in a save) a bad read of it, differs from what
   was written. *)
VerifyFails ==
  /\ stage = "verify"
  /\ ~ReadsBack \/ ~faulty
  /\ stage' = "reject"
  /\ faulty' = TRUE
  /\ UNCHANGED <<eeprom, activeSlot, sequence, hasActiveSlot, ram, committed>>

RejectCandidate_KeptFault == UpdateBytes("reject", "idle", Target, {})

(* The rejected candidate is invalidated and save() returns false.  faulty is
   true here, so this write takes. *)
RejectCandidate ==
  UpdateBytes("reject", "idle", [Target EXCEPT !.magic = FALSE], {})

(* Power is lost between two writes, or inside one of them.  (A magic number
   that is only partly written is the one before or after the write.) *)
TornSlots ==
  CASE stage = "data"   -> {Target, [Target EXCEPT !.data = Garbage]}
    [] stage = "header" ->
         {Target,
          [Target EXCEPT !.sequence = Garbage, !.checksum = Garbage],
          [Target EXCEPT !.sequence = NextSequence(sequence),
                         !.checksum = Garbage]}
    [] OTHER            -> {Target}

PowerLoss ==
  /\ stage # "off"
  /\ stage' = "off"
  /\ \E torn \in TornSlots : eeprom' = [eeprom EXCEPT ![TargetSlot] = torn]
  /\ UNCHANGED <<activeSlot, sequence, hasActiveSlot, ram, faulty, committed>>

Next ==
  \/ Load
  \/ \E d \in Data : BeginSave(d)
  \/ InvalidateMagic
  \/ WriteData
  \/ WriteHeader
  \/ WriteMagic
  \/ VerifySucceeds
  \/ VerifyFails
  \/ RejectCandidate
  \/ PowerLoss

Spec == Init /\ [][Next]_vars

-----------------------------------------------------------------------------
(* Every variable holds a value of its type; a slot region may hold Garbage. *)
SlotRecords ==
  [magic    : BOOLEAN,
   sequence : Sequences32 \cup {Garbage},
   data     : Data \cup {Garbage},
   checksum : (Sequences32 \X Data) \cup {Garbage}]

TypeOK ==
  /\ eeprom \in [Slots -> SlotRecords]
  /\ stage \in {"off", "idle"} \cup SaveStages
  /\ activeSlot \in Slots
  /\ sequence \in Sequences32
  /\ hasActiveSlot \in BOOLEAN
  /\ ram \in Data
  /\ faulty \in BOOLEAN
  /\ committed \in Data

(* At every moment a power loss leaves a loadable state: outside save() a
   restart would load exactly the last committed record, and inside save() the
   committed record or the one being saved, whole.  In particular a save that
   returned false is never what the next start loads, and a save that returned
   true always is ("interrupted writes leave the previous slot recoverable"). *)
CommittedRecoverable ==
  /\ stage = "idle" => Loaded(eeprom) = committed
  /\ stage \in SaveStages => Loaded(eeprom) \in {committed, ram}

(* A slot holding a whole record is one sequence number away from the slot in
   use, so the signed comparison of load() never meets a distance at which it
   is wrong, however often the number has wrapped. *)
SequencesAdjacent ==
  SlotValid(eeprom[0]) /\ SlotValid(eeprom[1]) =>
    \/ eeprom[1].sequence = NextSequence(eeprom[0].sequence)
    \/ eeprom[0].sequence = NextSequence(eeprom[1].sequence)

-----------------------------------------------------------------------------
(* The inductive strengthening of CommittedRecoverable. *)

(* A stored sequence number t that is one away from s, or was never written. *)
Neighbour(t, s) == t = Garbage \/ s = NextSequence(t) \/ t = NextSequence(s)

(* A slot 1 that was never written, and a slot 0 that was at most tried. *)
NeverCommitted ==
  /\ eeprom[1] = BlankSlot
  /\ eeprom[0].sequence \in {1, Garbage}

(* Slot a holds a record and the other slot was written just before or after. *)
CommittedIn(a) ==
  /\ SlotValid(eeprom[a])
  /\ Neighbour(eeprom[1 - a].sequence, eeprom[a].sequence)

(* Without power the EEPROM alone decides. *)
OffInv == stage = "off" => NeverCommitted \/ \E a \in Slots : CommittedIn(a)

(* With power the active slot holds the committed record. *)
ActiveInv ==
  stage # "off" =>
    \/ /\ ~hasActiveSlot
       /\ sequence = 0
       /\ committed = Defaults
       /\ NeverCommitted
    \/ /\ hasActiveSlot
       /\ CommittedIn(activeSlot)
       /\ eeprom[activeSlot].sequence = sequence
       /\ eeprom[activeSlot].data = committed

(* A valid target slot is the previous record, or the candidate once its data
   has been written. *)
TargetInv ==
  stage # "off" /\ SlotValid(Target) =>
    \/ sequence = NextSequence(Target.sequence)
    \/ stage \in {"header", "magic", "verify", "reject"} /\ Target.data = ram

(* At most one write of a save goes wrong, so a data region other than the
   candidate's comes with a correct header, and the magic that is about to be
   written cannot revive an older record under it. *)
FaultInv ==
  /\ stage = "header" /\ ~faulty => Target.data = ram
  /\ stage = "magic" /\ SlotValid([Target EXCEPT !.magic = TRUE]) =>
       Target.data = ram
  /\ stage = "reject" => faulty

(* Together with TypeOK: implies CommittedRecoverable and SequencesAdjacent. *)
StoreInv == OffInv /\ ActiveInv /\ TargetInv /\ FaultInv

-----------------------------------------------------------------------------
(* The store implements one durable record: a save replaces it as a whole or
   not at all, whatever write the power is lost in. *)
Abstract ==
  INSTANCE DurableRecord WITH
    stage  <- IF stage \in SaveStages THEN "saving" ELSE stage,
    record <- IF stage = "off" THEN Loaded(eeprom) ELSE committed

ImplementsDurableRecord == Abstract!Spec

=============================================================================
