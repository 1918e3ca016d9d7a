---------------------------- MODULE AdapterNames ----------------------------
(***************************************************************************)
(* The Nano's store of adapter labels (AdapterNameStore) and its two frame *)
(* handlers: two EEPROM records, of which the valid one with the newer     *)
(* generation counts and the other is overwritten.  A record counts for    *)
(* the identity that it was saved under.  The labels are not kept in RAM:  *)
(* every request reads the records again.  A save is modelled write by     *)
(* write; power may be lost between and inside writes, and in a save one   *)
(* write may leave a wrong byte behind.                                    *)
(*                                                                         *)
(* The identity is kept in RAM, and in EEPROM with the settings, whose     *)
(* store saves it whole or not at all.  A save that fails leaves the new   *)
(* identity in RAM.                                                        *)
(*                                                                         *)
(* What follows the magic number is one value, Garbage when only part of   *)
(* it was written: the checksum is ideal.  A partly written magic number   *)
(* is invalid.                                                             *)
(***************************************************************************)
EXTENDS Naturals, Eeprom

CONSTANTS
  Requests,        (* The labels that clients may send, valid or not.      *)
  Clients,
  Generations,     (* 2^32                                                 *)
  Never,           (* A client that has read nothing.                      *)
  Outdated,        (* One that has read before the last change of identity.*)
  MaxChanges,      (* Fewer than Generations: an old reader's generation   *)
                   (* does not come round again.                           *)
  Identities,      (* What controllerId may be set to.                     *)
  NoIdentity       (* All zeros.                                           *)

Groups   == {1, 2}
Unlabelled == [pciAddress |-> "", name |-> ""]
NoLabels == [g \in Groups |-> Unlabelled]

(* Names are "" , "blank" (only spaces), "broken" (no end, not printable, or not
   zero after its end) or text; addresses are "", "broken" or canonical. *)
Valid(labels) ==
  \A g \in Groups :
    /\ labels[g].name # "broken" /\ labels[g].pciAddress # "broken"
    /\ IF labels[g].pciAddress = "" THEN labels[g].name = "" ELSE labels[g].name \notin {"", "blank"}

Bodies == [identity : Identities, generation : 0 .. Generations - 1, labels : Requests]

ASSUME NamesAssumption ==
  /\ Generations \in Nat /\ MaxChanges \in Nat /\ MaxChanges + 1 < Generations
  /\ NoIdentity \notin Identities /\ NoLabels \in Requests
  /\ Never \notin Clients \cup Nat /\ Outdated \notin Nat \cup {Never} /\ Garbage \notin Bodies

VARIABLES
  slots,           (* EEPROM: [magic, body].                               *)
  identity,        (* persisted_.controllerId, in RAM.                     *)
  stored,          (* It, in the EEPROM.                                   *)
  step,            (* "idle", or the next step of save().                  *)
  save,            (* Local to save(): target, record, client.             *)
  flawed,          (* A write of this save went wrong.                     *)
  read,            (* The generation that each client read last.           *)
  answer,          (* The acknowledgement of the last SetAdapterNames or   *)
                   (* SetControllerId.                                     *)
  version, known   (* History: changes of the labels since the identity    *)
                   (* changed, and their number when a client read.        *)
namesVars == <<slots, identity, stored, step, save, flawed, read, answer, version, known>>

Blank     == [magic |-> FALSE, body |-> Garbage]
NoRequest == [target |-> 0, body |-> Garbage, client |-> Never]

-----------------------------------------------------------------------------
Following(generation) == (generation + 1) % Generations

(* static_cast<int32_t>(a - b) > 0 *)
Newer(a, b) == LET ahead == (a + Generations - b) % Generations
               IN  ahead > 0 /\ 2 * ahead < Generations

(* read() *)
Holds(slot, id) ==
  slot.magic /\ slot.body # Garbage /\ slot.body.identity = id /\ Valid(slot.body.labels)

(* loadRecord(): the slot in use, or -1. *)
Active ==
  LET own == {s \in Slots : Holds(slots[s], identity)}
  IN  CASE own = {}  -> 2
        [] own = {0} -> 0
        [] own = {1} -> 1
        [] OTHER     -> IF Newer(slots[1].body.generation, slots[0].body.generation) THEN 1 ELSE 0
NoActive == 2

(* load() *)
Current == IF Active = NoActive THEN [generation |-> 0, labels |-> NoLabels]
           ELSE [generation |-> slots[Active].body.generation, labels |-> slots[Active].body.labels]

Spare == IF Active = NoActive THEN 0 ELSE 1 - Active

-----------------------------------------------------------------------------
(* A new board, or one whose labels were saved often before. *)
NamesInit ==
  /\ \/ identity = NoIdentity /\ slots = [s \in Slots |-> Blank]
     \/ /\ identity \in Identities
        /\ \E earlier \in Requests :
             /\ Valid(earlier)
             /\ slots = [s \in Slots |->
                  [magic |-> TRUE, body |-> [identity |-> identity, generation |-> Generations - 1 - s,
                                             labels |-> IF s = 0 THEN NoLabels ELSE earlier]]]
  /\ stored = identity
  /\ step = "idle" /\ save = NoRequest /\ flawed = FALSE /\ answer = "none"
  /\ read = [c \in Clients |-> Never] /\ version = 0 /\ known = [c \in Clients |-> Never]

(* MessageGetAdapterNames *)
GetAdapterNames(c) ==
  /\ step = "idle"
  /\ read' = [read EXCEPT ![c] = Current.generation] /\ known' = [known EXCEPT ![c] = version]
  /\ UNCHANGED <<slots, identity, stored, step, save, flawed, answer, version>>

Answered(status) ==
  /\ answer' = status
  /\ UNCHANGED <<slots, identity, stored, step, save, flawed, read, version, known>>

(* MessageSetAdapterNames during a calibration or before the Nano has an identity. *)
Refused ==
  /\ step = "idle"
  /\ \/ Answered("busy")
     \/ identity = NoIdentity /\ Answered("unsafe")

UpToDate_AnyFault(generation) == TRUE
UpToDate(generation) == generation = Current.generation

(* save() up to its first write; the client sends the generation that it has read. *)
SetAdapterNames(c, labels) ==
  /\ step = "idle" /\ identity # NoIdentity /\ read[c] # Never
  /\ CASE ~Valid(labels)         -> Answered("invalid")
       [] Valid(labels) /\ ~UpToDate(read[c]) -> Answered("stale")
       [] Valid(labels) /\ UpToDate(read[c]) /\ labels = Current.labels -> Answered("ok")
       [] OTHER ->
            /\ version < MaxChanges /\ step' = "invalidate" /\ answer' = "none"
            /\ save' = [target |-> Spare, client |-> c,
                        body |-> [identity |-> identity, generation |-> Following(read[c]), labels |-> labels]]
            /\ UNCHANGED <<slots, identity, stored, flawed, read, version, known>>

(* EEPROM.update() of the bytes of a region: they become `written`, or one byte does not
   take its value. *)
Update(from, to, written, wrong) ==
  /\ step = from /\ step' = to
  /\ \/ slots' = [slots EXCEPT ![save.target] = written] /\ UNCHANGED flawed
     \/ ~flawed /\ flawed' = TRUE /\ slots' = [slots EXCEPT ![save.target] = wrong]
  /\ UNCHANGED <<identity, stored, save, read, answer, known>>

Invalid(slot) == [slot EXCEPT !.magic = FALSE]

(* Three of the four bytes are enough to invalidate. *)
Invalidate == Update("invalidate", "body", Invalid(slots[save.target]), Invalid(slots[save.target]))
              /\ UNCHANGED version

WriteBody  == Update("body", "magic", [slots[save.target] EXCEPT !.body = save.body],
                     [slots[save.target] EXCEPT !.body = Garbage])
              /\ UNCHANGED version

(* The magic number is written last: with it the labels change. *)
WriteNamesMagic ==
  /\ Update("magic", "verify", [slots[save.target] EXCEPT !.magic = TRUE], slots[save.target])
  /\ version' = (IF slots'[save.target] = [magic |-> TRUE, body |-> save.body] THEN version + 1 ELSE version)

NamesReadBack == Holds(slots[save.target], identity) /\ slots[save.target].body = save.body

Verify ==
  /\ step = "verify" /\ step' = "idle" /\ save' = NoRequest /\ flawed' = FALSE
  /\ IF NamesReadBack THEN answer' = "ok" /\ UNCHANGED slots
     ELSE answer' = "failed" /\ slots' = [slots EXCEPT ![save.target] = Invalid(@)]
  /\ UNCHANGED <<identity, stored, read, version, known>>

(* The identity in force becomes `id`; what clients have read is of another one. *)
Becomes(id) ==
  /\ identity' = id
  /\ IF id = identity THEN UNCHANGED <<version, known>>
     ELSE version' = 0 /\ known' = [c \in Clients |-> IF known[c] = Never THEN Never ELSE Outdated]

(* Power is lost, in a save between two writes or inside the one that is next; setup()
   loads the stored identity. *)
NamesPowerLoss ==
  /\ step' = "idle" /\ save' = NoRequest /\ flawed' = FALSE /\ answer' = "none"
  /\ \E torn \in IF step = "body" THEN {slots[save.target].body, Garbage} ELSE {slots[save.target].body} :
       slots' = [slots EXCEPT ![save.target].body = torn]
  /\ Becomes(stored) /\ UNCHANGED <<stored, read>>

(* MessageSetControllerId: RAM has the identity, whether or not it is saved. *)
SetControllerId(id) ==
  /\ step = "idle" /\ Becomes(id)
  /\ \/ answer' = "ok" /\ stored' = id
     \/ answer' = "failed" /\ UNCHANGED stored
  /\ UNCHANGED <<slots, step, save, flawed, read>>

(* The settings are saved for another reason: MessageSetConfiguration, or the end of a
   calibration. *)
SaveSettings ==
  /\ step = "idle" /\ stored' = identity
  /\ UNCHANGED <<slots, identity, step, save, flawed, read, answer, version, known>>

NamesNext ==
  \/ \E c \in Clients : GetAdapterNames(c)
  \/ Refused
  \/ \E c \in Clients, labels \in Requests : SetAdapterNames(c, labels)
  \/ Invalidate \/ WriteBody \/ WriteNamesMagic \/ Verify \/ NamesPowerLoss \/ SaveSettings
  \/ \E id \in Identities : SetControllerId(id)

NamesSpec == NamesInit /\ [][NamesNext]_namesVars

-----------------------------------------------------------------------------
NamesSlots == [magic : BOOLEAN, body : Bodies \cup {Garbage}]

NamesTypeOK ==
  /\ slots \in [Slots -> NamesSlots] /\ {identity, stored} \subseteq Identities \cup {NoIdentity}
  /\ step \in {"idle", "invalidate", "body", "magic", "verify"}
  /\ save \in IF step = "idle" THEN {NoRequest}
              ELSE [target : Slots, client : Clients, body : Bodies]
  /\ flawed \in BOOLEAN
  /\ answer \in {"none", "ok", "failed", "busy", "unsafe", "invalid", "stale"}
  /\ version \in 0 .. MaxChanges
  /\ read \in [Clients -> 0 .. Generations - 1 \cup {Never}]
  /\ known \in [Clients -> 0 .. MaxChanges \cup {Never, Outdated}]

(* The store is one record with versions.  Labels are replaced whole or not at all,
   whatever write the power is lost in; "ok" means that they were replaced, any other
   answer that they were not; and a client replaces only labels that it has read: two
   clients that read the same labels do not both save, through any number of changes
   and a wrapped generation.  The labels are those of the identity in force.  Where that
   changes - a power loss brings back the one before if its successor was not saved -
   the last labels of the new one that are still in a slot count, which are its last
   two at most, and what clients have read before is no protection. *)
InSave == step # "idle"
Kept == [id \in Identities \cup {NoIdentity} |->
           {slots[s].body.labels : s \in {t \in Slots : Holds(slots[t], id)}}]
Outcome ==
  CASE answer \in {"ok", "failed", "none"} -> answer [] OTHER -> "refused"
Promise ==
  INSTANCE VersionedRecord WITH
    Owners   <- Identities \cup {NoIdentity},
    Records  <- Requests,
    Empty    <- NoLabels,
    owner    <- identity,
    keeper   <- stored,
    record   <- Current.labels,
    kept     <- Kept,
    saving   <- IF InSave THEN [client |-> save.client, record |-> save.body.labels]
                          ELSE [client |-> Never, record |-> NoLabels],
    replaced <- step = "verify" /\ NamesReadBack,
    answer   <- Outcome
ImplementsVersionedRecord == Promise!Spec
=============================================================================
