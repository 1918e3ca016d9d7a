-------------------------- MODULE VersionedRecord --------------------------
(***************************************************************************)
(* What the Nano's store of adapter labels promises its readers, with no   *)
(* mention of slots, generations or checksums: for the controller that the *)
(* Nano is, one record that a save replaces as a whole or not at all, and  *)
(* only for a client that read the version it replaces.                    *)
(*                                                                         *)
(* The Nano is another controller when it is told so, or when it was told  *)
(* so without that being kept and loses power.  Then its record is one of  *)
(* the last two of that controller, or empty if none of them is left.      *)
(***************************************************************************)
EXTENDS Naturals

CONSTANTS
  Owners,      (* The controllers that the Nano may be.                    *)
  Records,     (* What may be saved.                                       *)
  Empty,       (* The record before anything is saved.                     *)
  Clients,
  Never,       (* The version a client that has read nothing knows.        *)
  Outdated     (* The version known from before the Nano was another one.  *)

VARIABLES
  owner, keeper,      (* The controller that the Nano is, and the one that *)
                      (* it is after a loss of power.                      *)
  record, version,    (* The owner's record, and how often it changed.     *)
  kept,               (* What is left of the records of each controller.   *)
  known,              (* The version that each client read last.           *)
  saving,             (* The save in progress: [client, record], or none.  *)
  replaced,           (* It has taken effect.                              *)
  answer              (* Of the last change: "ok", "refused" or "failed".  *)
vars == <<owner, keeper, record, version, kept, known, saving, replaced, answer>>

NoSave == [client |-> Never, record |-> Empty]

Returning(o) == IF kept[o] = {} THEN {Empty} ELSE kept[o]

Init ==
  /\ owner \in Owners /\ keeper = owner
  /\ kept \in [Owners -> SUBSET Records] /\ record \in Returning(owner) /\ version = 0
  /\ known = [c \in Clients |-> Never]
  /\ saving = NoSave /\ replaced = FALSE /\ answer = "none"

Read(c) ==
  /\ saving = NoSave
  /\ known' = [known EXCEPT ![c] = version]
  /\ UNCHANGED <<owner, keeper, record, version, kept, saving, replaced, answer>>

Refuse ==
  /\ saving = NoSave /\ answer' = "refused"
  /\ UNCHANGED <<owner, keeper, record, version, kept, known, saving, replaced>>

(* What is saved is the record already, as the client knows. *)
Confirm(c, r) ==
  /\ saving = NoSave /\ known[c] \in {version, Outdated} /\ r = record /\ answer' = "ok"
  /\ UNCHANGED <<owner, keeper, record, version, kept, known, saving, replaced>>

Begin(c, r) ==
  /\ saving = NoSave /\ known[c] \in {version, Outdated} /\ r # record
  /\ saving' = [client |-> c, record |-> r] /\ answer' = "none"
  /\ UNCHANGED <<owner, keeper, record, version, kept, known, replaced>>

(* A save needs the room of what is not the owner's record. *)
Forget ==
  /\ saving # NoSave /\ ~replaced
  /\ kept' \in [Owners -> SUBSET Records]
  /\ \A o \in Owners : kept'[o] \subseteq kept[o]
  /\ record \in kept[owner] => record \in kept'[owner]
  /\ UNCHANGED <<owner, keeper, record, version, known, saving, replaced, answer>>

Replace ==
  /\ saving # NoSave /\ ~replaced
  /\ record' = saving.record /\ version' = version + 1 /\ replaced' = TRUE
  /\ kept' = [kept EXCEPT ![owner] = (@ \cap {record}) \cup {saving.record}]
  /\ UNCHANGED <<owner, keeper, known, saving, answer>>

Finish ==
  /\ saving # NoSave /\ saving' = NoSave /\ replaced' = FALSE
  /\ answer' = (IF replaced THEN "ok" ELSE "failed")
  /\ UNCHANGED <<owner, keeper, record, version, kept, known>>

Become(o) ==
  /\ owner' = o
  /\ IF o = owner THEN UNCHANGED <<record, version, known>>
     ELSE /\ record' \in Returning(o) /\ version' = 0
          /\ known' = [c \in Clients |-> IF known[c] = Never THEN Never ELSE Outdated]
  /\ UNCHANGED kept

(* The Nano is told which controller it is, and says whether that is kept. *)
Assign(o) ==
  /\ saving = NoSave /\ Become(o)
  /\ \/ answer' = "ok" /\ keeper' = o
     \/ answer' = "failed" /\ UNCHANGED keeper
  /\ UNCHANGED <<saving, replaced>>

(* It is kept with something else. *)
Keep ==
  /\ saving = NoSave /\ keeper' = owner
  /\ UNCHANGED <<owner, record, version, kept, known, saving, replaced, answer>>

(* A save in progress has happened or has not, and nobody is told. *)
PowerLoss ==
  /\ Become(keeper)
  /\ saving' = NoSave /\ replaced' = FALSE /\ answer' = "none" /\ UNCHANGED keeper

Next ==
  \/ \E c \in Clients : Read(c)
  \/ Refuse
  \/ \E c \in Clients, r \in Records : Confirm(c, r) \/ Begin(c, r)
  \/ Forget \/ Replace \/ Finish \/ Keep \/ PowerLoss
  \/ \E o \in Owners : Assign(o)

Spec == Init /\ [][Next]_vars
=============================================================================
