---------------------------- MODULE EepromProofs ----------------------------
(***************************************************************************)
(* The two stores in the Nano's EEPROM.  The configuration, for every set  *)
(* of records and every width of the sequence number; the labels of the    *)
(* adapters, for all labels, clients and widths of the generation that do  *)
(* not come round while a client holds on to one.                          *)
(***************************************************************************)
EXTENDS ConfigurationStore, AdapterNames, TLAPS

-----------------------------------------------------------------------------
(* The configuration. *)

(* Sequence numbers one apart are ordered by the signed comparison of load(),
   across the wrap too. *)
LEMMA NextIsNewer ==
  ASSUME NEW s \in Sequences32
  PROVE  /\ NextSequence(s) \in Sequences32
         /\ NewerSequence(NextSequence(s), s)
         /\ ~NewerSequence(s, NextSequence(s))
         /\ s # NextSequence(s)
         /\ s # NextSequence(NextSequence(s))
  BY StoreAssumption DEF Sequences32, NextSequence, NewerSequence

(* Two different numbers have different successors. *)
LEMMA NextIsInjective ==
  ASSUME NEW s \in Sequences32, NEW t \in Sequences32,
         NextSequence(s) = NextSequence(t)
  PROVE  s = t
  BY StoreAssumption DEF Sequences32, NextSequence

(* A valid slot holds a record and a number. *)
LEMMA ValidSlot ==
  ASSUME NEW slot \in SlotRecords, SlotValid(slot)
  PROVE  slot.sequence \in Sequences32 /\ slot.data \in Data
  BY DEF SlotRecords, SlotValid

(* load() yields a record, and the number of a valid slot. *)
LEMMA LoadedType ==
  ASSUME TypeOK
  PROVE  /\ Loaded(eeprom) \in Data
         /\ LoadSlot(eeprom) \in Slots
         /\ ~NeitherValid(eeprom) =>
              /\ SlotValid(eeprom[LoadSlot(eeprom)])
              /\ eeprom[LoadSlot(eeprom)].sequence \in Sequences32
<1>1. LoadSlot(eeprom) \in Slots
  BY DEF LoadSlot, Slots
<1>2. ~NeitherValid(eeprom) => SlotValid(eeprom[LoadSlot(eeprom)])
  BY DEF LoadSlot, NeitherValid
<1>3. eeprom[LoadSlot(eeprom)] \in SlotRecords
  BY <1>1 DEF TypeOK
<1>4. QED
  BY <1>1, <1>2, <1>3, ValidSlot, StoreAssumption DEF Loaded

(* One write keeps the types, when what it may write is a slot. *)
LEMMA UpdateBytesType ==
  ASSUME TypeOK,
         NEW from, NEW to \in {"off", "idle"} \cup SaveStages,
         NEW written \in SlotRecords, NEW wrong \in SUBSET SlotRecords,
         UpdateBytes(from, to, written, wrong)
  PROVE  TypeOK'
<1>1. eeprom' \in [Slots -> SlotRecords]
  BY DEF UpdateBytes, TypeOK
<1>2. faulty' \in BOOLEAN
  BY DEF UpdateBytes, TypeOK
<1>3. QED
  BY <1>1, <1>2 DEF UpdateBytes, TypeOK

(* The slot that save() writes is a slot. *)
LEMMA TargetType ==
  ASSUME TypeOK
  PROVE  TargetSlot \in Slots /\ Target \in SlotRecords
<1>1. TargetSlot \in Slots
  BY DEF TypeOK, TargetSlot, Slots
<1>2. QED
  BY <1>1 DEF TypeOK, Target

(* Every step of the store keeps its variables within their types, so a slot
   holds regions of old, new or torn bytes and nothing else. *)
THEOREM TypeCorrect == Spec => []TypeOK
<1>1. Init => TypeOK
  <2> SUFFICES ASSUME Init PROVE TypeOK
    OBVIOUS
  <2>1. BlankSlot \in SlotRecords
    BY DEF BlankSlot, SlotRecords
  <2>2. eeprom \in [Slots -> SlotRecords]
    BY <2>1 DEF Init
  <2>3. 0 \in Sequences32 /\ 0 \in Slots
    BY StoreAssumption DEF Sequences32, Slots
  <2> QED
    BY <2>2, <2>3, StoreAssumption DEF Init, TypeOK, SaveStages
<1>2. TypeOK /\ [Next]_vars => TypeOK'
  <2> SUFFICES ASSUME TypeOK, [Next]_vars PROVE TypeOK'
    OBVIOUS
  <2>1. TargetSlot \in Slots /\ Target \in SlotRecords
    BY TargetType
  <2>2. sequence \in Sequences32 /\ NextSequence(sequence) \in Sequences32
    BY NextIsNewer DEF TypeOK
  <2>3. Checksum(NextSequence(sequence), ram) \in Sequences32 \X Data
    BY <2>2 DEF TypeOK, Checksum
  <2>4. CASE Load
    <3>1. /\ Loaded(eeprom) \in Data
          /\ LoadSlot(eeprom) \in Slots
          /\ ~NeitherValid(eeprom) =>
               eeprom[LoadSlot(eeprom)].sequence \in Sequences32
      BY LoadedType
    <3>2. 0 \in Sequences32 /\ 0 \in Slots
      BY StoreAssumption DEF Sequences32, Slots
    <3>3. hasActiveSlot' \in BOOLEAN
      BY <2>4, Zenon DEF Load, NeitherValid
    <3>4. QED
      BY <2>4, <3>1, <3>2, <3>3 DEF Load, TypeOK
  <2>5. ASSUME NEW d \in Data, BeginSave(d) PROVE TypeOK'
    BY <2>5 DEF BeginSave, TypeOK, SaveStages
  <2>6. CASE InvalidateMagic
    <3>1. [Target EXCEPT !.magic = FALSE] \in SlotRecords
      BY <2>1 DEF SlotRecords
    <3>2. QED
      BY <2>1, <2>6, <3>1, UpdateBytesType DEF InvalidateMagic, SaveStages
  <2>7. CASE WriteData
    <3>1. /\ [Target EXCEPT !.data = ram] \in SlotRecords
          /\ [Target EXCEPT !.data = Garbage] \in SlotRecords
      BY <2>1 DEF SlotRecords, TypeOK
    <3>2. QED
      BY <2>1, <2>7, <3>1, UpdateBytesType DEF WriteData, SaveStages
  <2>8. CASE WriteHeader
    <3> DEFINE s == NextSequence(sequence)
               h0 == [Target EXCEPT !.sequence = s,
                                    !.checksum = Checksum(s, ram)]
               h1 == [Target EXCEPT !.sequence = Garbage,
                                    !.checksum = Garbage]
               h2 == [Target EXCEPT !.sequence = s, !.checksum = Garbage]
    <3>1. h0 \in SlotRecords /\ h1 \in SlotRecords /\ h2 \in SlotRecords
      BY <2>1, <2>2, <2>3 DEF SlotRecords
    <3>2. UpdateBytes("header", "magic", h0, {Target, h1, h2})
      BY <2>8 DEF WriteHeader
    <3> HIDE DEF h0, h1, h2
    <3>3. QED
      BY <2>1, <3>1, <3>2, UpdateBytesType DEF SaveStages
  <2>9. CASE WriteMagic
    <3> DEFINE m0 == [Target EXCEPT !.magic = TRUE]
               m1 == [Target EXCEPT !.magic = FALSE]
    <3>1. m0 \in SlotRecords /\ m1 \in SlotRecords
      BY <2>1 DEF SlotRecords
    <3>2. UpdateBytes("magic", "verify", m0, {m1})
      BY <2>9 DEF WriteMagic
    <3> HIDE DEF m0, m1
    <3>3. QED
      BY <3>1, <3>2, UpdateBytesType DEF SaveStages
  <2>10. CASE VerifySucceeds
    BY <2>1, <2>2, <2>10 DEF VerifySucceeds, TypeOK
  <2>11. CASE VerifyFails
    BY <2>11 DEF VerifyFails, TypeOK, SaveStages
  <2>12. CASE RejectCandidate
    <3>1. [Target EXCEPT !.magic = FALSE] \in SlotRecords
      BY <2>1 DEF SlotRecords
    <3>2. QED
      BY <2>12, <3>1, UpdateBytesType DEF RejectCandidate
  <2>13. CASE PowerLoss
    <3>1. TornSlots \subseteq SlotRecords
      BY <2>1, <2>2 DEF TornSlots, SlotRecords
    <3>2. eeprom' \in [Slots -> SlotRecords]
      BY <2>13, <3>1 DEF PowerLoss, TypeOK
    <3>3. QED
      BY <2>13, <3>2 DEF PowerLoss, TypeOK
  <2>14. CASE UNCHANGED vars
    BY <2>14 DEF vars, TypeOK
  <2>15. QED
    BY <2>4, <2>5, <2>6, <2>7, <2>8, <2>9, <2>10, <2>11, <2>12, <2>13, <2>14
       DEF Next
<1>3. QED
  BY <1>1, <1>2, PTL DEF Spec

-----------------------------------------------------------------------------
(* The invariant gives the two safety properties. *)
LEMMA StoreInvImplies ==
  ASSUME TypeOK, StoreInv
  PROVE  CommittedRecoverable
<1> USE DEF StoreInv
<1>1. CASE ~hasActiveSlot
  <2> SUFFICES ASSUME stage # "off"
               PROVE  CommittedRecoverable
    BY DEF CommittedRecoverable, SaveStages
  <2>1. /\ committed = Defaults /\ sequence = 0
        /\ ~SlotValid(eeprom[1])
        /\ eeprom[0].sequence \in {1, Garbage}
        /\ Target = eeprom[0]
    BY <1>1 DEF ActiveInv, NeverCommitted, SlotValid, BlankSlot, Target,
                TargetSlot
  <2>2. SlotValid(eeprom[0]) => eeprom[0].sequence = 1
    BY <2>1 DEF SlotValid
  <2>3. NextSequence(1) # 0
    BY StoreAssumption DEF NextSequence
  <2>4. SlotValid(eeprom[0]) =>
          /\ stage \in {"header", "magic", "verify", "reject"}
          /\ eeprom[0].data = ram
    BY <2>1, <2>2, <2>3 DEF TargetInv
  <2>5. Loaded(eeprom) =
          IF SlotValid(eeprom[0]) THEN eeprom[0].data ELSE Defaults
    BY <2>1 DEF Loaded, NeitherValid, LoadSlot
  <2>6. QED
    BY <2>1, <2>4, <2>5 DEF CommittedRecoverable, SaveStages
<1>2. CASE hasActiveSlot
  <2> SUFFICES ASSUME stage # "off"
               PROVE  CommittedRecoverable
    BY DEF CommittedRecoverable, SaveStages
  <2> DEFINE A == eeprom[activeSlot]
             T == eeprom[1 - activeSlot]
  <2>1. /\ SlotValid(A) /\ A.sequence = sequence /\ A.data = committed
        /\ Neighbour(T.sequence, sequence)
        /\ Target = T
        /\ activeSlot \in {0, 1}
    BY <1>2 DEF ActiveInv, CommittedIn, Target, TargetSlot, TypeOK, Slots
  <2>2. sequence \in Sequences32
    BY DEF TypeOK
  <2>3. CASE ~SlotValid(T)
    <3>1. Loaded(eeprom) = A.data
      BY <2>1, <2>3 DEF Loaded, NeitherValid, LoadSlot
    <3>2. QED
      BY <2>1, <3>1 DEF CommittedRecoverable
  <2>4. CASE SlotValid(T)
    <3>1. T.sequence \in Sequences32
      BY <2>1, <2>4, ValidSlot DEF TypeOK, Slots
    <3>2. CASE sequence = NextSequence(T.sequence)
      <4>1. /\ NewerSequence(A.sequence, T.sequence)
            /\ ~NewerSequence(T.sequence, A.sequence)
        BY <2>1, <3>1, <3>2, NextIsNewer
      <4>2. Loaded(eeprom) = A.data
        BY <2>1, <2>4, <4>1 DEF Loaded, NeitherValid, LoadSlot
      <4>3. QED
        BY <2>1, <4>2 DEF CommittedRecoverable
    <3>3. CASE T.sequence = NextSequence(sequence)
      <4>1. sequence # NextSequence(T.sequence)
        BY <2>2, <3>3, NextIsNewer
      <4>2. /\ stage \in {"header", "magic", "verify", "reject"}
            /\ T.data = ram
        BY <2>1, <2>4, <4>1 DEF TargetInv
      <4>3. Loaded(eeprom) \in {A.data, T.data}
        BY <2>1, <2>4 DEF Loaded, NeitherValid, LoadSlot
      <4>4. QED
        BY <2>1, <4>2, <4>3 DEF CommittedRecoverable, SaveStages
    <3>4. QED
      BY <2>1, <2>4, <3>2, <3>3 DEF Neighbour, SlotValid
  <2>5. QED
    BY <2>3, <2>4
<1>3. QED
  BY <1>1, <1>2

(* With power the number of a whole record in the other slot is next to the
   active one; without, the invariant says it of the slot that holds a record. *)
LEMMA StoreInvAdjacent ==
  ASSUME TypeOK, StoreInv
  PROVE  SequencesAdjacent
<1> SUFFICES ASSUME SlotValid(eeprom[0]), SlotValid(eeprom[1])
             PROVE  \/ eeprom[1].sequence = NextSequence(eeprom[0].sequence)
                    \/ eeprom[0].sequence = NextSequence(eeprom[1].sequence)
  BY DEF SequencesAdjacent
<1>1. ~NeverCommitted
  BY DEF NeverCommitted, BlankSlot, SlotValid
<1>2. PICK a \in Slots : CommittedIn(a)
  <2>1. CASE stage = "off"
    BY <1>1, <2>1 DEF StoreInv, OffInv
  <2>2. CASE stage # "off"
    BY <1>1, <2>2 DEF StoreInv, ActiveInv, TypeOK
  <2>3. QED
    BY <2>1, <2>2
<1>3. Neighbour(eeprom[1 - a].sequence, eeprom[a].sequence)
  BY <1>2 DEF CommittedIn
<1>4. CASE a = 0
  BY <1>3, <1>4 DEF Neighbour, SlotValid
<1>5. CASE a = 1
  BY <1>3, <1>5 DEF Neighbour, SlotValid
<1>6. QED
  BY <1>4, <1>5 DEF Slots

(* One write of save() touches the target slot only, so what is left to show
   of it is about the slot that results. *)
LEMMA WriteKeepsActive ==
  ASSUME TypeOK, StoreInv, stage # "off",
         NEW w \in SlotRecords,
         w.sequence = Target.sequence \/ w.sequence = Garbage
           \/ w.sequence = NextSequence(sequence),
         eeprom' = [eeprom EXCEPT ![TargetSlot] = w],
         UNCHANGED <<activeSlot, sequence, hasActiveSlot, committed>>
  PROVE  /\ Target' = w
         /\ ActiveInv'
         /\ NeverCommitted' \/ \E a \in Slots : CommittedIn(a)'
<1>1. TargetSlot' = TargetSlot /\ TargetSlot \in Slots
  BY TargetType DEF TargetSlot
<1>2. Target' = w
  BY <1>1 DEF Target, TypeOK
<1>3. CASE ~hasActiveSlot
  <2>1. /\ sequence = 0 /\ committed = Defaults
        /\ eeprom[1] = BlankSlot
        /\ eeprom[0].sequence \in {1, Garbage}
        /\ TargetSlot = 0
    BY <1>3 DEF StoreInv, ActiveInv, NeverCommitted, TargetSlot
  <2>2. NextSequence(0) = 1
    BY StoreAssumption DEF NextSequence
  <2>3. w.sequence \in {1, Garbage}
    BY <2>1, <2>2 DEF Target
  <2>4. eeprom'[1] = BlankSlot /\ eeprom'[0] = w
    BY <2>1 DEF TypeOK, Slots
  <2>5. NeverCommitted'
    BY <2>3, <2>4 DEF NeverCommitted
  <2>6. ActiveInv'
    BY <1>3, <2>1, <2>5 DEF ActiveInv
  <2>7. QED
    BY <1>2, <2>5, <2>6
<1>4. CASE hasActiveSlot
  <2>1. /\ CommittedIn(activeSlot)
        /\ eeprom[activeSlot].sequence = sequence
        /\ eeprom[activeSlot].data = committed
        /\ TargetSlot = 1 - activeSlot
        /\ activeSlot \in {0, 1}
    BY <1>4 DEF StoreInv, ActiveInv, TargetSlot, TypeOK, Slots
  <2>2. eeprom'[activeSlot] = eeprom[activeSlot] /\ eeprom'[1 - activeSlot] = w
    BY <2>1 DEF TypeOK, Slots
  <2>3. Neighbour(w.sequence, sequence)
    BY <2>1 DEF CommittedIn, Neighbour, Target
  <2>4. CommittedIn(activeSlot)'
    BY <2>1, <2>2, <2>3 DEF CommittedIn
  <2>5. ActiveInv'
    BY <1>4, <2>1, <2>2, <2>4 DEF ActiveInv
  <2>6. QED
    BY <1>2, <2>1, <2>4, <2>5 DEF Slots
<1>5. QED
  BY <1>3, <1>4

(* load() finds the newer of two slots whose numbers are one apart. *)
LEMMA LoadFindsNewest ==
  ASSUME TypeOK, NEW a \in Slots, CommittedIn(a)
  PROVE  LET n == LoadSlot(eeprom)
         IN  /\ ~NeitherValid(eeprom)
             /\ CommittedIn(n)
             /\ SlotValid(eeprom[1 - n]) =>
                  eeprom[n].sequence = NextSequence(eeprom[1 - n].sequence)
<1> DEFINE b == 1 - a
<1>1. a \in {0, 1} /\ b \in {0, 1} /\ a # b /\ 1 - b = a
  BY DEF Slots
<1>2. /\ SlotValid(eeprom[a])
      /\ Neighbour(eeprom[b].sequence, eeprom[a].sequence)
      /\ eeprom[a] \in SlotRecords /\ eeprom[b] \in SlotRecords
  BY <1>1 DEF CommittedIn, TypeOK, Slots
<1>3. ~NeitherValid(eeprom)
  BY <1>1, <1>2 DEF NeitherValid
<1> HIDE DEF b
<1>4. CASE ~SlotValid(eeprom[b])
  <2>1. LoadSlot(eeprom) = a
    BY <1>1, <1>2, <1>4 DEF LoadSlot
  <2>2. QED
    BY <1>3, <1>4, <2>1 DEF b
<1>5. CASE SlotValid(eeprom[b])
  <2>1. eeprom[a].sequence \in Sequences32 /\ eeprom[b].sequence \in Sequences32
    BY <1>2, <1>5, ValidSlot
  <2>2. CASE eeprom[a].sequence = NextSequence(eeprom[b].sequence)
    <3>1. /\ NewerSequence(eeprom[a].sequence, eeprom[b].sequence)
          /\ ~NewerSequence(eeprom[b].sequence, eeprom[a].sequence)
      BY <2>1, <2>2, NextIsNewer
    <3>2. LoadSlot(eeprom) = a
      BY <1>1, <1>2, <1>5, <3>1 DEF LoadSlot
    <3>3. QED
      BY <1>3, <2>2, <3>2 DEF b
  <2>3. CASE eeprom[b].sequence = NextSequence(eeprom[a].sequence)
    <3>1. /\ NewerSequence(eeprom[b].sequence, eeprom[a].sequence)
          /\ ~NewerSequence(eeprom[a].sequence, eeprom[b].sequence)
      BY <2>1, <2>3, NextIsNewer
    <3>2. LoadSlot(eeprom) = b
      BY <1>1, <1>2, <1>5, <3>1 DEF LoadSlot
    <3>3. CommittedIn(b)
      BY <1>1, <1>5, <2>3 DEF CommittedIn, Neighbour
    <3>4. QED
      BY <1>1, <1>3, <2>3, <3>2, <3>3
  <2>4. QED
    BY <1>2, <1>5, <2>2, <2>3 DEF Neighbour, SlotValid
<1>6. QED
  BY <1>4, <1>5

(* Every step preserves the invariant. *)
LEMMA StoreInvStep ==
  ASSUME TypeOK, TypeOK', StoreInv, [Next]_vars
  PROVE  StoreInv'
<1>1. TargetSlot \in Slots /\ Target \in SlotRecords
  BY TargetType
<1>2. sequence \in Sequences32 /\ NextSequence(sequence) \in Sequences32
  BY NextIsNewer DEF TypeOK
<1>3. CASE Load
  <2>1. stage = "off" /\ stage' = "idle" /\ eeprom' = eeprom
    BY <1>3 DEF Load
  <2>2. CASE \E a \in Slots : CommittedIn(a)
    <3> DEFINE n == LoadSlot(eeprom)
    <3>1. n \in {0, 1}
      BY LoadedType DEF Slots
    <3>2. /\ ~NeitherValid(eeprom)
          /\ CommittedIn(n)
          /\ SlotValid(eeprom[1 - n]) =>
               eeprom[n].sequence = NextSequence(eeprom[1 - n].sequence)
      BY <2>2, LoadFindsNewest
    <3>3. /\ hasActiveSlot' = TRUE /\ activeSlot' = n
          /\ sequence' = eeprom[n].sequence
          /\ committed' = eeprom[n].data
      BY <1>3, <3>2 DEF Load, Loaded
    <3> HIDE DEF n
    <3>4. ActiveInv'
      BY <2>1, <3>2, <3>3 DEF ActiveInv, CommittedIn
    <3>5. Target' = eeprom[1 - n]
      BY <2>1, <3>3 DEF Target, TargetSlot
    <3>6. TargetInv'
      BY <3>2, <3>3, <3>5, <2>1 DEF TargetInv
    <3>7. QED
      BY <2>1, <3>4, <3>6 DEF StoreInv, OffInv, FaultInv
  <2>3. CASE ~\E a \in Slots : CommittedIn(a)
    <3>1. NeverCommitted
      BY <2>1, <2>3 DEF StoreInv, OffInv
    <3>2. ~SlotValid(eeprom[1])
      BY <3>1 DEF NeverCommitted, BlankSlot, SlotValid
    <3>3. ~SlotValid(eeprom[0])
      BY <2>3, <3>1 DEF CommittedIn, Slots, NeverCommitted, BlankSlot, Neighbour
    <3>4. NeitherValid(eeprom)
      BY <3>2, <3>3 DEF NeitherValid
    <3>5. /\ hasActiveSlot' = FALSE /\ sequence' = 0
          /\ committed' = Defaults
      BY <1>3, <3>4 DEF Load, Loaded
    <3>6. Target' = eeprom[0]
      BY <2>1, <3>5 DEF Target, TargetSlot
    <3>7. NeverCommitted'
      BY <2>1, <3>1 DEF NeverCommitted
    <3>8. QED
      BY <2>1, <3>3, <3>5, <3>6, <3>7
         DEF StoreInv, OffInv, ActiveInv, TargetInv, FaultInv
  <2>4. QED
    BY <2>2, <2>3
<1>4. ASSUME NEW d \in Data, BeginSave(d) PROVE StoreInv'
  BY <1>4 DEF BeginSave, StoreInv, OffInv, ActiveInv, TargetInv, FaultInv,
       NeverCommitted, CommittedIn, Target, TargetSlot
<1>5. CASE InvalidateMagic
  <2>1. PICK w \in {[Target EXCEPT !.magic = FALSE], Target} :
          eeprom' = [eeprom EXCEPT ![TargetSlot] = w]
    BY <1>5 DEF InvalidateMagic, UpdateBytes
  <2>2. /\ w \in SlotRecords /\ w.sequence = Target.sequence
        /\ SlotValid(w) => SlotValid(Target)
    BY <1>1, <2>1 DEF SlotRecords, SlotValid
  <2>3. /\ stage = "invalidate" /\ stage' = "data"
        /\ UNCHANGED <<activeSlot, sequence, hasActiveSlot, committed>>
    BY <1>5 DEF InvalidateMagic, UpdateBytes
  <2>4. Target' = w /\ ActiveInv'
    BY <2>1, <2>2, <2>3, WriteKeepsActive
  <2>5. TargetInv'
    BY <2>2, <2>3, <2>4 DEF StoreInv, TargetInv
  <2>6. QED
    BY <2>3, <2>4, <2>5 DEF StoreInv, OffInv, FaultInv
<1>6. CASE WriteData
  <2>1. PICK w \in {[Target EXCEPT !.data = ram], Target,
                    [Target EXCEPT !.data = Garbage]} :
          eeprom' = [eeprom EXCEPT ![TargetSlot] = w]
    BY <1>6 DEF WriteData, UpdateBytes
  <2>2. /\ w \in SlotRecords /\ w.sequence = Target.sequence
        /\ SlotValid(w) => w.data = ram \/ w = Target
    BY <1>1, <2>1 DEF SlotRecords, SlotValid, TypeOK
  <2>3. /\ stage = "data" /\ stage' = "header"
        /\ UNCHANGED <<activeSlot, sequence, hasActiveSlot, committed, ram>>
    BY <1>6 DEF WriteData, UpdateBytes
  <2>4. Target' = w /\ ActiveInv'
    BY <2>1, <2>2, <2>3, WriteKeepsActive
  <2>5. TargetInv'
    BY <2>2, <2>3, <2>4 DEF StoreInv, TargetInv
  <2>6. faulty' \/ w.data = ram
    BY <1>1, <1>6, <2>1 DEF WriteData, UpdateBytes, SlotRecords, TypeOK
  <2>7. QED
    BY <2>3, <2>4, <2>5, <2>6 DEF StoreInv, OffInv, FaultInv
<1>7. CASE WriteHeader
  <2> DEFINE s == NextSequence(sequence)
  <2>1. PICK w \in {[Target EXCEPT !.sequence = s, !.checksum = Checksum(s, ram)],
                    Target,
                    [Target EXCEPT !.sequence = Garbage, !.checksum = Garbage],
                    [Target EXCEPT !.sequence = s, !.checksum = Garbage]} :
          eeprom' = [eeprom EXCEPT ![TargetSlot] = w]
    BY <1>7 DEF WriteHeader, UpdateBytes
  <2>2. Checksum(s, ram) \in Sequences32 \X Data
    BY <1>2 DEF Checksum, TypeOK
  <2>3. w \in SlotRecords
    BY <1>1, <1>2, <2>1, <2>2 DEF SlotRecords
  <2>4. w.sequence \in {Target.sequence, Garbage, s}
    BY <1>1, <2>1 DEF SlotRecords
  <2>5. SlotValid([w EXCEPT !.magic = TRUE]) => w.data = ram
    <3> DEFINE v == [w EXCEPT !.magic = TRUE]
    <3>1. /\ v \in SlotRecords /\ v.checksum = w.checksum
          /\ v.sequence = w.sequence /\ v.data = w.data
      BY <2>3 DEF SlotRecords
    <3>2. CASE w = [Target EXCEPT !.sequence = s, !.checksum = Checksum(s, ram)]
      <4>1. w.checksum = Checksum(s, ram)
        BY <1>1, <3>2 DEF SlotRecords
      <4>2. QED
        BY <3>1, <4>1 DEF SlotValid, Checksum
    <3>3. CASE w.checksum = Garbage
      <4> HIDE DEF v
      <4>1. SlotValid(v) => v.sequence \in Int /\ v.data \in Data
        BY <3>1, ValidSlot DEF Sequences32
      <4>2. ~SlotValid(v)
        BY <3>1, <3>3, <4>1, StoreAssumption DEF SlotValid, Checksum
      <4>3. QED
        BY <4>2 DEF v
    <3>4. CASE w = Target /\ ~faulty
      BY <1>7, <3>4 DEF StoreInv, FaultInv, WriteHeader, UpdateBytes
    <3>5. \/ w = [Target EXCEPT !.sequence = s, !.checksum = Checksum(s, ram)]
          \/ w = Target /\ ~faulty
          \/ w.checksum = Garbage
      <4>1. CASE w = Target /\ faulty
        <5>1. eeprom' = [eeprom EXCEPT ![TargetSlot] =
                [Target EXCEPT !.sequence = s, !.checksum = Checksum(s, ram)]]
          BY <1>7, <4>1 DEF WriteHeader, UpdateBytes
        <5>2. eeprom'[TargetSlot] = w
          BY <1>1, <2>1 DEF TypeOK
        <5>3. QED
          BY <1>1, <5>1, <5>2 DEF TypeOK
      <4>2. QED
        BY <1>1, <2>1, <4>1 DEF SlotRecords
    <3>6. QED
      BY <3>2, <3>3, <3>4, <3>5
  <2>6. SlotValid(w) => w = [w EXCEPT !.magic = TRUE]
    BY <2>3 DEF SlotRecords, SlotValid
  <2>7. /\ stage = "header" /\ stage' = "magic"
        /\ UNCHANGED <<activeSlot, sequence, hasActiveSlot, committed, ram>>
    BY <1>7 DEF WriteHeader, UpdateBytes
  <2>8. Target' = w /\ ActiveInv'
    BY <2>1, <2>3, <2>4, <2>7, WriteKeepsActive
  <2>9. TargetInv'
    BY <2>5, <2>6, <2>7, <2>8 DEF TargetInv
  <2>10. QED
    BY <2>5, <2>7, <2>8, <2>9 DEF StoreInv, OffInv, FaultInv
<1>8. CASE WriteMagic
  <2>1. PICK w \in {[Target EXCEPT !.magic = TRUE],
                    [Target EXCEPT !.magic = FALSE]} :
          eeprom' = [eeprom EXCEPT ![TargetSlot] = w]
    BY <1>8 DEF WriteMagic, UpdateBytes
  <2>2. /\ w \in SlotRecords /\ w.sequence = Target.sequence
        /\ w.data = Target.data
        /\ SlotValid(w) => w = [Target EXCEPT !.magic = TRUE]
    BY <1>1, <2>1 DEF SlotRecords, SlotValid
  <2>3. /\ stage = "magic" /\ stage' = "verify"
        /\ UNCHANGED <<activeSlot, sequence, hasActiveSlot, committed, ram>>
    BY <1>8 DEF WriteMagic, UpdateBytes
  <2>4. Target' = w /\ ActiveInv'
    BY <2>1, <2>2, <2>3, WriteKeepsActive
  <2>5. TargetInv'
    BY <2>2, <2>3, <2>4 DEF StoreInv, FaultInv, TargetInv
  <2>6. QED
    BY <2>3, <2>4, <2>5 DEF StoreInv, OffInv, FaultInv
<1>9. CASE VerifySucceeds
  <2> DEFINE t == TargetSlot
  <2>1. /\ stage' = "idle" /\ eeprom' = eeprom /\ hasActiveSlot' = TRUE
        /\ activeSlot' = t /\ sequence' = NextSequence(sequence)
        /\ committed' = ram
        /\ SlotValid(eeprom[t]) /\ eeprom[t].sequence = NextSequence(sequence)
        /\ eeprom[t].data = ram
    BY <1>9 DEF VerifySucceeds, ReadsBack, Target
  <2>2. /\ t \in {0, 1}
        /\ \/ eeprom[1 - t] = BlankSlot
           \/ SlotValid(eeprom[1 - t]) /\ eeprom[1 - t].sequence = sequence
    BY <1>9 DEF StoreInv, ActiveInv, NeverCommitted, CommittedIn, VerifySucceeds,
         TargetSlot, TypeOK, Slots
  <2>3. Target' = eeprom[1 - t]
    BY <2>1 DEF Target, TargetSlot
  <2> HIDE DEF t
  <2>4. Neighbour(eeprom[1 - t].sequence, eeprom[t].sequence)
    BY <2>1, <2>2 DEF Neighbour, BlankSlot
  <2>5. ActiveInv'
    BY <2>1, <2>4 DEF ActiveInv, CommittedIn
  <2>6. TargetInv'
    BY <2>1, <2>2, <2>3 DEF TargetInv, BlankSlot, SlotValid
  <2>7. QED
    BY <2>1, <2>5, <2>6 DEF StoreInv, OffInv, FaultInv
<1>10. CASE VerifyFails
  BY <1>10 DEF VerifyFails, StoreInv, OffInv, ActiveInv, TargetInv, FaultInv,
       NeverCommitted, CommittedIn, Target, TargetSlot
<1>11. CASE RejectCandidate
  <2> DEFINE w == [Target EXCEPT !.magic = FALSE]
  <2>1. /\ eeprom' = [eeprom EXCEPT ![TargetSlot] = w]
        /\ stage = "reject" /\ stage' = "idle"
        /\ UNCHANGED <<activeSlot, sequence, hasActiveSlot, committed>>
    BY <1>11 DEF RejectCandidate, UpdateBytes
  <2>2. w \in SlotRecords /\ w.sequence = Target.sequence /\ ~SlotValid(w)
    BY <1>1 DEF SlotRecords, SlotValid
  <2> HIDE DEF w
  <2>3. Target' = w /\ ActiveInv'
    BY <2>1, <2>2, WriteKeepsActive
  <2>4. QED
    BY <2>1, <2>2, <2>3 DEF StoreInv, OffInv, TargetInv, FaultInv
<1>12. CASE PowerLoss
  <2>1. PICK w \in TornSlots : eeprom' = [eeprom EXCEPT ![TargetSlot] = w]
    BY <1>12 DEF PowerLoss
  <2>2. /\ w \in SlotRecords
        /\ w.sequence \in {Target.sequence, Garbage, NextSequence(sequence)}
    BY <1>1, <1>2, <2>1 DEF TornSlots, SlotRecords
  <2>3. /\ stage # "off" /\ stage' = "off"
        /\ UNCHANGED <<activeSlot, sequence, hasActiveSlot, committed>>
    BY <1>12 DEF PowerLoss
  <2>4. NeverCommitted' \/ \E a \in Slots : CommittedIn(a)'
    BY <2>1, <2>2, <2>3, WriteKeepsActive
  <2>5. QED
    BY <2>3, <2>4 DEF StoreInv, OffInv, ActiveInv, TargetInv, FaultInv
<1>13. CASE UNCHANGED vars
  BY <1>13 DEF vars, StoreInv, OffInv, ActiveInv, TargetInv, FaultInv,
       NeverCommitted, CommittedIn, Target, TargetSlot
<1>14. QED
  BY <1>3, <1>4, <1>5, <1>6, <1>7, <1>8, <1>9, <1>10, <1>11, <1>12, <1>13
     DEF Next

(* The store's inductive invariant holds in every reachable state. *)
THEOREM StoreInvariance == Spec => []StoreInv
<1>1. Init => StoreInv
  BY DEF Init, StoreInv, OffInv, ActiveInv, TargetInv, FaultInv, NeverCommitted,
       BlankSlot, Slots
<1>2. TypeOK /\ TypeOK' /\ StoreInv /\ [Next]_vars => StoreInv'
  BY StoreInvStep
<1>3. QED
  BY <1>1, <1>2, TypeCorrect, PTL DEF Spec

(* Whatever write the power is lost in, the next start finds the committed
   record or, if a save was in progress, possibly the one being saved; outside
   a save it finds the committed record. *)
THEOREM RecoverableAlways == Spec => []CommittedRecoverable
<1>1. TypeOK /\ StoreInv => CommittedRecoverable
  BY StoreInvImplies
<1>2. QED
  BY <1>1, TypeCorrect, StoreInvariance, PTL

(* The signed comparison of load() always decides between neighbours, however
   often the sequence number has wrapped. *)
THEOREM AdjacentAlways == Spec => []SequencesAdjacent
<1>1. TypeOK /\ StoreInv => SequencesAdjacent
  BY StoreInvAdjacent
<1>2. QED
  BY <1>1, TypeCorrect, StoreInvariance, PTL

-----------------------------------------------------------------------------
(* Power lost inside a write: a torn slot is what it was before, or invalid. *)
LEMMA TornIsInvalid ==
  ASSUME TypeOK, NEW w \in TornSlots
  PROVE  w = Target \/ ~SlotValid(w)
<1>1. Target \in SlotRecords
  BY TargetType
<1>2. NextSequence(sequence) \in Sequences32
  BY NextIsNewer DEF TypeOK
<1>3. w \in SlotRecords
  BY <1>1, <1>2 DEF TornSlots, SlotRecords
<1>4. w = Target \/ w.data = Garbage \/ w.checksum = Garbage
  BY <1>1 DEF TornSlots, SlotRecords
<1>5. SlotValid(w) => w.sequence \in Int /\ w.data \in Data
  BY <1>3, ValidSlot DEF Sequences32
<1>6. QED
  BY <1>4, <1>5, StoreAssumption DEF SlotValid, Checksum

(* With an invalid target slot, a start finds the committed record. *)
LEMMA InvalidTargetLoads ==
  ASSUME TypeOK, StoreInv, stage # "off", NEW w, ~SlotValid(w),
         eeprom' = [eeprom EXCEPT ![TargetSlot] = w]
  PROVE  Loaded(eeprom') = committed
<1>1. CASE ~hasActiveSlot
  <2>1. /\ committed = Defaults /\ TargetSlot = 0
        /\ ~SlotValid(eeprom[1])
    BY <1>1 DEF StoreInv, ActiveInv, NeverCommitted, BlankSlot, SlotValid,
                TargetSlot
  <2>2. eeprom'[0] = w /\ eeprom'[1] = eeprom[1]
    BY <2>1 DEF TypeOK, Slots
  <2>3. QED
    BY <2>1, <2>2 DEF Loaded, NeitherValid
<1>2. CASE hasActiveSlot
  <2>1. /\ SlotValid(eeprom[activeSlot])
        /\ eeprom[activeSlot].data = committed
        /\ TargetSlot = 1 - activeSlot
        /\ activeSlot \in {0, 1}
    BY <1>2 DEF StoreInv, ActiveInv, CommittedIn, TargetSlot, TypeOK, Slots
  <2>2. eeprom'[activeSlot] = eeprom[activeSlot] /\ eeprom'[1 - activeSlot] = w
    BY <2>1 DEF TypeOK, Slots
  <2>3. LoadSlot(eeprom') = activeSlot /\ ~NeitherValid(eeprom')
    BY <2>1, <2>2 DEF LoadSlot, NeitherValid
  <2>4. QED
    BY <2>1, <2>2, <2>3 DEF Loaded
<1>3. QED
  BY <1>1, <1>2

(* The two-slot store, with power lost in any write and a faulty write in any
   save, behaves as one durable record that is replaced as a whole or not. *)
THEOREM StoreImplementsDurableRecord == Spec => ImplementsDurableRecord
<1>1. Init => Abstract!Init
  BY DEF Init, Abstract!Init, Loaded, NeitherValid, SlotValid, BlankSlot, Slots,
         SaveStages
<1>2. TypeOK /\ StoreInv /\ CommittedRecoverable /\ [Next]_vars
        => [Abstract!Next]_(Abstract!vars)
  <2> SUFFICES ASSUME TypeOK, StoreInv, CommittedRecoverable, [Next]_vars
               PROVE  [Abstract!Next]_(Abstract!vars)
    OBVIOUS
  <2> USE DEF SaveStages
  <2>1. CASE Load
    <3>1. Abstract!Start
      BY <2>1 DEF Load, Abstract!Start
    <3>2. QED
      BY <3>1 DEF Abstract!Next
  <2>2. ASSUME NEW d \in Data, BeginSave(d)
        PROVE  [Abstract!Next]_(Abstract!vars)
    <3>1. Abstract!BeginSave(d)
      BY <2>2 DEF BeginSave, Abstract!BeginSave
    <3>2. QED
      BY <3>1 DEF Abstract!Next
  <2>3. CASE \/ InvalidateMagic \/ WriteData \/ WriteHeader \/ WriteMagic
             \/ VerifyFails
    BY <2>3 DEF InvalidateMagic, WriteData, WriteHeader, WriteMagic, VerifyFails,
         UpdateBytes, Abstract!vars
  <2>4. CASE VerifySucceeds
    <3>1. Abstract!SaveSucceeds
      BY <2>4 DEF VerifySucceeds, Abstract!SaveSucceeds
    <3>2. QED
      BY <3>1 DEF Abstract!Next
  <2>5. CASE RejectCandidate
    <3>1. Abstract!SaveFails
      BY <2>5 DEF RejectCandidate, UpdateBytes, Abstract!SaveFails
    <3>2. QED
      BY <3>1 DEF Abstract!Next
  <2>6. CASE PowerLoss
    <3>1. PICK w \in TornSlots : eeprom' = [eeprom EXCEPT ![TargetSlot] = w]
      BY <2>6 DEF PowerLoss
    <3>2. stage # "off" /\ stage' = "off" /\ UNCHANGED ram
      BY <2>6 DEF PowerLoss
    <3>3. CASE w = Target
      <4>1. eeprom' = eeprom
        BY <3>1, <3>3, TargetType DEF TypeOK, Target
      <4>2. Loaded(eeprom') \in
              IF stage \in SaveStages THEN {committed, ram} ELSE {committed}
        BY <3>2, <4>1 DEF CommittedRecoverable, TypeOK
      <4>3. Abstract!PowerLoss
        BY <3>2, <4>2 DEF Abstract!PowerLoss
      <4>4. QED
        BY <4>3 DEF Abstract!Next
    <3>4. CASE ~SlotValid(w)
      <4>1. Loaded(eeprom') = committed
        BY <3>1, <3>2, <3>4, InvalidTargetLoads
      <4>2. Abstract!PowerLoss
        BY <3>2, <4>1 DEF Abstract!PowerLoss
      <4>3. QED
        BY <4>2 DEF Abstract!Next
    <3>5. QED
      BY <3>1, <3>3, <3>4, TornIsInvalid
  <2>7. CASE UNCHANGED vars
    BY <2>7 DEF vars, Abstract!vars, Loaded, NeitherValid, LoadSlot
  <2>8. QED
    BY <2>1, <2>2, <2>3, <2>4, <2>5, <2>6, <2>7 DEF Next
<1>3. QED
  BY <1>1, <1>2, TypeCorrect, StoreInvariance, RecoverableAlways, PTL
     DEF Spec, ImplementsDurableRecord, Abstract!Spec

-----------------------------------------------------------------------------
(* The labels of the adapters. *)

(* The generation that a client has read under the identity in force is as far behind as
   its version, around the end of the numbers once at most. *)
Behind ==
  \A c \in Clients :
    /\ read[c] # Never => known[c] # Never
    /\ known[c] \notin {Never, Outdated} =>
         /\ read[c] # Never /\ known[c] <= version
         /\ read[c] + (version - known[c]) \in {Current.generation, Current.generation + Generations}

Replaced == step = "verify" /\ NamesReadBack

(* A save writes the slot that is not in use, with a record that follows the one in use,
   and what is not yet verified is no record. *)
Saving ==
  step # "idle" =>
    /\ save.body.identity = identity /\ Valid(save.body.labels)
    /\ step \in {"body", "magic"} => ~slots[save.target].magic
    /\ step \in {"magic", "verify"} => slots[save.target].body \in {save.body, Garbage}
    /\ ~Replaced => /\ save.target # Active /\ version < MaxChanges
                    /\ save.body.generation = Following(Current.generation)

NamesInv == NamesTypeOK /\ Behind /\ Saving

-----------------------------------------------------------------------------
(* The slot in use. *)

LEMMA NextGeneration ==
  ASSUME NEW g \in 0 .. Generations - 1
  PROVE  Following(g) = IF g = Generations - 1 THEN 0 ELSE g + 1
<1>1. Generations \in Nat /\ Generations > 1
  BY NamesAssumption
<1>2. CASE g = Generations - 1
  BY <1>1, <1>2, Generations % Generations = 0 DEF Following
<1>3. CASE g # Generations - 1
  BY <1>1, <1>3 DEF Following
<1>4. QED
  BY <1>2, <1>3

LEMMA ActiveHolds ==
  /\ Active \in Slots \cup {NoActive}
  /\ Active \in Slots => Holds(slots[Active], identity)
  /\ \A s \in Slots : Holds(slots[s], identity) => Active # NoActive
<1> DEFINE own == {s \in Slots : Holds(slots[s], identity)}
<1>1. own \in {{}, {0}, {1}, {0, 1}}
  BY DEF Slots
<1> HIDE DEF own
<1>2. Active = CASE own = {}  -> 2
                 [] own = {0} -> 0
                 [] own = {1} -> 1
                 [] OTHER     -> IF Newer(slots[1].body.generation, slots[0].body.generation)
                                   THEN 1 ELSE 0
  BY DEF Active, own
<1>3. Active \in Slots \cup {NoActive} /\ (Active \in Slots => Active \in own)
      /\ \A s \in own : Active # NoActive
  BY <1>1, <1>2 DEF Slots, NoActive
<1>4. QED
  BY <1>3 DEF own

LEMMA InUseHolds == Active # NoActive => Active \in Slots /\ Holds(slots[Active], identity)
BY ActiveHolds

(* After a write: the slot that holds a record alone, or the newer of two that follow
   each other. *)
LEMMA OnlyHolder ==
  ASSUME NEW s \in Slots, Holds(slots'[s], identity'), ~Holds(slots'[1 - s], identity')
  PROVE  Active' = s
<1>1. {t \in Slots : Holds(slots'[t], identity')} = {s}
  BY DEF Slots
<1>2. {t \in Slots : Holds(slots'[t], identity')} = {0} => Active' = 0
  BY DEF Active
<1>3. {t \in Slots : Holds(slots'[t], identity')} = {1} => Active' = 1
  BY DEF Active
<1>4. QED
  BY <1>1, <1>2, <1>3 DEF Slots

LEMMA NewerHolder ==
  ASSUME NEW s \in Slots, \A t \in Slots : Holds(slots'[t], identity'),
         slots'[1 - s].body.generation \in 0 .. Generations - 1,
         slots'[s].body.generation = Following(slots'[1 - s].body.generation),
         Generations > 2
  PROVE  Active' = s
<1> DEFINE a == slots'[1 - s].body.generation
           b == slots'[s].body.generation
<1>1. {t \in Slots : Holds(slots'[t], identity')} = {0, 1}
  BY DEF Slots
<1>2. Active' = IF Newer(slots'[1].body.generation, slots'[0].body.generation) THEN 1 ELSE 0
  BY <1>1 DEF Active
<1>3. Generations \in Nat
  BY NamesAssumption
<1>4. a \in 0 .. Generations - 1 /\ b = IF a = Generations - 1 THEN 0 ELSE a + 1
  BY NextGeneration
<1> HIDE DEF a, b
<1>5. b + Generations - a = 1 \/ b + Generations - a = Generations + 1
  BY <1>3, <1>4
<1>6. a + Generations - b = Generations - 1 \/ a + Generations - b = Generations + (Generations - 1)
  BY <1>3, <1>4
<1>7. (b + Generations - a) % Generations = 1
  BY <1>3, <1>5
<1>8. (a + Generations - b) % Generations = Generations - 1
  BY <1>3, <1>6
<1>9. Newer(b, a) /\ ~Newer(a, b)
  BY <1>3, <1>7, <1>8 DEF Newer
<1>10. QED
  BY <1>2, <1>9 DEF Slots, a, b

(* What happens to a slot that is not in use does not matter while it is no record. *)
LEMMA ActiveKept ==
  ASSUME NEW t \in Slots, t # Active, identity' = identity,
         \A s \in Slots : s # t => slots'[s] = slots[s], ~Holds(slots'[t], identity)
  PROVE  Active' = Active /\ Current' = Current
<1>1. CASE Active = NoActive
  <2>1. \A s \in Slots : ~Holds(slots'[s], identity)
    BY <1>1, ActiveHolds
  <2>2. {s \in Slots : Holds(slots'[s], identity')} = {}
    BY <2>1
  <2>3. Active' = NoActive
    BY <2>2 DEF Active, NoActive
  <2>4. QED
    BY <1>1, <2>3 DEF Current
<1>2. CASE Active # NoActive
  <2>1. Active \in Slots /\ Holds(slots[Active], identity)
    BY <1>2, ActiveHolds
  <2>2. slots'[Active] = slots[Active] /\ 1 - Active = t
    BY <2>1 DEF Slots
  <2>3. {s \in Slots : Holds(slots'[s], identity')} = {Active}
    BY <2>1, <2>2 DEF Slots
  <2>4. Active' = Active
    <3>1. {s \in Slots : Holds(slots'[s], identity')} = {0} => Active' = 0
      BY DEF Active
    <3>2. {s \in Slots : Holds(slots'[s], identity')} = {1} => Active' = 1
      BY DEF Active
    <3>3. QED
      BY <2>1, <2>3, <3>1, <3>2 DEF Slots
  <2>5. QED
    BY <2>2, <2>4 DEF Current
<1>3. QED
  BY <1>1, <1>2

LEMMA CurrentType ==
  ASSUME NamesTypeOK
  PROVE  /\ Current.generation \in 0 .. Generations - 1 /\ Current.labels \in Requests
         /\ Current = [generation |-> Current.generation, labels |-> Current.labels]
<1>1. CASE Active = NoActive
  BY <1>1, NamesAssumption DEF Current
<1>2. CASE Active # NoActive
  <2>1. Active \in Slots /\ slots[Active] \in NamesSlots /\ slots[Active].body # Garbage
    BY <1>2, ActiveHolds DEF Holds, NamesTypeOK
  <2>2. slots[Active].body \in Bodies
    BY <2>1 DEF NamesSlots
  <2>3. QED
    BY <1>2, <2>2 DEF Current, Bodies
<1>3. QED
  BY <1>1, <1>2

LEMMA InUseKept ==
  UNCHANGED <<slots, identity>> => Active' = Active /\ Current' = Current
BY DEF Active, Current, Holds, Newer

-----------------------------------------------------------------------------
(* The steps of a save. *)

(* A request that is not refused is confirmed, or begins a save. *)
LEMMA SetCases ==
  ASSUME NEW c \in Clients, NEW labels \in Requests, SetAdapterNames(c, labels)
  PROVE  /\ step = "idle" /\ read[c] # Never
         /\ \/ Answered("invalid") \/ Answered("stale")
            \/ read[c] = Current.generation /\ labels = Current.labels /\ Answered("ok")
            \/ /\ read[c] = Current.generation /\ labels # Current.labels /\ Valid(labels)
               /\ version < MaxChanges /\ step' = "invalidate" /\ answer' = "none"
               /\ save' = [target |-> Spare, client |-> c,
                           body |-> [identity |-> identity, generation |-> Following(read[c]),
                                     labels |-> labels]]
               /\ UNCHANGED <<slots, identity, stored, flawed, read, version, known>>
BY DEF SetAdapterNames, UpToDate

(* What a save has written so far is no record, and the one in use remains. *)
LEMMA SlotWritten ==
  ASSUME NamesInv, step # "idle", ~Replaced, NEW slot \in NamesSlots,
         slots' = [slots EXCEPT ![save.target] = slot], ~Holds(slot, identity),
         UNCHANGED <<identity, read, known, version>>
  PROVE  /\ slots' \in [Slots -> NamesSlots] /\ slots'[save.target] = slot
         /\ Behind'
         /\ Active' = Active /\ Current' = Current
<1>1. /\ save.target \in Slots /\ save.target # Active /\ slots \in [Slots -> NamesSlots]
      /\ Behind
  BY DEF NamesInv, NamesTypeOK, Saving
<1>2. /\ slots' \in [Slots -> NamesSlots] /\ slots'[save.target] = slot
      /\ \A s \in Slots : s # save.target => slots'[s] = slots[s]
  BY <1>1
<1>3. Active' = Active /\ Current' = Current
  BY <1>1, <1>2, ActiveKept
<1>4. Behind'
  BY <1>1, <1>3 DEF Behind
<1>5. QED
  BY <1>2, <1>3, <1>4

LEMMA SaveType ==
  ASSUME NamesInv, step # "idle"
  PROVE  /\ save \in [target : Slots, client : Clients, body : Bodies]
         /\ save.target \in Slots /\ save.client \in Clients /\ save.body \in Bodies
         /\ save.body # Garbage /\ save.client # Never
         /\ slots[save.target] \in NamesSlots
         /\ save.body.identity = identity
<1>1. save \in [target : Slots, client : Clients, body : Bodies] /\ slots \in [Slots -> NamesSlots]
  BY DEF NamesInv, NamesTypeOK
<1>2. save.body.identity = identity
  BY DEF NamesInv, Saving
<1>3. QED
  BY <1>1, <1>2, NamesAssumption

(* With the magic number the record takes effect, or the write went wrong before. *)
LEMMA MagicWritten ==
  ASSUME NamesInv, WriteNamesMagic
  PROVE  /\ slots' \in [Slots -> NamesSlots]
         /\ slots'[save.target].body \in {save.body, Garbage}
         /\ \/ /\ Replaced' /\ version' = version + 1
               /\ Current' = [generation |-> save.body.generation, labels |-> save.body.labels]
            \/ /\ ~Replaced' /\ version' = version /\ Behind'
               /\ Active' = Active /\ Current' = Current
<1> DEFINE t == save.target
           old == slots[save.target]
           new == [old EXCEPT !.magic = TRUE]
<1>1. /\ step = "magic" /\ step' = "verify" /\ ~Replaced /\ t # Active
      /\ UNCHANGED <<identity, stored, save, read, answer, known>>
      /\ slots \in [Slots -> NamesSlots] /\ t \in Slots
      /\ old \in NamesSlots /\ ~old.magic /\ old.body \in {save.body, Garbage}
      /\ save' = save
  BY SaveType DEF WriteNamesMagic, Update, NamesInv, NamesTypeOK, Saving, Replaced
<1>2. new \in NamesSlots /\ new.magic /\ new.body = old.body
  BY <1>1 DEF NamesSlots
<1>3. \/ slots' = [slots EXCEPT ![t] = new] \/ slots' = [slots EXCEPT ![t] = old]
  BY DEF WriteNamesMagic, Update
<1>4. version' = IF slots'[t] = [magic |-> TRUE, body |-> save.body] THEN version + 1 ELSE version
  BY DEF WriteNamesMagic
<1>5. save.body # Garbage /\ save.body \in Bodies /\ Valid(save.body.labels)
      /\ save.body.identity = identity
  BY <1>1, SaveType DEF NamesInv, Saving
<1> HIDE DEF new, old
<1>6. CASE slots' = [slots EXCEPT ![t] = new] /\ old.body = save.body
  <2>1. slots' \in [Slots -> NamesSlots] /\ slots'[t] = new /\ \A s \in Slots : s # t => slots'[s] = slots[s]
    BY <1>1, <1>2, <1>6
  <2>2. Holds(slots'[t], identity') /\ slots'[t].body = save.body
    BY <1>1, <1>2, <1>5, <1>6, <2>1 DEF Holds
  <2>3. Replaced'
    BY <1>1, <2>2 DEF Replaced, NamesReadBack
  <2>4. slots'[t] = [magic |-> TRUE, body |-> save.body]
    BY <1>2, <1>6, <2>1 DEF NamesSlots
  <2>6. Active' = t
    <3>1. CASE Active = NoActive
      <4>1. \A s \in Slots : ~Holds(slots[s], identity)
        BY <3>1, ActiveHolds
      <4>2. ~Holds(slots'[1 - t], identity')
        BY <1>1, <2>1, <4>1 DEF Slots
      <4>3. QED
        BY <1>1, <2>2, <4>2, OnlyHolder
    <3>2. CASE Active # NoActive
      <4>1. Active \in Slots /\ Holds(slots[Active], identity) /\ Active = 1 - t
        BY <1>1, <3>2, ActiveHolds DEF Slots
      <4>2. slots'[1 - t] = slots[1 - t] /\ Holds(slots'[1 - t], identity')
        BY <1>1, <2>1, <4>1
      <4>3. slots[1 - t].body.generation = Current.generation /\ Current.generation \in 0 .. Generations - 1
        BY <3>2, <4>1, CurrentType DEF Current, NamesInv
      <4>4. save.body.generation = Following(Current.generation) /\ version < MaxChanges /\ version \in Nat
        BY <1>1 DEF NamesInv, NamesTypeOK, Saving
      <4>5. Generations > 2
        BY <4>4, NamesAssumption
      <4>6. \A s \in Slots : Holds(slots'[s], identity')
        BY <1>1, <2>2, <4>1, <4>2 DEF Slots
      <4>7. slots'[t].body.generation = Following(slots'[1 - t].body.generation)
            /\ slots'[1 - t].body.generation \in 0 .. Generations - 1
        BY <2>2, <4>2, <4>3, <4>4
      <4>8. QED
        BY <1>1, <4>5, <4>6, <4>7, NewerHolder
    <3>3. QED
      BY <3>1, <3>2
  <2>7. Current' = [generation |-> save.body.generation, labels |-> save.body.labels]
    BY <1>1, <2>2, <2>6 DEF Current, Slots, NoActive
  <2>8. QED
    BY <1>4, <1>6, <2>1, <2>2, <2>3, <2>4, <2>7
<1>7. CASE \/ slots' = [slots EXCEPT ![t] = new] /\ old.body = Garbage
           \/ slots' = [slots EXCEPT ![t] = old]
  <2> DEFINE slot == slots'[t]
  <2>1. /\ slots' = [slots EXCEPT ![t] = slot] /\ slot \in {new, old} /\ slot \in NamesSlots
        /\ slot.body = old.body /\ ~(slot.magic /\ slot.body = save.body)
        /\ ~Holds(slot, identity)
    BY <1>1, <1>2, <1>5, <1>7 DEF Holds
  <2>2. version' = version
    BY <1>4, <2>1
  <2> HIDE DEF slot
  <2>3. /\ slots' \in [Slots -> NamesSlots] /\ slots'[t] = slot /\ Behind'
        /\ Active' = Active /\ Current' = Current
    BY <1>1, <2>1, <2>2, SlotWritten
  <2>4. ~Replaced'
    BY <1>1, <2>1, <2>3 DEF Replaced, NamesReadBack
  <2>5. QED
    BY <1>1, <2>1, <2>2, <2>3, <2>4
<1>8. QED
  BY <1>1, <1>3, <1>6, <1>7

(* A record that takes effect puts every client one generation further behind. *)
LEMMA FurtherBehind ==
  ASSUME NamesInv, version < MaxChanges, version' = version + 1, UNCHANGED <<read, known>>,
         Current'.generation = Following(Current.generation)
  PROVE  Behind'
<1> SUFFICES ASSUME NEW c \in Clients, known[c] \notin {Never, Outdated}
             PROVE  /\ read[c] # Never /\ known[c] <= version'
                    /\ read[c] + (version' - known[c])
                          \in {Current'.generation, Current'.generation + Generations}
  BY DEF Behind, NamesInv
<1> DEFINE cg == Current.generation
<1>1. /\ read[c] # Never /\ known[c] <= version
      /\ read[c] + (version - known[c]) \in {cg, cg + Generations}
  BY DEF NamesInv, Behind
<1>2. read[c] \in 0 .. Generations - 1 /\ known[c] \in 0 .. MaxChanges /\ version \in 0 .. MaxChanges
  BY <1>1 DEF NamesInv, NamesTypeOK
<1>3. cg \in 0 .. Generations - 1 /\ Generations \in Nat /\ MaxChanges \in Nat /\ MaxChanges + 1 < Generations
  BY CurrentType, NamesAssumption DEF NamesInv
<1>4. Current'.generation = IF cg = Generations - 1 THEN 0 ELSE cg + 1
  BY <1>3, NextGeneration
<1> HIDE DEF cg
<1>5. CASE cg = Generations - 1
  BY <1>1, <1>2, <1>3, <1>4, <1>5
<1>6. CASE cg # Generations - 1
  BY <1>1, <1>2, <1>3, <1>4, <1>6
<1>7. QED
  BY <1>5, <1>6

-----------------------------------------------------------------------------
(* Every step keeps the invariant. *)

LEMMA RequestKeeps ==
  ASSUME NamesInv, NEW c \in Clients,
         GetAdapterNames(c) \/ Refused \/ \E labels \in Requests : SetAdapterNames(c, labels)
  PROVE  NamesInv'
<1>1. NamesTypeOK /\ Behind /\ Saving
  BY DEF NamesInv
<1>2. ASSUME NEW status \in {"busy", "unsafe", "invalid", "stale", "ok"}, Answered(status)
      PROVE  NamesInv'
  <2>1. NamesTypeOK'
    BY <1>1, <1>2 DEF Answered, NamesTypeOK
  <2>2. Active' = Active /\ Current' = Current
    BY <1>1, <1>2, InUseKept DEF Answered
  <2>3. Behind' /\ Saving'
    BY <1>1, <1>2, <2>2 DEF Answered, Behind, Saving, Replaced, NamesReadBack, Holds
  <2>4. QED
    BY <2>1, <2>2, <2>3 DEF NamesInv
<1>3. CASE GetAdapterNames(c)
  <2>1. step = "idle" /\ UNCHANGED <<slots, identity, stored, step, save, flawed, answer, version>>
        /\ read' = [read EXCEPT ![c] = Current.generation] /\ known' = [known EXCEPT ![c] = version]
    BY <1>3 DEF GetAdapterNames
  <2>2. Current.generation \in 0 .. Generations - 1 /\ version \in 0 .. MaxChanges
    BY <1>1, CurrentType DEF NamesTypeOK
  <2>3. NamesTypeOK'
    BY <1>1, <2>1, <2>2 DEF NamesTypeOK
  <2>4. Active' = Active /\ Current' = Current
    BY <1>1, <2>1, InUseKept
  <2>5. Behind'
    <3> SUFFICES ASSUME NEW d \in Clients
                 PROVE  /\ read'[d] # Never => known'[d] # Never
                        /\ known'[d] \notin {Never, Outdated} =>
                             /\ read'[d] # Never /\ known'[d] <= version
                             /\ read'[d] + (version - known'[d])
                                   \in {Current.generation, Current.generation + Generations}
      BY <2>1, <2>4 DEF Behind
    <3>1. CASE d = c
      <4>1. read'[d] = Current.generation /\ known'[d] = version
        BY <1>1, <2>1, <3>1 DEF NamesTypeOK
      <4>2. Never # version /\ Never # Current.generation
        BY <2>2, NamesAssumption
      <4>3. QED
        BY <2>2, <4>1, <4>2
    <3>2. CASE d # c
      <4>1. read'[d] = read[d] /\ known'[d] = known[d]
        BY <1>1, <2>1, <3>2 DEF NamesTypeOK
      <4>2. QED
        BY <1>1, <4>1 DEF Behind
    <3>3. QED
      BY <3>1, <3>2
  <2>6. Saving'
    BY <2>1 DEF Saving
  <2>7. QED
    BY <2>3, <2>4, <2>5, <2>6 DEF NamesInv
<1>4. CASE Refused
  BY <1>2, <1>4 DEF Refused
<1>5. ASSUME NEW labels \in Requests, SetAdapterNames(c, labels)
      PROVE  NamesInv'
  <2>1. CASE \E status \in {"busy", "unsafe", "invalid", "stale", "ok"} : Answered(status)
    BY <1>2, <2>1
  <2>2. CASE /\ step = "idle" /\ read[c] = Current.generation /\ Valid(labels) /\ version < MaxChanges
             /\ step' = "invalidate" /\ answer' = "none"
             /\ save' = [target |-> Spare, client |-> c,
                         body |-> [identity |-> identity, generation |-> Following(read[c]),
                                   labels |-> labels]]
             /\ UNCHANGED <<slots, identity, stored, flawed, read, version, known>>
    <3>1. Spare \in Slots /\ Spare # Active
      BY ActiveHolds DEF Spare, Slots, NoActive
    <3>2. Following(read[c]) \in 0 .. Generations - 1
      BY <1>1, <2>2, CurrentType, NextGeneration, NamesAssumption
    <3>3. identity \in Identities
      BY <1>1, <1>5 DEF NamesTypeOK, SetAdapterNames
    <3>4. save' \in [target : Slots, client : Clients, body : Bodies]
      BY <2>2, <3>1, <3>2, <3>3 DEF Bodies
    <3>5. NamesTypeOK'
      BY <1>1, <2>2, <3>4 DEF NamesTypeOK
    <3>6. Active' = Active /\ Current' = Current
      BY <1>1, <2>2, InUseKept
    <3>7. Behind'
      BY <1>1, <2>2, <3>6 DEF Behind
    <3>8. Saving'
      BY <2>2, <3>1, <3>6 DEF Saving
    <3>9. QED
      BY <3>5, <3>6, <3>7, <3>8 DEF NamesInv
  <2>3. QED
    BY <1>5, <2>1, <2>2, SetCases
<1>6. QED
  BY <1>3, <1>4, <1>5

LEMMA WriteKeeps ==
  ASSUME NamesInv, Invalidate \/ WriteBody \/ WriteNamesMagic \/ Verify
  PROVE  NamesInv' /\ (step # "magic" => Current' = Current)
<1>1. NamesTypeOK /\ Behind /\ Saving
  BY DEF NamesInv
<1>2. CASE Invalidate
  <2> DEFINE slot == Invalid(slots[save.target])
  <2>1. /\ step = "invalidate" /\ step' = "body" /\ slots' = [slots EXCEPT ![save.target] = slot]
        /\ flawed' \in {flawed, TRUE} /\ UNCHANGED <<identity, stored, save, read, answer, known, version>>
    BY <1>2 DEF Invalidate, Update
  <2>2. slots[save.target] \in NamesSlots /\ slot \in NamesSlots /\ ~slot.magic /\ ~Holds(slot, identity)
    BY <1>1, <2>1, SaveType DEF Invalid, NamesSlots, Holds
  <2> HIDE DEF slot
  <2>3. /\ slots' \in [Slots -> NamesSlots] /\ slots'[save.target] = slot /\ Behind'
        /\ Active' = Active /\ Current' = Current
    BY <2>1, <2>2, SlotWritten DEF Replaced
  <2>4. NamesTypeOK'
    BY <1>1, <2>1, <2>3 DEF NamesTypeOK
  <2>5. Saving'
    BY <1>1, <2>1, <2>2, <2>3 DEF Saving, Replaced
  <2>6. QED
    BY <2>3, <2>4, <2>5 DEF NamesInv
<1>3. CASE WriteBody
  <2>1. /\ step = "body" /\ step' = "magic" /\ flawed' \in {flawed, TRUE}
        /\ UNCHANGED <<identity, stored, save, read, answer, known, version>>
        /\ \E body \in {save.body, Garbage} :
             slots' = [slots EXCEPT ![save.target] = [slots[save.target] EXCEPT !.body = body]]
    BY <1>3 DEF WriteBody, Update
  <2>2. PICK body \in {save.body, Garbage} :
          slots' = [slots EXCEPT ![save.target] = [slots[save.target] EXCEPT !.body = body]]
    BY <2>1
  <2> DEFINE slot == [slots[save.target] EXCEPT !.body = body]
  <2>3. slot \in NamesSlots /\ ~slot.magic /\ slot.body = body /\ ~Holds(slot, identity)
    BY <1>1, <2>1, SaveType DEF NamesSlots, Holds, Saving
  <2> HIDE DEF slot
  <2>4. /\ slots' \in [Slots -> NamesSlots] /\ slots'[save.target] = slot /\ Behind'
        /\ Active' = Active /\ Current' = Current
    BY <2>1, <2>2, <2>3, SlotWritten DEF Replaced, slot
  <2>5. NamesTypeOK'
    BY <1>1, <2>1, <2>4 DEF NamesTypeOK
  <2>6. Saving'
    BY <1>1, <2>1, <2>3, <2>4 DEF Saving, Replaced
  <2>7. QED
    BY <2>4, <2>5, <2>6 DEF NamesInv
<1>4. CASE WriteNamesMagic
  <2>1. /\ step = "magic" /\ step' = "verify" /\ flawed' \in {flawed, TRUE}
        /\ UNCHANGED <<identity, stored, save, read, answer, known>>
        /\ ~Replaced /\ version < MaxChanges
        /\ save.body.generation = Following(Current.generation)
    BY <1>1, <1>4 DEF WriteNamesMagic, Update, Replaced, Saving
  <2>2. slots' \in [Slots -> NamesSlots] /\ slots'[save.target].body \in {save.body, Garbage}
    BY <1>4, MagicWritten
  <2>3. Behind' /\ version' \in 0 .. MaxChanges
    <3>1. CASE /\ version' = version + 1
               /\ Current' = [generation |-> save.body.generation, labels |-> save.body.labels]
      <4>1. Current'.generation = Following(Current.generation)
        BY <2>1, <3>1
      <4>2. version' \in 0 .. MaxChanges
        BY <1>1, <2>1, <3>1, NamesAssumption DEF NamesTypeOK
      <4>3. QED
        BY <2>1, <3>1, <4>1, <4>2, FurtherBehind
    <3>2. CASE version' = version /\ Behind'
      BY <1>1, <3>2 DEF NamesTypeOK
    <3>3. QED
      BY <1>4, <3>1, <3>2, MagicWritten
  <2>4. NamesTypeOK'
    BY <1>1, <2>1, <2>2, <2>3 DEF NamesTypeOK
  <2>5. Saving'
    <3>1. ~Replaced' => Active' = Active /\ Current' = Current /\ version' = version
      BY <1>4, MagicWritten
    <3>2. QED
      BY <1>1, <2>1, <2>2, <3>1 DEF Saving
  <2>6. QED
    BY <2>1, <2>2, <2>3, <2>4, <2>5 DEF NamesInv
<1>5. CASE Verify
  <2>1. /\ step = "verify" /\ step' = "idle" /\ save' = NoRequest /\ answer' \in {"ok", "failed"}
        /\ flawed' = FALSE /\ UNCHANGED <<identity, stored, read, version, known>>
    BY <1>5 DEF Verify
  <2>2. slots' \in [Slots -> NamesSlots] /\ Behind' /\ Current' = Current
    <3>1. CASE NamesReadBack
      <4>1. UNCHANGED slots
        BY <1>5, <3>1 DEF Verify
      <4>2. QED
        BY <1>1, <2>1, <4>1, InUseKept DEF NamesTypeOK, Behind
    <3>2. CASE ~NamesReadBack
      <4> DEFINE slot == Invalid(slots[save.target])
      <4>1. slots' = [slots EXCEPT ![save.target] = slot]
        BY <1>5, <3>2 DEF Verify
      <4>2. slots[save.target] \in NamesSlots /\ slot \in NamesSlots /\ ~Holds(slot, identity)
        BY <1>1, <2>1, SaveType DEF Invalid, NamesSlots, Holds
      <4> HIDE DEF slot
      <4>3. QED
        BY <2>1, <3>2, <4>1, <4>2, SlotWritten DEF Replaced
    <3>3. QED
      BY <3>1, <3>2
  <2>3. NamesTypeOK'
    BY <1>1, <2>1, <2>2 DEF NamesTypeOK
  <2>4. Saving'
    BY <2>1 DEF Saving
  <2>5. QED
    BY <2>2, <2>3, <2>4 DEF NamesInv
<1>6. QED
  BY <1>2, <1>3, <1>4, <1>5

(* Where the identity in force changes, the labels do, and no version is known. *)
LEMMA AnotherIdentity ==
  ASSUME NamesInv, NEW id \in Identities \cup {NoIdentity}, id # identity, Becomes(id),
         slots' \in [Slots -> NamesSlots], stored' \in Identities \cup {NoIdentity},
         step' = "idle", save' = NoRequest, flawed' \in BOOLEAN, answer' \in {"none", "ok", "failed"},
         read' = read
  PROVE  NamesInv'
<1>1. NamesTypeOK /\ Behind
  BY DEF NamesInv
<1>2. /\ identity' = id /\ version' = 0
      /\ known' = [c \in Clients |-> IF known[c] = Never THEN Never ELSE Outdated]
  BY DEF Becomes
<1>3. NamesTypeOK'
  <2>1. 0 \in 0 .. MaxChanges
    BY NamesAssumption
  <2>2. QED
    BY <1>1, <1>2, <2>1 DEF NamesTypeOK
<1>4. Behind'
  BY <1>1, <1>2, NamesAssumption DEF Behind
<1>5. QED
  BY <1>3, <1>4 DEF NamesInv, Saving

(* The bytes that a loss of power leaves are no record. *)
LEMMA Torn ==
  ASSUME NamesInv, NamesPowerLoss
  PROVE  \/ slots' = slots
         \/ /\ step = "body" /\ save.target \in Slots
            /\ \E torn \in {slots[save.target].body, Garbage} :
                 LET slot == [slots[save.target] EXCEPT !.body = torn]
                 IN  slots' = [slots EXCEPT ![save.target] = slot] /\ slot \in NamesSlots /\ ~slot.magic
<1>1. NamesTypeOK /\ Saving
  BY DEF NamesInv
<1>2. CASE step = "body" /\ \E torn \in {slots[save.target].body, Garbage} :
                            slots' = [slots EXCEPT ![save.target].body = torn]
  <2>1. PICK torn \in {slots[save.target].body, Garbage} :
          slots' = [slots EXCEPT ![save.target].body = torn]
    BY <1>2
  <2>2. slots[save.target] \in NamesSlots /\ ~slots[save.target].magic /\ save.target \in Slots
    BY <1>1, <1>2, SaveType DEF Saving
  <2>3. QED
    BY <1>2, <2>1, <2>2 DEF NamesSlots
<1>3. CASE slots' = [slots EXCEPT ![save.target].body = slots[save.target].body]
  <2>1. save.target \in Slots
    BY <1>1, SaveType DEF NamesTypeOK, NoRequest, Slots
  <2>2. QED
    BY <1>1, <1>3, <2>1 DEF NamesTypeOK, NamesSlots
<1>4. QED
  BY <1>2, <1>3 DEF NamesPowerLoss

LEMMA PowerLossKeeps ==
  ASSUME NamesInv, NamesPowerLoss
  PROVE  /\ NamesInv' /\ slots' \in [Slots -> NamesSlots]
         /\ stored = identity => Current' = Current
<1>1. NamesTypeOK /\ Behind /\ Saving
  BY DEF NamesInv
<1>2. /\ step' = "idle" /\ save' = NoRequest /\ answer' = "none" /\ flawed' = FALSE
      /\ Becomes(stored) /\ UNCHANGED <<stored, read>>
  BY DEF NamesPowerLoss
<1>3. slots' \in [Slots -> NamesSlots]
  <2>1. CASE slots' = slots
    BY <1>1, <2>1 DEF NamesTypeOK
  <2>2. CASE \E slot \in NamesSlots : slots' = [slots EXCEPT ![save.target] = slot]
    BY <1>1, <2>2 DEF NamesTypeOK
  <2>3. QED
    BY <2>1, <2>2, Torn
<1>4. CASE stored = identity
  <2>1. UNCHANGED <<identity, read, known, version>>
    BY <1>2, <1>4 DEF Becomes
  <2>2. Behind' /\ Current' = Current
    <3>1. CASE slots' = slots
      BY <1>1, <2>1, <3>1, InUseKept DEF Behind
    <3>2. CASE /\ step = "body" /\ save.target \in Slots
               /\ \E torn \in {slots[save.target].body, Garbage} :
                    LET slot == [slots[save.target] EXCEPT !.body = torn]
                    IN  slots' = [slots EXCEPT ![save.target] = slot] /\ slot \in NamesSlots /\ ~slot.magic
      <4>1. PICK slot \in NamesSlots : slots' = [slots EXCEPT ![save.target] = slot] /\ ~slot.magic
        BY <3>2
      <4>2. ~Holds(slot, identity)
        BY <4>1 DEF Holds
      <4>3. QED
        BY <2>1, <3>2, <4>1, <4>2, SlotWritten DEF Replaced
    <3>3. QED
      BY <3>1, <3>2, Torn
  <2>3. NamesTypeOK'
    BY <1>1, <1>2, <1>3, <2>1 DEF NamesTypeOK
  <2>4. Saving'
    BY <1>2 DEF Saving
  <2>5. QED
    BY <1>3, <2>2, <2>3, <2>4 DEF NamesInv
<1>5. CASE stored # identity
  <2>1. stored \in Identities \cup {NoIdentity}
    BY <1>1 DEF NamesTypeOK
  <2>2. NamesInv'
    BY <1>2, <1>3, <1>5, <2>1, AnotherIdentity
  <2>3. QED
    BY <1>3, <1>5, <2>2
<1>6. QED
  BY <1>4, <1>5

(* Records of another identity stay where they are and are no records any more. *)
LEMMA SettingsKeep ==
  ASSUME NamesInv, SaveSettings \/ \E id \in Identities : SetControllerId(id)
  PROVE  NamesInv'
<1>1. NamesTypeOK /\ Behind
  BY DEF NamesInv
<1>2. ASSUME step = "idle", stored' \in Identities \cup {NoIdentity}, answer' \in {answer, "ok", "failed"},
             UNCHANGED <<slots, identity, step, save, flawed, read, version, known>>
      PROVE  NamesInv'
  <2>1. NamesTypeOK'
    BY <1>1, <1>2 DEF NamesTypeOK
  <2>2. Behind'
    BY <1>1, <1>2, InUseKept DEF Behind
  <2>3. QED
    BY <1>2, <2>1, <2>2 DEF NamesInv, Saving
<1>3. CASE SaveSettings
  BY <1>1, <1>2, <1>3 DEF SaveSettings, NamesTypeOK
<1>4. CASE \E id \in Identities : SetControllerId(id)
  <2>1. PICK id \in Identities : SetControllerId(id)
    BY <1>4
  <2>2. /\ step = "idle" /\ Becomes(id) /\ answer' \in {"ok", "failed"} /\ stored' \in {stored, id}
        /\ UNCHANGED <<slots, step, save, flawed, read>>
    BY <2>1 DEF SetControllerId
  <2>3. slots' \in [Slots -> NamesSlots] /\ stored' \in Identities \cup {NoIdentity} /\ save' = NoRequest
        /\ flawed' \in BOOLEAN
    BY <1>1, <2>2 DEF NamesTypeOK
  <2>4. CASE id = identity
    BY <1>2, <2>2, <2>3, <2>4 DEF Becomes
  <2>5. CASE id # identity
    BY <2>2, <2>3, <2>5, AnotherIdentity
  <2>6. QED
    BY <2>4, <2>5
<1>5. QED
  BY <1>3, <1>4

LEMMA NamesInitInv == NamesInit => NamesInv
<1> SUFFICES ASSUME NamesInit PROVE NamesInv
  OBVIOUS
<1>1. /\ step = "idle" /\ save = NoRequest /\ flawed = FALSE /\ answer = "none"
      /\ read = [c \in Clients |-> Never] /\ version = 0 /\ known = [c \in Clients |-> Never]
  BY DEF NamesInit
<1>2. slots \in [Slots -> NamesSlots] /\ {identity, stored} \subseteq Identities \cup {NoIdentity}
  <2>1. CASE identity = NoIdentity /\ slots = [s \in Slots |-> Blank]
    BY <2>1 DEF Blank, NamesSlots, NamesInit
  <2>2. CASE /\ identity \in Identities
             /\ \E earlier \in Requests :
                  /\ Valid(earlier)
                  /\ slots = [s \in Slots |->
                       [magic |-> TRUE, body |-> [identity |-> identity, generation |-> Generations - 1 - s,
                                                  labels |-> IF s = 0 THEN NoLabels ELSE earlier]]]
    <3>1. PICK earlier \in Requests :
            slots = [s \in Slots |->
              [magic |-> TRUE, body |-> [identity |-> identity, generation |-> Generations - 1 - s,
                                         labels |-> IF s = 0 THEN NoLabels ELSE earlier]]]
      BY <2>2
    <3>2. Generations \in Nat /\ Generations > 1 /\ NoLabels \in Requests
      BY NamesAssumption
    <3>3. \A s \in Slots : Generations - 1 - s \in 0 .. Generations - 1
      BY <3>2 DEF Slots
    <3>4. \A s \in Slots : [identity |-> identity, generation |-> Generations - 1 - s,
                             labels |-> IF s = 0 THEN NoLabels ELSE earlier] \in Bodies
      BY <2>2, <3>1, <3>2, <3>3 DEF Bodies
    <3>5. QED
      BY <2>2, <3>1, <3>4 DEF NamesSlots, NamesInit
  <2>3. QED
    BY <2>1, <2>2 DEF NamesInit
<1>3. NamesTypeOK
  <2>1. version \in 0 .. MaxChanges
    BY <1>1, NamesAssumption
  <2>2. read \in [Clients -> 0 .. Generations - 1 \cup {Never}] /\ known \in [Clients -> 0 .. MaxChanges \cup {Never}]
    BY <1>1
  <2>3. QED
    BY <1>1, <1>2, <2>1, <2>2 DEF NamesTypeOK
<1>4. Behind /\ Saving
  BY <1>1 DEF Behind, Saving
<1>5. QED
  BY <1>2, <1>3, <1>4 DEF NamesInv

LEMMA NamesNextInv == NamesInv /\ [NamesNext]_namesVars => NamesInv'
<1> SUFFICES ASSUME NamesInv, [NamesNext]_namesVars PROVE NamesInv'
  OBVIOUS
<1>1. CASE UNCHANGED namesVars
  BY <1>1, InUseKept DEF namesVars, NamesInv, NamesTypeOK, Behind, Saving, Replaced,
     NamesReadBack, Holds
<1>2. CASE Refused
  <2>1. PICK status \in {"busy", "unsafe"} : Answered(status) /\ step = "idle"
    BY <1>2 DEF Refused
  <2>2. NamesTypeOK' /\ Active' = Active /\ Current' = Current
    BY <2>1, InUseKept DEF Answered, NamesInv, NamesTypeOK
  <2>3. QED
    BY <2>1, <2>2 DEF Answered, NamesInv, Behind, Saving
<1>3. QED
  BY <1>1, <1>2, RequestKeeps, WriteKeeps, PowerLossKeeps, SettingsKeep DEF NamesNext

(* What is in the slots are records of labels, or garbage; a save is of a client. *)
THEOREM NamesTypeCorrect == NamesSpec => []NamesTypeOK
<1>1. NamesInv => NamesTypeOK
  BY DEF NamesInv
<1>2. QED
  BY <1>1, NamesInitInv, NamesNextInv, PTL DEF NamesSpec

-----------------------------------------------------------------------------
(* The store is one record with versions. *)

(* What a client has read under the identity in force is in use still exactly when its
   version is the last one: the generations do not come round again. *)
LEMMA UpToDateVersion ==
  ASSUME NamesInv, NEW c \in Clients, read[c] # Never, read[c] = Current.generation
  PROVE  known[c] \in {version, Outdated}
<1> SUFFICES ASSUME known[c] # Outdated PROVE known[c] = version
  OBVIOUS
<1>1. /\ known[c] # Never /\ known[c] <= version
      /\ read[c] + (version - known[c]) \in {Current.generation, Current.generation + Generations}
  BY DEF NamesInv, Behind
<1>2. known[c] \in 0 .. MaxChanges /\ version \in 0 .. MaxChanges /\ Current.generation \in Nat
  BY <1>1, CurrentType DEF NamesInv, NamesTypeOK
<1>3. \A g, b \in Nat : g + b \in {g, g + Generations} => b \in {0, Generations}
  BY NamesAssumption
<1>4. version - known[c] \in Nat /\ version - known[c] < Generations
  BY <1>1, <1>2, NamesAssumption
<1>5. version - known[c] = 0
  BY <1>1, <1>2, <1>3, <1>4, NamesAssumption
<1>6. QED
  BY <1>2, <1>5

LEMMA SavingMapped ==
  ASSUME NamesInv
  PROVE  (IF InSave THEN [client |-> save.client, record |-> save.body.labels]
                    ELSE [client |-> Never, record |-> NoLabels]) = Promise!NoSave
           <=> step = "idle"
BY SaveType DEF InSave, Promise!NoSave

(* What is left of the records of each identity. *)

LEMMA KeptOf ==
  ASSUME NEW id \in Identities \cup {NoIdentity}
  PROVE  Kept[id] = {slots[s].body.labels : s \in {t \in Slots : Holds(slots[t], id)}}
BY DEF Kept

LEMMA KeptType == NamesTypeOK => Kept \in [Identities \cup {NoIdentity} -> SUBSET Requests]
<1> SUFFICES ASSUME NamesTypeOK, NEW id \in Identities \cup {NoIdentity},
                    NEW s \in Slots, Holds(slots[s], id)
             PROVE  slots[s].body.labels \in Requests
  BY DEF Kept
<1>1. slots[s] \in NamesSlots /\ slots[s].body # Garbage
  BY DEF NamesTypeOK, Holds
<1>2. slots[s].body \in Bodies
  BY <1>1 DEF NamesSlots
<1>3. QED
  BY <1>2 DEF Bodies

(* The labels in use are of the records left of the identity in force. *)
LEMMA CurrentReturns ==
  NamesTypeOK =>
    Current.labels \in IF Kept[identity] = {} THEN {NoLabels} ELSE Kept[identity]
<1> SUFFICES ASSUME NamesTypeOK
             PROVE  Current.labels \in IF Kept[identity] = {} THEN {NoLabels} ELSE Kept[identity]
  OBVIOUS
<1>1. Kept[identity] = {slots[s].body.labels : s \in {t \in Slots : Holds(slots[t], identity)}}
  BY KeptOf DEF NamesTypeOK
<1>2. CASE Active = NoActive
  <2>1. \A s \in Slots : ~Holds(slots[s], identity)
    BY <1>2, ActiveHolds
  <2>2. Kept[identity] = {}
    BY <1>1, <2>1
  <2>3. QED
    BY <1>2, <2>2 DEF Current
<1>3. CASE Active # NoActive
  <2>1. Active \in Slots /\ Holds(slots[Active], identity)
    BY <1>3, ActiveHolds
  <2>2. Current.labels = slots[Active].body.labels
    BY <1>3 DEF Current
  <2>3. Current.labels \in Kept[identity]
    BY <1>1, <2>1, <2>2
  <2>4. QED
    BY <2>3
<1>4. QED
  BY <1>2, <1>3

(* A slot that is no record before and after is none of those left. *)
LEMMA KeptSame ==
  ASSUME NEW t \in Slots, \A s \in Slots : s # t => slots'[s] = slots[s],
         \A id \in Identities \cup {NoIdentity} : ~Holds(slots[t], id) /\ ~Holds(slots'[t], id)
  PROVE  Kept' = Kept
<1>1. \A id \in Identities \cup {NoIdentity} :
        {slots'[s].body.labels : s \in {u \in Slots : Holds(slots'[u], id)}}
          = {slots[s].body.labels : s \in {u \in Slots : Holds(slots[u], id)}}
  <2> SUFFICES ASSUME NEW id \in Identities \cup {NoIdentity}
               PROVE  {slots'[s].body.labels : s \in {u \in Slots : Holds(slots'[u], id)}}
                        = {slots[s].body.labels : s \in {u \in Slots : Holds(slots[u], id)}}
    OBVIOUS
  <2>1. \A s \in Slots : Holds(slots'[s], id) <=> Holds(slots[s], id)
    OBVIOUS
  <2>2. \A s \in Slots : Holds(slots[s], id) => slots'[s] = slots[s]
    OBVIOUS
  <2>3. QED
    BY <2>1, <2>2
<1>2. QED
  BY <1>1 DEF Kept

LEMMA KeptUnchanged == slots' = slots => Kept' = Kept
BY DEF Kept, Holds

-----------------------------------------------------------------------------
(* The steps of a save, and of the identity, as steps of the promise. *)

LEMMA RequestImplements ==
  ASSUME NamesInv, NEW c \in Clients,
         GetAdapterNames(c) \/ \E labels \in Requests : SetAdapterNames(c, labels)
  PROVE  Promise!Next
<1>1. CASE GetAdapterNames(c)
  <2>1. Current' = Current /\ Kept' = Kept
    BY <1>1, InUseKept, KeptUnchanged DEF GetAdapterNames
  <2>2. Promise!Read(c)
    BY <1>1, <2>1 DEF GetAdapterNames, Promise!Read, Promise!NoSave, InSave, Outcome
  <2>3. QED
    BY <2>2 DEF Promise!Next
<1>2. ASSUME step = "idle", NEW status \in {"busy", "unsafe", "invalid", "stale"}, Answered(status)
      PROVE  Promise!Next
  <2>1. Current' = Current /\ Kept' = Kept
    BY <1>2, InUseKept, KeptUnchanged DEF Answered
  <2>2. Promise!Refuse
    BY <1>2, <2>1 DEF Answered, Promise!Refuse, Promise!NoSave, InSave, Outcome
  <2>3. QED
    BY <2>2 DEF Promise!Next
<1>3. ASSUME NEW labels \in Requests, SetAdapterNames(c, labels)
      PROVE  Promise!Next
  <2>1. CASE Answered("invalid") \/ Answered("stale")
    BY <1>2, <1>3, <2>1, SetCases
  <2>2. CASE read[c] = Current.generation /\ labels = Current.labels /\ Answered("ok")
    <3>1. Current' = Current /\ Kept' = Kept /\ known[c] \in {version, Outdated} /\ step = "idle"
      BY <1>3, <2>2, InUseKept, KeptUnchanged, UpToDateVersion, SetCases DEF Answered
    <3>2. Promise!Confirm(c, labels)
      BY <2>2, <3>1 DEF Answered, Promise!Confirm, Promise!NoSave, InSave, Outcome
    <3>3. QED
      BY <3>2 DEF Promise!Next
  <2>3. CASE /\ read[c] = Current.generation /\ labels # Current.labels /\ Valid(labels)
             /\ version < MaxChanges /\ step' = "invalidate" /\ answer' = "none"
             /\ save' = [target |-> Spare, client |-> c,
                         body |-> [identity |-> identity, generation |-> Following(read[c]),
                                   labels |-> labels]]
             /\ UNCHANGED <<slots, identity, stored, flawed, read, version, known>>
    <3>1. /\ Current' = Current /\ Kept' = Kept /\ known[c] \in {version, Outdated}
          /\ step = "idle"
      BY <1>3, <2>3, InUseKept, KeptUnchanged, UpToDateVersion, SetCases
    <3>2. save'.client = c /\ save'.body.labels = labels
      BY <2>3
    <3>3. Promise!Begin(c, labels)
      BY <2>3, <3>1, <3>2 DEF Promise!Begin, Promise!NoSave, InSave, Outcome
    <3>4. QED
      BY <3>3 DEF Promise!Next
  <2>4. QED
    BY <1>3, <2>1, <2>2, <2>3, SetCases
<1>4. QED
  BY <1>1, <1>3

(* Room is made: the record in use is not what is given up. *)
LEMMA InvalidateForgets ==
  ASSUME NamesInv, Invalidate
  PROVE  Promise!Forget
<1> DEFINE t == save.target
<1>1. /\ step = "invalidate" /\ step' = "body" /\ slots' = [slots EXCEPT ![t] = Invalid(slots[t])]
      /\ UNCHANGED <<identity, stored, save, read, answer, known, version>>
  BY DEF Invalidate, Update
<1>2. Current' = Current /\ Active' = Active /\ NamesTypeOK'
  <2>1. NamesInv'
    BY WriteKeeps
  <2>2. slots[t] \in NamesSlots /\ Invalid(slots[t]) \in NamesSlots /\ ~Holds(Invalid(slots[t]), identity)
    BY <1>1, SaveType DEF Invalid, NamesSlots, Holds
  <2>3. QED
    BY <1>1, <2>1, <2>2, SlotWritten DEF Replaced, NamesInv
<1>3. /\ t \in Slots /\ slots \in [Slots -> NamesSlots] /\ identity \in Identities \cup {NoIdentity}
      /\ ~Invalid(slots[t]).magic
  BY <1>1, SaveType DEF NamesInv, NamesTypeOK, Invalid, NamesSlots
<1>4. \A s \in Slots : slots'[s] = slots[s] \/ ~slots'[s].magic
  BY <1>1, <1>3
<1>5. \A id \in Identities \cup {NoIdentity} : Kept'[id] \subseteq Kept[id]
  <2> SUFFICES ASSUME NEW id \in Identities \cup {NoIdentity}
               PROVE  {slots'[s].body.labels : s \in {u \in Slots : Holds(slots'[u], id)}}
                        \subseteq {slots[s].body.labels : s \in {u \in Slots : Holds(slots[u], id)}}
    BY DEF Kept
  <2>1. \A s \in Slots : Holds(slots'[s], id) => Holds(slots[s], id) /\ slots'[s] = slots[s]
    BY <1>4 DEF Holds
  <2>2. QED
    BY <2>1
<1>6. Current.labels \in Kept[identity] => Current.labels \in Kept'[identity]
  <2>1. CASE Active = NoActive
    <3>1. \A s \in Slots : ~Holds(slots[s], identity)
      BY <2>1, ActiveHolds
    <3>2. QED
      BY <1>3, <3>1, KeptOf
  <2>2. CASE Active # NoActive
    <3>1. Active' \in Slots /\ Holds(slots'[Active'], identity')
      <4>1. (Active # NoActive)'
        BY <1>2, <2>2 DEF NoActive
      <4>2. (Active \in Slots /\ Holds(slots[Active], identity))'
        BY <4>1, InUseHolds, PTL
      <4>3. QED
        BY <4>2
    <3>2. Current'.labels = slots'[Active'].body.labels
      BY <1>2, <2>2 DEF Current
    <3>3. Kept'[identity] = {slots'[s].body.labels : s \in {u \in Slots : Holds(slots'[u], identity)}}
      BY <1>3 DEF Kept
    <3>4. QED
      BY <1>1, <1>2, <3>1, <3>2, <3>3
  <2>3. QED
    BY <2>1, <2>2
<1>7. Kept' \in [Identities \cup {NoIdentity} -> SUBSET Requests]
  <2>1. NamesTypeOK'
    BY <1>2
  <2>2. (Kept \in [Identities \cup {NoIdentity} -> SUBSET Requests])'
    BY <2>1, KeptType, PTL
  <2>3. QED
    BY <2>2
<1>8. QED
  BY <1>1, <1>2, <1>5, <1>6, <1>7, SavingMapped DEF Promise!Forget, InSave, Outcome

(* A slot that is being written is no record. *)
LEMMA TargetIsNone ==
  ASSUME NamesInv, \/ step \in {"body", "magic"}
                   \/ step = "verify" /\ ~NamesReadBack,
         NEW id
  PROVE  ~Holds(slots[save.target], id)
<1>1. CASE step \in {"body", "magic"}
  BY <1>1 DEF NamesInv, Saving, Holds
<1>2. CASE step = "verify" /\ ~NamesReadBack
  <2>1. slots[save.target].body \in {save.body, Garbage} /\ save.body.identity = identity
    BY <1>2 DEF NamesInv, Saving
  <2>2. SUFFICES ASSUME Holds(slots[save.target], id) PROVE FALSE
    OBVIOUS
  <2>3. slots[save.target].body = save.body /\ id = identity
    BY <2>1, <2>2 DEF Holds
  <2>4. QED
    BY <1>2, <2>2, <2>3 DEF NamesReadBack
<1>3. QED
  BY <1>1, <1>2

(* With the magic number the record is one of those left, beside the one before. *)
LEMMA MagicReplaces ==
  ASSUME NamesInv, WriteNamesMagic, Replaced',
         Current' = [generation |-> save.body.generation, labels |-> save.body.labels]
  PROVE  Kept' = [Kept EXCEPT ![identity] = (@ \cap {Current.labels}) \cup {save.body.labels}]
<1> DEFINE t == save.target
           Ids == Identities \cup {NoIdentity}
<1>1. /\ step = "magic" /\ step' = "verify" /\ UNCHANGED <<identity, save>>
      /\ slots' \in {[slots EXCEPT ![t] = [slots[t] EXCEPT !.magic = TRUE]], [slots EXCEPT ![t] = slots[t]]}
  BY DEF WriteNamesMagic, Update
<1>2. /\ t \in Slots /\ slots \in [Slots -> NamesSlots] /\ identity \in Ids
      /\ slots[t] \in NamesSlots /\ t # Active /\ save.body.identity = identity
  BY <1>1, SaveType DEF NamesInv, NamesTypeOK, Saving, Replaced
<1>3. 1 - t \in Slots /\ 1 - t # t /\ Slots = {t, 1 - t}
  BY <1>2 DEF Slots
<1>4. slots'[1 - t] = slots[1 - t]
  BY <1>1, <1>2, <1>3
<1>5. Holds(slots'[t], identity) /\ slots'[t].body = save.body
  BY <1>1 DEF Replaced, NamesReadBack
<1>6. \A id \in Ids : Holds(slots'[t], id) <=> id = identity
  BY <1>2, <1>5 DEF Holds
<1>7. \A id \in Ids : ~Holds(slots[t], id)
  BY <1>1, TargetIsNone
<1>8. \A id \in Ids : Kept[id] = IF Holds(slots[1 - t], id) THEN {slots[1 - t].body.labels} ELSE {}
  <2> SUFFICES ASSUME NEW id \in Ids
               PROVE  Kept[id] = IF Holds(slots[1 - t], id) THEN {slots[1 - t].body.labels} ELSE {}
    OBVIOUS
  <2>1. {u \in Slots : Holds(slots[u], id)} = IF Holds(slots[1 - t], id) THEN {1 - t} ELSE {}
    BY <1>3, <1>7
  <2>2. Kept[id] = {slots[s].body.labels : s \in {u \in Slots : Holds(slots[u], id)}}
    BY KeptOf
  <2>3. QED
    BY <2>1, <2>2
<1>9. \A id \in Ids : Kept'[id] = (IF Holds(slots[1 - t], id) THEN {slots[1 - t].body.labels} ELSE {})
                                  \cup (IF id = identity THEN {save.body.labels} ELSE {})
  <2> SUFFICES ASSUME NEW id \in Ids
               PROVE  Kept'[id] = (IF Holds(slots[1 - t], id) THEN {slots[1 - t].body.labels} ELSE {})
                                  \cup (IF id = identity THEN {save.body.labels} ELSE {})
    OBVIOUS
  <2>1. {u \in Slots : Holds(slots'[u], id)} = (IF Holds(slots[1 - t], id) THEN {1 - t} ELSE {})
                                               \cup (IF id = identity THEN {t} ELSE {})
    BY <1>3, <1>4, <1>6
  <2>2. Kept'[id] = {slots'[s].body.labels : s \in {u \in Slots : Holds(slots'[u], id)}}
    BY DEF Kept
  <2>3. QED
    BY <1>4, <1>5, <2>1, <2>2
<1>10. Holds(slots[1 - t], identity) => slots[1 - t].body.labels = Current.labels
  <2> SUFFICES ASSUME Holds(slots[1 - t], identity) PROVE slots[1 - t].body.labels = Current.labels
    OBVIOUS
  <2>1. Active # NoActive /\ Active \in Slots
    BY <1>3, ActiveHolds
  <2>2. Active = 1 - t
    BY <1>2, <1>3, <2>1
  <2>3. QED
    BY <2>1, <2>2 DEF Current
<1>11. Kept' = [id \in Ids |-> Kept'[id]] /\ Kept = [id \in Ids |-> Kept[id]]
  BY DEF Kept
<1> HIDE DEF Ids, t
<1>12. \A id \in Ids : Kept'[id] = IF id = identity THEN (Kept[id] \cap {Current.labels}) \cup {save.body.labels}
                                   ELSE Kept[id]
  BY <1>8, <1>9, <1>10
<1>13. QED
  BY <1>2, <1>11, <1>12

LEMMA WriteImplements ==
  ASSUME NamesInv, Invalidate \/ WriteBody \/ WriteNamesMagic \/ Verify
  PROVE  [Promise!Next]_(Promise!vars)
<1>1. CASE Invalidate
  BY <1>1, InvalidateForgets DEF Promise!Next
<1>2. CASE WriteBody
  <2>1. /\ step = "body" /\ step' = "magic" /\ UNCHANGED <<identity, stored, save, answer, version, known>>
        /\ \E body \in {save.body, Garbage} :
             slots' = [slots EXCEPT ![save.target] = [slots[save.target] EXCEPT !.body = body]]
    BY <1>2 DEF WriteBody, Update
  <2>2. Current' = Current
    BY <1>2, <2>1, WriteKeeps
  <2>3. /\ save.target \in Slots /\ slots \in [Slots -> NamesSlots] /\ ~slots[save.target].magic
        /\ slots[save.target] \in NamesSlots
    BY <2>1, SaveType DEF NamesInv, NamesTypeOK, Saving
  <2>4. ~slots'[save.target].magic /\ \A s \in Slots : s # save.target => slots'[s] = slots[s]
    BY <2>1, <2>3 DEF NamesSlots
  <2>5. Kept' = Kept
    BY <2>3, <2>4, KeptSame DEF Holds
  <2>6. QED
    BY <2>1, <2>2, <2>5 DEF Promise!vars, InSave, Outcome
<1>3. CASE WriteNamesMagic
  <2>1. /\ step = "magic" /\ step' = "verify" /\ UNCHANGED <<identity, stored, save, answer, known>>
    BY <1>3 DEF WriteNamesMagic, Update
  <2>2. CASE /\ Replaced' /\ version' = version + 1
             /\ Current' = [generation |-> save.body.generation, labels |-> save.body.labels]
    <3>1. Kept' = [Kept EXCEPT ![identity] = (@ \cap {Current.labels}) \cup {save.body.labels}]
      BY <1>3, <2>2, MagicReplaces
    <3>2. Promise!Replace
      BY <2>1, <2>2, <3>1, SavingMapped DEF Promise!Replace, InSave, Outcome, Replaced
    <3>3. QED
      BY <3>2 DEF Promise!Next
  <2>3. CASE ~Replaced' /\ version' = version /\ Current' = Current
    <3> DEFINE t == save.target
    <3>1. /\ t \in Slots /\ slots \in [Slots -> NamesSlots] /\ slots[t] \in NamesSlots
          /\ slots' \in {[slots EXCEPT ![t] = [slots[t] EXCEPT !.magic = TRUE]], [slots EXCEPT ![t] = slots[t]]}
      BY <1>3, <2>1, SaveType DEF NamesInv, NamesTypeOK, WriteNamesMagic, Update
    <3>2. \A s \in Slots : s # t => slots'[s] = slots[s]
      BY <3>1
    <3>3. NamesInv' /\ ~NamesReadBack'
      BY <1>3, <2>1, <2>3, WriteKeeps DEF Replaced
    <3>4. \A id : ~Holds(slots'[t], id)
      <4>1. slots'[t].body \in {save.body, Garbage} /\ save.body.identity = identity
        BY <2>1, <3>3 DEF NamesInv, Saving
      <4>2. SUFFICES ASSUME NEW id, Holds(slots'[t], id) PROVE FALSE
        OBVIOUS
      <4>3. slots'[t].body = save.body /\ id = identity
        BY <4>1, <4>2 DEF Holds
      <4>4. QED
        BY <2>1, <3>3, <4>2, <4>3 DEF NamesReadBack
    <3>5. Kept' = Kept
      BY <2>1, <3>1, <3>2, <3>4, TargetIsNone, KeptSame
    <3>6. QED
      BY <2>1, <2>3, <3>5 DEF Promise!vars, InSave, Outcome, Replaced
  <2>4. QED
    BY <1>3, <2>2, <2>3, MagicWritten
<1>4. CASE Verify
  <2>1. /\ step = "verify" /\ step' = "idle" /\ answer' = (IF NamesReadBack THEN "ok" ELSE "failed")
        /\ UNCHANGED <<identity, stored, version, known>>
    BY <1>4 DEF Verify
  <2>2. Current' = Current
    BY <1>4, <2>1, WriteKeeps
  <2>3. Kept' = Kept
    <3>1. CASE NamesReadBack
      BY <1>4, <3>1, KeptUnchanged DEF Verify
    <3>2. CASE ~NamesReadBack
      <4>1. /\ slots' = [slots EXCEPT ![save.target] = Invalid(slots[save.target])] /\ save.target \in Slots
            /\ slots \in [Slots -> NamesSlots] /\ ~Invalid(slots[save.target]).magic
        BY <1>4, <2>1, <3>2, SaveType DEF Verify, NamesInv, NamesTypeOK, Invalid, NamesSlots
      <4>2. ~slots'[save.target].magic /\ \A s \in Slots : s # save.target => slots'[s] = slots[s]
        BY <4>1
      <4>3. QED
        BY <2>1, <3>2, <4>1, <4>2, TargetIsNone, KeptSame DEF Holds
    <3>3. QED
      BY <3>1, <3>2
  <2>4. Promise!Finish
    BY <2>1, <2>2, <2>3, SavingMapped DEF Promise!Finish, Promise!NoSave, InSave, Outcome
  <2>5. QED
    BY <2>4 DEF Promise!Next
<1>5. QED
  BY <1>1, <1>2, <1>3, <1>4

(* The identity that comes into force has the labels that are left of it. *)
LEMMA BecomesImplements ==
  ASSUME NamesInv, NamesInv', NEW id \in Identities \cup {NoIdentity}, Becomes(id), Kept' = Kept,
         id = identity => Current' = Current
  PROVE  Promise!Become(id)
<1>1. Current'.labels \in IF Kept'[identity'] = {} THEN {NoLabels} ELSE Kept'[identity']
  <2>1. (Current.labels \in IF Kept[identity] = {} THEN {NoLabels} ELSE Kept[identity])'
    BY CurrentReturns, PTL DEF NamesInv
  <2>2. QED
    BY <2>1
<1>2. identity' = id
  BY DEF Becomes
<1>3. CASE id = identity
  BY <1>2, <1>3 DEF Becomes, Promise!Become
<1>4. CASE id # identity
  BY <1>1, <1>2, <1>4 DEF Becomes, Promise!Become, Promise!Returning
<1>5. QED
  BY <1>3, <1>4

(* Power lost in any write of a save, wrong bytes, two clients that read the same labels,
   a wrapped generation, and an identity that is saved, is not saved or is in force again:
   each step of the two slots is a step of the one record. *)
THEOREM NamesImplementVersionedRecord == NamesSpec => ImplementsVersionedRecord
<1>1. NamesInit => Promise!Init
  <2> SUFFICES ASSUME NamesInit PROVE Promise!Init
    OBVIOUS
  <2>1. NamesTypeOK
    BY NamesInitInv DEF NamesInv
  <2>2. /\ Kept \in [Identities \cup {NoIdentity} -> SUBSET Requests]
        /\ Current.labels \in IF Kept[identity] = {} THEN {NoLabels} ELSE Kept[identity]
    BY <2>1, KeptType, CurrentReturns
  <2>3. identity \in Identities \cup {NoIdentity} /\ stored = identity /\ step = "idle"
    BY <2>1 DEF NamesTypeOK, NamesInit
  <2>4. QED
    BY <2>2, <2>3 DEF NamesInit, Promise!Init, Promise!Returning, Promise!NoSave, InSave, Outcome
<1>2. NamesInv /\ [NamesNext]_namesVars => [Promise!Next]_(Promise!vars)
  <2> SUFFICES ASSUME NamesInv, [NamesNext]_namesVars PROVE [Promise!Next]_(Promise!vars)
    OBVIOUS
  <2>1. NamesInv'
    BY NamesNextInv
  <2>2. CASE NamesPowerLoss
    <3>1. /\ step' = "idle" /\ answer' = "none" /\ Becomes(stored) /\ stored' = stored
          /\ stored \in Identities \cup {NoIdentity}
      BY <2>2 DEF NamesPowerLoss, NamesInv, NamesTypeOK
    <3>2. Kept' = Kept
      <4>1. CASE slots' = slots
        BY <4>1, KeptUnchanged
      <4>2. CASE /\ step = "body" /\ save.target \in Slots
                 /\ \E torn \in {slots[save.target].body, Garbage} :
                      LET slot == [slots[save.target] EXCEPT !.body = torn]
                      IN  slots' = [slots EXCEPT ![save.target] = slot] /\ slot \in NamesSlots /\ ~slot.magic
        <5>1. PICK slot : slots' = [slots EXCEPT ![save.target] = slot] /\ ~slot.magic
          BY <4>2
        <5>2. slots \in [Slots -> NamesSlots]
          BY DEF NamesInv, NamesTypeOK
        <5>3. ~slots'[save.target].magic /\ \A s \in Slots : s # save.target => slots'[s] = slots[s]
          BY <4>2, <5>1, <5>2
        <5>4. QED
          BY <4>2, <5>3, TargetIsNone, KeptSame DEF Holds
      <4>3. QED
        BY <2>2, <4>1, <4>2, Torn
    <3>3. Promise!Become(stored)
      BY <2>1, <2>2, <3>1, <3>2, PowerLossKeeps, BecomesImplements
    <3>4. Promise!PowerLoss
      BY <3>1, <3>3 DEF Promise!PowerLoss, Promise!NoSave, InSave, Outcome
    <3>5. QED
      BY <3>4 DEF Promise!Next
  <2>3. CASE SaveSettings
    <3>1. Current' = Current /\ Kept' = Kept
      BY <2>3, InUseKept, KeptUnchanged DEF SaveSettings
    <3>2. Promise!Keep
      BY <2>3, <3>1 DEF SaveSettings, Promise!Keep, Promise!NoSave, InSave, Outcome
    <3>3. QED
      BY <3>2 DEF Promise!Next
  <2>4. ASSUME NEW id \in Identities, SetControllerId(id) PROVE Promise!Next
    <3>1. /\ step = "idle" /\ step' = "idle" /\ Becomes(id) /\ slots' = slots
          /\ (answer' = "ok" /\ stored' = id) \/ (answer' = "failed" /\ stored' = stored)
      BY <2>4 DEF SetControllerId
    <3>2. Kept' = Kept /\ (id = identity => Current' = Current)
      BY <3>1, KeptUnchanged, InUseKept DEF Becomes
    <3>3. Promise!Become(id)
      BY <2>1, <3>1, <3>2, BecomesImplements
    <3>4. Promise!Assign(id)
      BY <3>1, <3>3 DEF Promise!Assign, Promise!NoSave, InSave, Outcome
    <3>5. QED
      BY <3>4 DEF Promise!Next
  <2>5. CASE UNCHANGED namesVars
    <3>1. Current' = Current /\ Kept' = Kept
      BY <2>5, InUseKept, KeptUnchanged DEF namesVars
    <3>2. QED
      BY <2>5, <3>1 DEF namesVars, Promise!vars, InSave, Outcome, NamesReadBack, Holds
  <2>6. ASSUME Refused PROVE Promise!Next
    <3>1. PICK status \in {"busy", "unsafe"} : Answered(status) /\ step = "idle"
      BY <2>6 DEF Refused
    <3>2. Current' = Current /\ Kept' = Kept
      BY <3>1, InUseKept, KeptUnchanged DEF Answered
    <3>3. Promise!Refuse
      BY <3>1, <3>2 DEF Answered, Promise!Refuse, Promise!NoSave, InSave, Outcome
    <3>4. QED
      BY <3>3 DEF Promise!Next
  <2>7. QED
    BY <2>2, <2>3, <2>4, <2>5, <2>6, RequestImplements, WriteImplements DEF NamesNext
<1>3. QED
  BY <1>1, <1>2, NamesInitInv, NamesNextInv, PTL
     DEF NamesSpec, ImplementsVersionedRecord, Promise!Spec

=============================================================================
