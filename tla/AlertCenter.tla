---------------------------- MODULE AlertCenter ----------------------------
(***************************************************************************)
(* What the daemon knows of a Nano's faults (AlertCenter) and the thread   *)
(* that sounds the motherboard beeper (AudibleAlarm), as operators on two  *)
(* records, one operator per method.                                       *)
(*                                                                         *)
(* A fault is a pair of scope and bit, a member of Faults; the history of  *)
(* the last 256 transitions is presentation and left out.                  *)
(***************************************************************************)
EXTENDS Naturals, Sequences, FiniteSets, SequencesExt

CONSTANTS
  Faults,          (* The faults that a Nano may report ...                *)
  CriticalFaults   (* ... and those whose description says "critical".     *)

ASSUME AlertAssumption == CriticalFaults \subseteq Faults

Centers ==
  [masks : SUBSET Faults, known : BOOLEAN, connected : BOOLEAN,
   transportFault : BOOLEAN, historyLost : BOOLEAN]

Beepers ==
  [enabled : BOOLEAN, active : BOOLEAN, pending : BOOLEAN,
   thread : {"check", "waiting", "resting", "sounding"}, next : BOOLEAN]

NewCenter == [masks |-> {}, known |-> FALSE, connected |-> FALSE,
              transportFault |-> FALSE, historyLost |-> FALSE]

(* critical() *)
Critical(c) == c.transportFault \/ c.historyLost \/ c.masks \cap CriticalFaults # {}

-----------------------------------------------------------------------------
(* AudibleAlarm.  next: the interval after the last sound has not elapsed. *)

NewBeeper(enabled) ==
  [enabled |-> enabled, active |-> FALSE, pending |-> FALSE,
   thread |-> "waiting", next |-> FALSE]

(* notify_all: a thread that waits looks at the state again, in vain when the
   beeper is disabled. *)
Notified(b) == IF b.enabled /\ b.thread \in {"waiting", "resting"}
                 THEN [b EXCEPT !.thread = "check"] ELSE b

(* enable() *)
BeepEnable(b, on) ==
  IF b.enabled = on THEN b
  ELSE Notified([b EXCEPT !.enabled = on, !.pending = on /\ b.active])

BeepUpdate_ActiveOnlyFault(b, active, raised) ==
  LET next == [b EXCEPT !.active = active, !.pending = @ \/ (b.enabled /\ raised)]
  IN  IF b.active # active THEN Notified(next) ELSE next

(* update(): a brief critical fault still gets one notification. *)
BeepUpdate(b, active, raised) ==
  LET next    == [b EXCEPT !.active = active, !.pending = @ \/ (b.enabled /\ raised)]
      changed == b.active # active \/ (b.enabled /\ raised /\ ~b.pending)
  IN  IF changed THEN Notified(next) ELSE next

BeepWanted(b) == b.enabled /\ (b.active \/ b.pending)

(* run(): one look at the state, with the lock; sound_() runs without it. *)
BeepLook(b) ==
  IF ~BeepWanted(b) THEN [b EXCEPT !.thread = "waiting"]
  ELSE IF b.next THEN [b EXCEPT !.thread = "resting"]
  ELSE [b EXCEPT !.thread = "sounding", !.pending = FALSE, !.next = TRUE]

BeepElapsed(b) ==
  [b EXCEPT !.next = FALSE, !.thread = IF @ = "resting" THEN "check" ELSE @]

BeepSounded(b) == [b EXCEPT !.thread = "check"]

-----------------------------------------------------------------------------
(* AlertCenter, with the beeper that it updates: a pair of records. *)

(* connection() *)
Connection(c, on) == [c EXCEPT !.connected = on, !.transportFault = ~on]

ConnectionBeep(c, b, on) ==
  BeepUpdate(b, Critical(Connection(c, on)), ~on /\ ~c.transportFault)

Observed_AlertOnlyFault(c, event) ==
  IF event.kind = "alert" THEN [c EXCEPT !.masks = event.masks, !.known = TRUE] ELSE c

(* An alert carries the masks that are active after the change, a heartbeat and
   a status those at the time: each replaces what was known. *)
Observed(c, event) == [c EXCEPT !.masks = event.masks, !.known = TRUE]

(* ingest(): of the events, one after the other, the last one stays. *)
Ingested(c, events, dropped) ==
  LET noted == [c EXCEPT !.historyLost = @ \/ dropped]
  IN  IF events = <<>> THEN noted ELSE Observed(noted, Last(events))

IngestRaises(c, events, dropped) ==
  \/ dropped /\ ~c.historyLost
  \/ \E i \in DOMAIN events :
       LET before == IF i = 1 THEN c.masks ELSE events[i - 1].masks
       IN  (events[i].masks \ before) \cap CriticalFaults # {}

IngestBeep(c, b, events, dropped) ==
  BeepUpdate(b, Critical(Ingested(c, events, dropped)), IngestRaises(c, events, dropped))
=============================================================================
