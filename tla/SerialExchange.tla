-------------------------- MODULE SerialExchange --------------------------
(***************************************************************************)
(* One serial line between the daemon and a Nano (SerialProbe), shared by  *)
(* the worker that forwards temperatures to this Nano and by API clients,  *)
(* and what becomes of the alerts that come over it (AlertCenter).         *)
(*                                                                         *)
(* One request is on the line at a time; who has the gate may send.  Who   *)
(* reads answers also finds alerts, and keeps them for the worker.         *)
(*                                                                         *)
(* Frames are lost (or damaged, and not recognised) and answers come after *)
(* the deadline of two seconds, within the budgets of the environment that *)
(* is chosen at the start.                                                 *)
(***************************************************************************)
EXTENDS AlertCenter

CONSTANTS
  Clients,         (* Threads of the API.                                  *)
  Requests,        (* What they ask: subset of {"status", "command"}.      *)
  SeqModulus,      (* The sequence number is 16 bits wide.                 *)
  MaxEvents,       (* The queue of events holds 512.                       *)
  Environments     (* [losses, delays, changes, clients, beeper]: budgets,  *)
                   (* whether clients ask, whether they enable the beeper.  *)

ASSUME ExchangeAssumption ==
  /\ MaxEvents \in Nat \ {0} /\ SeqModulus \in Nat
  /\ Requests \subseteq {"status", "command"}
  /\ Environments \subseteq [losses : Nat, delays : Nat, changes : Nat,
                              clients : BOOLEAN, beeper : BOOLEAN]
  /\ \A e \in Environments : e.losses + e.delays + 1 < SeqModulus

None   == "none"
Worker == "worker"
ASSUME ThreadAssumption == {None, Worker} \cap Clients = {}

VARIABLES
  env,        (* What is left of the budgets.                              *)
  pc,         (* What each thread does.                                    *)
  asked,      (* The request of each thread that waits or has the line.    *)
  holder,     (* busy_: the thread that has the line, or None.             *)
  sequence,   (* sequence_                                                 *)
  toNano, toHost,   (* The frames on their way.                            *)
  events, dropped,  (* events_, droppedEvents_ # 0                         *)
  registered, (* The probe is in the registry of open ports.               *)
  verified,   (* identityVerified                                          *)
  notified,   (* activity_ has been notified since it was cleared.         *)
  watching,   (* The worker's sleep ends when bytes arrive.                *)
  faults,     (* The faults that are active on the Nano.                   *)
  center, beeper,
  mistaken,   (* History: an exchange took an answer to another request.   *)
  overflowed  (* History: an alert was dropped that the daemon should hear. *)

line  == <<sequence, toNano, toHost>>
queue == <<events, dropped, overflowed>>
alarm == <<center, beeper>>
vars  == <<env, pc, asked, holder, line, queue, registered, verified, notified,
           watching, faults, alarm, mistaken>>

(* The frames: own is history, TRUE while the exchange of the frame goes on. *)
Request(type, seq) == [type |-> type, seq |-> seq, own |-> TRUE]
Answer(kind, request, masks) ==
  [kind |-> kind, seq |-> request.seq, masks |-> masks, own |-> request.own]
Alert(masks) == [kind |-> "alert", seq |-> 0, masks |-> masks, own |-> FALSE]

Reply(type) == CASE type = "temperatures" -> "heartbeat" [] type = "hello" -> "hello"
                 [] type = "status" -> "status" [] type = "command" -> "ack"

Disowned(frames) == [i \in DOMAIN frames |-> [frames[i] EXCEPT !.own = FALSE]]

-----------------------------------------------------------------------------
Init ==
  /\ env \in Environments
  /\ pc = [t \in Clients \cup {Worker} |-> IF t = Worker THEN "closed" ELSE "idle"]
  /\ asked = [t \in Clients \cup {Worker} |-> "hello"]
  /\ holder = None /\ sequence = 0 /\ toNano = <<>> /\ toHost = <<>>
  /\ events = <<>> /\ dropped = FALSE /\ overflowed = FALSE
  /\ verified = FALSE /\ notified = FALSE /\ watching = FALSE
  /\ faults = {} /\ center = NewCenter /\ beeper = NewBeeper(env.beeper)
  /\ mistaken = FALSE /\ registered = FALSE

-----------------------------------------------------------------------------
(* The Nano: a pass handles a frame, finds the faults of the moment, announces
   a change, and answers temperatures. *)

SendHello(request)  == <<Answer("hello", request, {})>>
SendStatus(request) == <<Answer("status", request, faults)>>
SendAck(request)    == <<Answer("ack", request, {})>>
SendHeartbeat(request, masks) == <<Answer("heartbeat", request, masks)>>

(* AlertPublisher::update() *)
Published(now) == IF now # faults THEN <<Alert(now)>> ELSE <<>>

Handled(request) ==
  CASE request.type = "hello"   -> SendHello(request)
    [] request.type = "status"  -> SendStatus(request)
    [] request.type = "command" -> SendAck(request)
    [] OTHER                    -> <<>>

NanoPass ==
  \E now \in IF env.changes > 0 THEN SUBSET Faults ELSE {faults} :
    LET some   == toNano # <<>>
        first  == IF some THEN Handled(Head(toNano)) ELSE <<>>
        change == Published(now)
        beat   == IF some /\ Head(toNano).type = "temperatures"
                    THEN SendHeartbeat(Head(toNano), now) ELSE <<>>
    IN  /\ some \/ now # faults
        /\ toNano' = IF some THEN Tail(toNano) ELSE toNano
        /\ toHost' = toHost \o first \o change \o beat
        /\ faults' = now
        /\ env' = IF now # faults THEN [env EXCEPT !.changes = @ - 1] ELSE env
        /\ UNCHANGED <<pc, asked, holder, sequence, queue, verified, notified,
                       watching, alarm, registered, mistaken>>

Lose ==
  /\ env.losses > 0
  /\ env' = [env EXCEPT !.losses = @ - 1]
  /\ \/ \E i \in DOMAIN toNano : toNano' = RemoveAt(toNano, i) /\ UNCHANGED toHost
     \/ \E i \in DOMAIN toHost : toHost' = RemoveAt(toHost, i) /\ UNCHANGED toNano
  /\ UNCHANGED <<pc, asked, holder, sequence, queue, verified, notified, watching,
                 faults, alarm, registered, mistaken>>

-----------------------------------------------------------------------------
(* retain() *)

Event(frame) == [kind |-> frame.kind, masks |-> frame.masks]

Kept(frame) == frame.kind \in {"alert", "heartbeat", "status"}

Retained_SilentFault(q, new) ==
  LET all  == q.events \o new
      lost == IF Len(all) > MaxEvents THEN Len(all) - MaxEvents ELSE 0
  IN  [events     |-> SubSeq(all, lost + 1, Len(all)),
       dropped    |-> q.dropped,
       overflowed |-> q.overflowed \/ \E i \in 1 .. lost : all[i].kind = "alert"]

(* What is over the limit is dropped from the front. *)
Retained(q, new) ==
  LET all  == q.events \o new
      lost == IF Len(all) > MaxEvents THEN Len(all) - MaxEvents ELSE 0
  IN  [events     |-> SubSeq(all, lost + 1, Len(all)),
       dropped    |-> q.dropped \/ lost # 0,
       overflowed |-> q.overflowed \/ \E i \in 1 .. lost : all[i].kind = "alert"]

Matches_TypeOnlyFault(frame, t) == frame.kind = Reply(asked[t])
Matches(frame, t) == frame.seq = sequence /\ frame.kind = Reply(asked[t])

(* What a thread retains of the frames of one read: alerts, and the answer to its
   request, if it has one. *)
Retains(frame, t) == frame.kind = "alert" \/ (t # None /\ Matches(frame, t))

AfterRead(frames, t) ==
  LET kept == SelectSeq(frames, LAMBDA f : Kept(f) /\ Retains(f, t))
  IN  Retained([events |-> events, dropped |-> dropped, overflowed |-> overflowed],
               [i \in DOMAIN kept |-> Event(kept[i])])

SetQueue(q) ==
  events' = q.events /\ dropped' = q.dropped /\ overflowed' = q.overflowed

Retain(frames, t) ==
  IF \E i \in DOMAIN frames : Retains(frames[i], t)
    THEN SetQueue(AfterRead(frames, t)) /\ notified' = TRUE
    ELSE UNCHANGED <<queue, notified>>

-----------------------------------------------------------------------------
(* exchange() *)

(* Only temperatures have priority, and only the worker sends them. *)
PriorityWaiting == pc[Worker] = "waiting" /\ asked[Worker] = "temperatures"

MayTake_NoPriorityFault(t) == holder = None
MayTake(t) == holder = None /\ (t = Worker \/ ~PriorityWaiting)

(* A thread waits for the gate.  A live read (onlyIdle) gives up instead: it
   takes the gate at once or does nothing. *)
Ask(t, type) ==
  /\ pc' = [pc EXCEPT ![t] = "waiting"] /\ asked' = [asked EXCEPT ![t] = type]
  /\ UNCHANGED <<env, holder, line, queue, verified, notified, watching, faults,
                 alarm, registered, mistaken>>

(* It has the gate: the next sequence number, and the request is written. *)
Take(t) ==
  /\ pc[t] = "waiting" /\ MayTake(t)
  /\ holder' = t /\ pc' = [pc EXCEPT ![t] = "exchanging"]
  /\ sequence' = (sequence + 1) % SeqModulus
  /\ toNano' = Append(toNano, Request(asked[t], sequence'))
  /\ UNCHANGED <<env, asked, toHost, queue, verified, notified, watching, faults,
                 alarm, registered, mistaken>>

(* What the worker does when an exchange has succeeded: after Hello it reads the
   state once, and with that it is connected; after temperatures it goes on. *)
WorkerGoesOn ==
  \/ /\ asked[Worker] = "hello"
     /\ pc' = [pc EXCEPT ![Worker] = "snapshot"] /\ verified' = TRUE
     /\ UNCHANGED alarm
  \/ /\ asked[Worker] = "status"
     /\ pc' = [pc EXCEPT ![Worker] = "loop"]
     /\ center' = Connection(center, TRUE)
     /\ beeper' = ConnectionBeep(center, beeper, TRUE)
     /\ UNCHANGED verified
  \/ /\ asked[Worker] = "temperatures"
     /\ pc' = [pc EXCEPT ![Worker] = "receive"] /\ UNCHANGED <<verified, alarm>>

(* The exchange of t reads some frames and goes on, or ends with the answer.
   Its end releases the gate and wakes the worker, which may not be watching. *)
Read(t) ==
  /\ holder = t
  /\ \E n \in 1 .. Len(toHost) :
       LET frames  == SubSeq(toHost, 1, n)
           rest    == SubSeq(toHost, n + 1, Len(toHost))
           answers == {i \in 1 .. n : Matches(frames[i], t)}
       IN  /\ Retain(frames, t)
           /\ IF answers = {}
                THEN /\ toHost' = rest
                     /\ UNCHANGED <<pc, holder, toNano, verified, alarm, mistaken>>
                ELSE /\ toHost' = Disowned(rest) /\ toNano' = Disowned(toNano)
                     /\ holder' = None
                     /\ mistaken' = (mistaken \/ \E i \in answers : ~frames[i].own)
                     /\ IF t = Worker THEN WorkerGoesOn
                        ELSE pc' = [pc EXCEPT ![t] = "idle"] /\ UNCHANGED <<verified, alarm>>
  /\ UNCHANGED <<env, asked, sequence, watching, faults, registered>>

(* The request of the exchange that goes on, or its answer, is on its way. *)
Underway == \/ \E i \in DOMAIN toNano : toNano[i].own
            \/ \E i \in DOMAIN toHost : toHost[i].own

(* Two seconds have passed: a frame was lost, or the Nano is late. *)
TimeOut(t) ==
  /\ holder = t
  /\ IF Underway
       THEN env.delays > 0 /\ env' = [env EXCEPT !.delays = @ - 1]
       ELSE UNCHANGED env
  /\ toHost' = Disowned(toHost) /\ toNano' = Disowned(toNano)
  /\ holder' = None /\ notified' = TRUE
  /\ pc' = [pc EXCEPT ![t] = IF t = Worker THEN "failed" ELSE "idle"]
  /\ UNCHANGED <<asked, sequence, queue, verified, watching, faults, alarm, registered, mistaken>>

-----------------------------------------------------------------------------
(* The worker's loop around it: run(). *)

WorkerAt(from, to) == pc[Worker] = from /\ pc' = [pc EXCEPT ![Worker] = to]

Snapshot == pc[Worker] = "snapshot" /\ Ask(Worker, "status")
Send     == pc[Worker] = "loop" /\ Ask(Worker, "temperatures")

NotDue ==
  /\ WorkerAt("loop", "receive")
  /\ UNCHANGED <<env, asked, holder, line, queue, verified, notified, watching,
                 faults, alarm, registered, mistaken>>

(* receiveEvents(): one read, if the line is free. *)
ReceiveEvents ==
  /\ WorkerAt("receive", "ingest")
  /\ IF holder # None \/ toHost = <<>> THEN UNCHANGED <<queue, toHost, notified>>
     ELSE \E n \in 1 .. Len(toHost) :
            /\ Retain(SubSeq(toHost, 1, n), None)
            /\ toHost' = SubSeq(toHost, n + 1, Len(toHost))
  /\ UNCHANGED <<env, asked, holder, sequence, toNano, verified, watching, faults,
                 alarm, registered, mistaken>>

TakeEvents == events' = <<>> /\ dropped' = FALSE

IngestAll ==
  /\ center' = Ingested(center, events, dropped)
  /\ beeper' = IngestBeep(center, beeper, events, dropped)

Ingest ==
  /\ WorkerAt("ingest", "clear")
  /\ TakeEvents /\ IngestAll
  /\ UNCHANGED <<overflowed, env, asked, holder, line, verified, notified, watching, faults, registered, mistaken>>

(* waitForActivity(): clear the signal, then look whether the line is free, then
   whether anything is there already, then sleep. *)
Clear ==
  /\ WorkerAt("clear", "watch") /\ notified' = FALSE
  /\ UNCHANGED <<env, asked, holder, line, queue, verified, watching, faults, alarm, registered, mistaken>>

Watch ==
  /\ WorkerAt("watch", "pending") /\ watching' = (holder = None)
  /\ UNCHANGED <<env, asked, holder, line, queue, verified, notified, faults, alarm, registered, mistaken>>

Sleep_ClearLateFault ==
  /\ WorkerAt("pending", IF events # <<>> \/ dropped THEN "loop" ELSE "asleep")
  /\ notified' = FALSE
  /\ UNCHANGED <<env, asked, holder, line, queue, verified, watching,
                 faults, alarm, registered, mistaken>>

Sleep ==
  /\ WorkerAt("pending", IF events # <<>> \/ dropped THEN "loop" ELSE "asleep")
  /\ UNCHANGED <<env, asked, holder, line, queue, verified, notified, watching,
                 faults, alarm, registered, mistaken>>

(* By a signal, by bytes, or when the next temperatures are due. *)
Wake ==
  /\ WorkerAt("asleep", "loop") /\ watching' = FALSE
  /\ UNCHANGED <<env, asked, holder, line, queue, verified, notified,
                 faults, alarm, registered, mistaken>>

(* An exception: what was heard from the right Nano still counts.  The probe stays
   registered when another thread holds the lock of the registry. *)
Close ==
  /\ WorkerAt("failed", "closed")
  /\ TakeEvents /\ overflowed' = (overflowed /\ verified)
  /\ verified' = FALSE /\ registered' \in BOOLEAN
  /\ LET c == IF verified THEN Ingested(center, events, dropped) ELSE center
         b == IF verified THEN IngestBeep(center, beeper, events, dropped) ELSE beeper
     IN  center' = Connection(c, FALSE) /\ beeper' = ConnectionBeep(c, b, FALSE)
  /\ UNCHANGED <<env, asked, holder, line, notified, watching, faults, mistaken>>

(* connect_(): the worker finds the registered probe, and says hello. *)
Connect ==
  /\ pc[Worker] = "closed" /\ registered /\ Ask(Worker, "hello")

(* A scan opens the port, when nobody has it open: a new probe.  Input is flushed
   and the Nano, which may restart, has handled or forgotten what it was sent. *)
Open ==
  /\ pc[Worker] = "closed" /\ ~registered /\ \A t \in Clients : pc[t] = "idle"
  /\ registered' = TRUE
  /\ sequence' = 0 /\ toNano' = <<>> /\ toHost' = <<>>
  /\ events' = <<>> /\ dropped' = FALSE /\ overflowed' = FALSE
  /\ \/ UNCHANGED <<faults, env>>
     \/ /\ env.changes > 0 /\ faults # {}
        /\ faults' = {} /\ env' = [env EXCEPT !.changes = @ - 1]
  /\ UNCHANGED <<pc, asked, holder, verified, notified, watching, alarm, mistaken>>

(* After ten seconds without a probe the connection counts as failed. *)
NotFound ==
  /\ pc[Worker] = "closed" /\ ~registered
  /\ center' = Connection(center, FALSE) /\ beeper' = ConnectionBeep(center, beeper, FALSE)
  /\ UNCHANGED <<env, pc, asked, holder, line, queue, registered, verified, notified,
                 watching, faults, mistaken>>

ClientAsks(t) ==
  /\ env.clients /\ pc[t] = "idle" /\ registered
  /\ \E type \in Requests : Ask(t, type)

-----------------------------------------------------------------------------
(* The beeper's thread. *)

Beep(b) ==
  /\ beeper' = b /\ b # beeper
  /\ UNCHANGED <<env, pc, asked, holder, line, queue, verified, notified, watching,
                 faults, center, registered, mistaken>>

Enable  == env.beeper /\ Beep(BeepEnable(beeper, ~beeper.enabled))
Look    == beeper.thread = "check" /\ Beep(BeepLook(beeper))
Elapsed == beeper.next /\ Beep(BeepElapsed(beeper))
Sounded == beeper.thread = "sounding" /\ Beep(BeepSounded(beeper))

-----------------------------------------------------------------------------
WorkerStep == \/ Snapshot \/ NotDue \/ ReceiveEvents \/ Ingest \/ Clear \/ Watch
              \/ Sleep \/ Wake \/ Close \/ Connect \/ Open \/ NotFound

Next ==
  \/ NanoPass \/ Lose
  \/ WorkerStep \/ Send
  \/ \E t \in Clients \cup {Worker} : Take(t) \/ Read(t) \/ TimeOut(t)
  \/ \E t \in Clients : ClientAsks(t)
  \/ Enable \/ Look \/ Elapsed \/ Sounded

(* The Nano loops; no thread stops for ever, so whoever finds the line free each time
   that it looks takes it; temperatures fall due again and again; with its other
   requests the worker is not too late each time that the line falls free; the
   interval of the beeper elapses. *)
Fairness ==
  /\ WF_vars(NanoPass) /\ WF_vars(WorkerStep)
  /\ SF_vars(Send) /\ \A t \in Clients \cup {Worker} : WF_vars(Take(t))
  /\ SF_vars(asked[Worker] # "temperatures" /\ Take(Worker))
  /\ \A t \in Clients \cup {Worker} : WF_vars(Read(t) \/ (TimeOut(t) /\ ~Underway))
  /\ WF_vars(Look) /\ WF_vars(Elapsed) /\ WF_vars(Sounded)

Spec == Init /\ [][Next]_vars /\ Fairness

-----------------------------------------------------------------------------
(* An exchange never takes the late answer to an earlier request for its own,
   whatever timed out before and whoever asked. *)
AnswerIsOwn == ~mistaken

(* A queue that dropped an alert of the verified Nano says so until the daemon has
   recorded the loss. *)
OverflowConfessed == overflowed => dropped \/ center.historyLost

(* The worker never sleeps over events that are kept, nor over bytes that no
   exchange will read, without a wake-up on its way. *)
NoLostWakeup ==
  pc[Worker] = "asleep" =>
    /\ events # <<>> \/ dropped => notified
    /\ toHost # <<>> /\ holder = None => watching \/ notified

(* Temperatures that wait for the line get it, although clients may ask again and
   again, each time before the worker wakes up and finds the line free. *)
TemperaturesGetTheLine == PriorityWaiting ~> holder = Worker

(* Alerts that were lost, damaged, dropped or thrown away are made good by the
   next heartbeat or status: when the faults of the Nano stay as they are and
   frames arrive, the daemon shows those faults. *)
MasksRepaired == <>[](center.masks = faults)

(* A critical fault that is recorded while the beeper is enabled is sounded, even
   if it is over before the beeper's thread looks, unless the beeper is disabled. *)
CriticalIsSounded ==
  beeper.pending ~> beeper.thread = "sounding" \/ ~beeper.enabled
=============================================================================
