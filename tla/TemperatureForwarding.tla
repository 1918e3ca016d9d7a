----------------------- MODULE TemperatureForwarding -----------------------
(***************************************************************************)
(* How the temperature of a GPU comes to a Nano (TemperatureForwarder): a  *)
(* thread per provider samples the GPUs (TemperatureRetry), the worker of  *)
(* the controller chooses what is fresh (mappedTemperatures) and when it   *)
(* is due (TemperatureSchedule), and sends it when it gets the serial      *)
(* line.                                                                   *)
(*                                                                         *)
(* Time goes in ticks of a second, and a point in time is kept as its age, *)
(* which stops counting where the code stops caring.  A thread acts at     *)
(* once when it is due: Tick waits for it.  A query of a provider may take *)
(* for ever.                                                               *)
(***************************************************************************)
EXTENDS Naturals, FiniteSets

CONSTANTS
  Sources,         (* The providers: NVIDIA and AMD.                        *)
  Gpus, Groups,
  Temperatures,
  Mappings,        (* Configurations of the controller: Groups -> Gpus and  *)
                   (* None, for a group that is disabled.                   *)
  None,
  MaxAttempts,     (* 3 attempts of a cycle.                                *)
  Fresh,           (* A sample expires after 3 s, ...                       *)
  Changed,         (* ... what has changed is due 1 s after the last packet *)
  KeepAlive,       (* ... and anything 5 s after it.                        *)
  ExchangeTime,    (* The longest wait for the line, and for an answer.     *)
  RereadTime,      (* The longest that reading the whole state takes.       *)
  MinUptime,       (* A Nano that restarts has run for so long.             *)
  Environments     (* [sources, configures, restarts]: the providers that   *)
                   (* work, whether the configuration changes, whether the  *)
                   (* Nano restarts.                                        *)

(* A reading has its temperature, the age of its timestamp, and its true age. *)
Readings == [temperature : Temperatures, age : 0 .. Fresh, measured : 0 .. Fresh]
Batches  == [Gpus -> Readings \cup {None}]
Packets  == [Groups -> Readings \cup {None}]
Payloads == [Groups -> Temperatures \cup {None}]

ASSUME ForwardingAssumption ==
  /\ Mappings \subseteq [Groups -> Gpus \cup {None}]
  /\ None \notin Gpus /\ None \notin Temperatures /\ None \notin Nat
  /\ None \notin Readings /\ None \notin Payloads
  /\ {MaxAttempts, Fresh, Changed, KeepAlive} \subseteq Nat \ {0}
  /\ {ExchangeTime, RereadTime, MinUptime} \subseteq Nat /\ Changed <= KeepAlive
  /\ Environments \subseteq [sources : SUBSET Sources, configures : BOOLEAN, restarts : BOOLEAN]

MaxUptime == MinUptime + 1

VARIABLES
  env,
  mapping,     (* The configuration of the controller.                     *)
  sampler,     (* The thread of each provider.                             *)
  readings,    (* readings_: what each provider has published.             *)
  worker,      (* The thread of the controller.                            *)
  nano,        (* The Nano: the reading of each group, and its uptime.     *)
  late         (* History: for how long the connected Nano holds a reading *)
               (* that it should not.                                      *)

MaxOf(a, b) == IF a < b THEN b ELSE a

(* A Nano that restarts has run for longer than it takes till the next heartbeat at most:
   that one has a lower uptime.  Of one that restarts earlier it is not lower. *)
LongUptime == MinUptime > MaxOf(KeepAlive, RereadTime) + 2 * ExchangeTime

(* The longest that the connected Nano may hold what is not right: the wait for the line
   and the exchange that go on, or the second after the last packet if that is longer, the
   next wait and an exchange that is lost; and what is read when the Nano has restarted. *)
MaxLate == MaxOf(Changed, ExchangeTime) + 3 * ExchangeTime + (IF env.restarts THEN RereadTime ELSE 0)

vars == <<env, mapping, sampler, readings, worker, nano, late>>

NoBatch  == [p \in Gpus |-> None]
NoPacket == [g \in Groups |-> None]

Older(age, limit)  == IF age < limit THEN age + 1 ELSE age
OlderReading(r) ==
  IF r = None THEN None
  ELSE [r EXCEPT !.age = Older(@, Fresh), !.measured = Older(@, Fresh)]
OlderBatch(b)      == [x \in DOMAIN b |-> OlderReading(b[x])]

Init ==
  /\ env \in Environments
  /\ mapping \in Mappings
  /\ sampler = [s \in Sources |-> [pc |-> "idle", attempt |-> 0, addresses |-> {}, age |-> 0]]
  /\ readings = [s \in Sources |-> NoBatch]
  /\ worker = [pc |-> "offline", mapping |-> mapping, seen |-> readings, packet |-> NoPacket,
               previous |-> None, sentAge |-> 0, deadline |-> 0, waited |-> 0,
               woken |-> FALSE, uptime |-> None, reconcile |-> FALSE]
  /\ nano = [reading |-> NoPacket, uptime |-> 0, reread |-> FALSE, answered |-> FALSE]
  /\ late = 0

-----------------------------------------------------------------------------
(* mappedTemperatures: a group has the reading of its GPU when exactly one
   provider has a fresh one. *)

Usable(r) == r # None /\ r.age < Fresh

FreshSources(gpu, batches) == {s \in Sources : Usable(batches[s][gpu])}

MappedTemperatures(map, batches) ==
  [g \in Groups |->
     IF map[g] # None /\ Cardinality(FreshSources(map[g], batches)) = 1
       THEN batches[CHOOSE s \in FreshSources(map[g], batches) : TRUE][map[g]] ELSE None]

(* What is encoded of it. *)
Payload(packet) ==
  [g \in Groups |-> IF packet[g] = None THEN None ELSE packet[g].temperature]

(* TemperatureSchedule::nextDue, as the time that is left. *)
Left(limit, age) == IF age >= limit THEN 0 ELSE limit - age

NextDue(packet, w) ==
  IF w.previous = None THEN 0
  ELSE Left(IF Payload(packet) # w.previous THEN Changed ELSE KeepAlive, w.sentAge)

MinOf(S) == CHOOSE x \in S : \A y \in S : x <= y

Deadline_NoExpiryFault(map, batches, w) == NextDue(MappedTemperatures(map, batches), w)

(* The worker's next deadline: expiry is a timer of its own. *)
Deadline(map, batches, w) ==
  MinOf({NextDue(MappedTemperatures(map, batches), w)} \cup
        {Fresh - batches[x[1]][map[x[2]]].age :
           x \in {y \in Sources \X Groups : map[y[2]] # None /\ Usable(batches[y[1]][map[y[2]]])}})

-----------------------------------------------------------------------------
(* The samplers. *)

Woken(w) == [w EXCEPT !.woken = TRUE]

Mapped(map) == {map[g] : g \in Groups} \ {None}

(* A cycle, for the GPUs that are mapped when it begins; without any the last
   readings are forgotten. *)
Begin(s) ==
  /\ s \in env.sources /\ sampler[s].pc = "idle"
  /\ IF Mapped(mapping) # {}
       THEN /\ sampler' = [sampler EXCEPT ![s] = [pc |-> "querying", attempt |-> 1,
                                                  addresses |-> Mapped(mapping), age |-> 0]]
            /\ UNCHANGED <<readings, worker>>
       ELSE /\ readings' = [readings EXCEPT ![s] = NoBatch]
            /\ worker' = Woken(worker)
            /\ UNCHANGED sampler
  /\ UNCHANGED <<env, mapping, nano>>

Retry(s) ==
  /\ sampler[s].pc = "pausing"
  /\ sampler' = [sampler EXCEPT ![s].pc = "querying", ![s].attempt = @ + 1, ![s].age = 0]
  /\ UNCHANGED <<env, mapping, readings, worker, nano>>

(* TemperatureRetry::accept: while the query will be tried again, what is missing
   is kept as it was, with its own timestamp. *)
Accepted(published, next, again, age) ==
  [p \in Gpus |-> IF again /\ next[p] = None THEN published[p] ELSE next[p]]

(* A query ends with the readings of some of the GPUs; they have the time at
   which it began. *)
Complete(s) ==
  /\ sampler[s].pc = "querying"
  /\ \E got \in SUBSET sampler[s].addresses, error \in BOOLEAN :
     \E value \in [got -> Temperatures] :
       LET again == error /\ sampler[s].attempt < MaxAttempts
           age   == sampler[s].age
           next  == [p \in Gpus |-> IF p \in got
                       THEN [temperature |-> value[p], age |-> age, measured |-> age] ELSE None]
       IN  /\ readings' = [readings EXCEPT ![s] = Accepted(@, next, again, age)]
           /\ sampler' = IF again THEN [sampler EXCEPT ![s].pc = "pausing"]
                         ELSE [sampler EXCEPT ![s] = [pc |-> "idle", attempt |-> 0,
                                                      addresses |-> {}, age |-> 0]]
  /\ worker' = Woken(worker)
  /\ UNCHANGED <<env, mapping, nano>>

(* configure(): the worker and the samplers are woken. *)
Configure(map) ==
  /\ env.configures /\ map # mapping /\ mapping' = map /\ worker' = Woken(worker)
  /\ UNCHANGED <<env, sampler, readings, nano>>

-----------------------------------------------------------------------------
(* The worker: run(). *)

Step(from, to) == worker.pc = from /\ worker' = to
OnlyWorker     == UNCHANGED <<env, mapping, sampler, readings, nano>>

(* A turn of the loop begins: the signal is cleared and the configuration is read,
   before anything else that is announced by the signal. *)
Turn(w) == [w EXCEPT !.woken = FALSE, !.mapping = mapping, !.waited = 0]

(* What is published is looked at, and is due or is not. *)
Looked(w) ==
  [w EXCEPT !.seen = readings,
            !.pc = IF NextDue(MappedTemperatures(w.mapping, readings), w) = 0
                     THEN "gate" ELSE "settle"]

Connect ==
  /\ Step("offline", [Turn(worker) EXCEPT !.pc = "connecting"])
  /\ OnlyWorker

(* Hello, and the whole state once, which may take any time. *)
Connected ==
  /\ Step("connecting", [worker EXCEPT !.pc = "looking", !.previous = None, !.uptime = None])
  /\ nano' = [nano EXCEPT !.reread = TRUE, !.answered = FALSE]
  /\ UNCHANGED <<env, mapping, sampler, readings>>

Top       == ~worker.reconcile /\ Step("top", Looked(Turn(worker))) /\ OnlyWorker
Reconcile == /\ worker.reconcile /\ Step("top", [Turn(worker) EXCEPT !.pc = "rereading"])
             /\ OnlyWorker

(* The state has been read again, and the turn goes on. *)
Reread ==
  /\ Step("rereading", [worker EXCEPT !.pc = "looking", !.reconcile = FALSE, !.waited = 0])
  /\ nano' = [nano EXCEPT !.reread = TRUE]
  /\ UNCHANGED <<env, mapping, sampler, readings>>

Look == Step("looking", Looked(worker)) /\ OnlyWorker

Chosen_EarlyFault == MappedTemperatures(worker.mapping, worker.seen)

(* The packet is chosen when the line is free, not when it was found to be due. *)
Chosen == MappedTemperatures(worker.mapping, readings)

(* The packet is written; it arrives, or is lost. *)
Send ==
  /\ Step("gate", [worker EXCEPT !.pc = "exchanging", !.seen = readings, !.packet = Chosen,
                                 !.waited = 0])
  /\ \/ nano' = [nano EXCEPT !.reading = Chosen, !.answered = TRUE]
     \/ nano' = [nano EXCEPT !.answered = FALSE]
  /\ UNCHANGED <<env, mapping, sampler, readings>>

Restarted_FirstUptimeFault(w, uptime) ==
  [w EXCEPT !.reconcile = w.uptime # None /\ uptime < w.uptime,
            !.uptime = IF @ = None THEN uptime ELSE @]

(* An uptime that is less than the last one announces a restart. *)
Restarted(w, uptime) ==
  [w EXCEPT !.reconcile = w.uptime # None /\ uptime < w.uptime, !.uptime = uptime]

(* The heartbeat: schedule.sent(), with the time of the writing.  The first one of
   a connection is what restarts are told from. *)
Heartbeat ==
  /\ nano.answered
  /\ Step("exchanging",
          [Restarted(worker, nano.uptime) EXCEPT !.pc = "settle",
             !.previous = Payload(worker.packet), !.packet = NoPacket,
             !.sentAge = worker.waited, !.waited = 0])
  /\ nano' = [nano EXCEPT !.reread = @ \/ worker.uptime = None]
  /\ UNCHANGED <<env, mapping, sampler, readings>>

(* No heartbeat, and the worker disconnects. *)
Fail ==
  /\ worker.pc \in {"connecting", "gate", "exchanging", "rereading"}
  /\ worker' = [worker EXCEPT !.pc = "offline", !.reconcile = FALSE, !.previous = None,
                  !.packet = NoPacket, !.waited = 0, !.sentAge = 0, !.uptime = None,
                  !.seen = [s \in Sources |-> NoBatch], !.deadline = 0]
  /\ UNCHANGED <<env, mapping, sampler, readings, nano>>

(* After the events have been received (SerialExchange) it sleeps till its deadline. *)
Sleep ==
  /\ Step("settle",
          IF worker.reconcile THEN [worker EXCEPT !.pc = "top"]
          ELSE [worker EXCEPT !.pc = "asleep", !.seen = [s \in Sources |-> NoBatch],
                  !.deadline = Deadline(worker.mapping, worker.seen, worker)])
  /\ OnlyWorker

(* A notification, the deadline, or bytes from the Nano. *)
Wake ==
  /\ Step("asleep", [worker EXCEPT !.pc = "top", !.deadline = 0])
  /\ OnlyWorker

-----------------------------------------------------------------------------
(* The Nano restarts: it forgets its readings and what was sent to it. *)
Restart ==
  /\ env.restarts /\ nano.uptime >= MinUptime
  /\ nano' = [reading |-> NoPacket, uptime |-> 0, reread |-> FALSE, answered |-> FALSE]
  /\ UNCHANGED <<env, mapping, sampler, readings, worker>>

(* Nobody is due, and a second passes. *)
Urgent ==
  \/ worker.pc \in {"top", "looking", "settle"}
  \/ worker.pc = "asleep" /\ (worker.woken \/ worker.deadline = 0)
  \/ worker.pc \in {"gate", "exchanging"} /\ worker.waited = ExchangeTime
  \/ worker.pc = "rereading" /\ worker.waited = RereadTime

(* The temperature that the Nano holds is of no fresh reading of the group's GPU. *)
Right(g, r) == /\ mapping[g] # None /\ r.measured < Fresh
               /\ r.temperature = nano.reading[g].temperature

Wrong(g) ==
  /\ nano.reading[g] # None
  /\ mapping[g] # None =>
       \A s \in Sources : readings[s][mapping[g]] # None => ~Right(g, readings[s][mapping[g]])

Tick ==
  /\ ~Urgent
  /\ sampler' = [s \in Sources |->
                   IF sampler[s].pc = "querying" THEN [sampler[s] EXCEPT !.age = Older(@, Fresh)]
                   ELSE sampler[s]]
  /\ readings' = [s \in Sources |-> OlderBatch(readings[s])]
  /\ worker' = [worker EXCEPT
       !.seen = [s \in Sources |-> OlderBatch(@[s])],
       !.packet = OlderBatch(@),
       !.sentAge = IF worker.previous = None THEN 0 ELSE Older(@, KeepAlive),
       !.deadline = IF @ > 0 THEN @ - 1 ELSE 0,
       !.waited = IF worker.pc \in {"gate", "exchanging", "rereading"} THEN @ + 1 ELSE 0]
  /\ nano' = [nano EXCEPT !.reading = OlderBatch(@), !.uptime = IF env.restarts THEN Older(@, MaxUptime) ELSE 0]
  /\ UNCHANGED <<env, mapping>>

-----------------------------------------------------------------------------
(* Counting the seconds for which the Nano has held what is not right. *)
Counted(seconds) ==
  late' = IF worker'.pc \in {"offline", "connecting"} \/ mapping' # mapping \/ \A g \in Groups : ~Wrong(g)'
            THEN 0 ELSE IF late + seconds > MaxLate THEN MaxLate + 1 ELSE late + seconds

WorkerStep ==
  Connect \/ Connected \/ Top \/ Reconcile \/ Reread \/ Look \/ Send \/ Heartbeat \/ Fail \/ Sleep \/ Wake

Next ==
  \/ Tick /\ Counted(1)
  \/ /\ \/ \E s \in Sources : Begin(s) \/ Retry(s) \/ Complete(s)
        \/ \E map \in Mappings : Configure(map)
        \/ WorkerStep \/ Restart
     /\ Counted(0)

Spec == Init /\ [][Next]_vars

-----------------------------------------------------------------------------
Samplers == [pc : {"idle", "querying", "pausing"}, attempt : Nat,
             addresses : SUBSET Gpus, age : 0 .. Fresh]
Workers  == [pc : {"offline", "connecting", "top", "rereading", "looking", "gate", "exchanging",
                   "settle", "asleep"},
             mapping : Mappings, seen : [Sources -> Batches], packet : Packets,
             previous : Payloads \cup {None}, sentAge : Nat, deadline : Nat, waited : Nat,
             woken : BOOLEAN, uptime : 0 .. MaxUptime \cup {None}, reconcile : BOOLEAN]
Nanos    == [reading : Packets, uptime : 0 .. MaxUptime, reread : BOOLEAN, answered : BOOLEAN]

TypeOK ==
  /\ env \in [sources : SUBSET Sources, configures : BOOLEAN, restarts : BOOLEAN]
  /\ mapping \in Mappings /\ sampler \in [Sources -> Samplers] /\ readings \in [Sources -> Batches]
  /\ worker \in Workers /\ nano \in Nanos /\ late \in Nat

(* A reading that is sent as valid was measured less than three seconds ago, by
   one provider only, however often its query was retried and however long the
   worker waited for the line. *)
SentIsFresh ==
  [][\A g \in Groups :
       worker.pc = "gate" /\ worker'.pc = "exchanging" /\ worker'.packet[g] # None
         => /\ worker'.packet[g].measured < Fresh
            /\ Cardinality({s \in Sources : readings[s][worker.mapping[g]] # None
                              /\ readings[s][worker.mapping[g]].measured < Fresh}) = 1]_vars

(* While the controller is connected, a reading that has expired or that is not
   to be used any more is taken from the Nano within a bound: the exchange that
   goes on, the second since the last packet, and the next exchange, even when
   the provider hangs and nobody wakes the worker. *)
WithdrawnInTime == late <= MaxLate

(* A worker that sleeps after a heartbeat of the Nano has read its state since it
   restarted, when it has had a heartbeat of it before. *)
RestartIsReread == worker.pc = "asleep" /\ nano.answered => nano.reread
=============================================================================
