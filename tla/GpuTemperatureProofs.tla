------------------------ MODULE GpuTemperatureProofs ------------------------
(***************************************************************************)
(* Proofs about NvmlReader, for any GPUs, any number of processes that may *)
(* be started, and any troubles of the driver and of the system; and about *)
(* TemperatureForwarding, for any providers, GPUs, groups and limits.      *)
(***************************************************************************)
EXTENDS NvmlReader, TemperatureForwarding, WellFoundedInduction, FiniteSetTheorems, TLAPS

-----------------------------------------------------------------------------
(* NvmlReader. *)

(* Every process that lives is the one whose pid is kept: none is let go of
   before it was reaped. *)
OnlyPid == \A p \in Pids : Alive(p) => p = pid

(* Who waits for a reply has started somebody to give it. *)
PidWaits == pc = "waiting" => pid \in Pids

NvmlInv == NvmlTypeOK /\ OnlyPid /\ PidWaits

-----------------------------------------------------------------------------
(* What the session with the driver returns. *)

LEMMA NoHelperType == NoHelper \in Helpers /\ NewLibrary \in Libraries
BY DEF NoHelper, NewLibrary, Helpers, Libraries

LEMMA OpenedType ==
  ASSUME NEW lib \in Libraries
  PROVE  Closed(lib) \in Libraries /\ Opened(lib) \in Libraries
BY NoHelperType DEF Closed, Opened, NewLibrary, Libraries

LEMMA SampledType ==
  ASSUME NEW lib \in Libraries, NEW asked \in SUBSET NvidiaGpus, NEW troubled
  PROVE  /\ Sampled(lib, asked, troubled).reply \in SUBSET NvidiaGpus
         /\ Sampled(lib, asked, troubled).library \in Libraries
<1> DEFINE code     == [g \in asked |-> Code(lib, g, troubled)]
           failures == [g \in NvidiaGpus |->
                          CASE g \notin asked          -> 0
                            [] code[g] = "unknown"     -> IF lib.failures[g] = 3 THEN 3
                                                          ELSE lib.failures[g] + 1
                            [] code[g] = "context"     -> lib.failures[g]
                            [] OTHER                   -> 0]
           again    == {g \in asked : NeedsSession(code[g], failures[g])}
           lost     == {g \in asked : code[g] = "handle"} \cup again
           obtained == {g \in asked : code[g] \in {"ok", "passing"}}
<1>1. failures \in [NvidiaGpus -> 0 .. 3]
  <2> HIDE DEF code
  <2>1. lib.failures \in [NvidiaGpus -> 0 .. 3]
    BY DEF Libraries
  <2>2. QED
    BY <2>1
<1>2. Sampled(lib, asked, troubled) =
        [reply   |-> {g \in asked : code[g] = "ok"},
         library |-> [lib EXCEPT !.reinitialize = @ \/ again # {},
                                 !.handles = ((@ \cap asked) \cup obtained) \ lost,
                                 !.stale = (@ \cap asked) \ lost,
                                 !.failures = failures]]
  BY DEF Sampled
<1>3. obtained \subseteq NvidiaGpus
  OBVIOUS
<1> DEFINE reply == {g \in asked : code[g] = "ok"}
           next  == [lib EXCEPT !.reinitialize = @ \/ again # {},
                                !.handles = ((@ \cap asked) \cup obtained) \ lost,
                                !.stale = (@ \cap asked) \ lost,
                                !.failures = failures]
<1>4. reply \in SUBSET NvidiaGpus
  OBVIOUS
<1> HIDE DEF code, failures, again, lost, obtained
<1>5. next \in Libraries
  <2>1. (lib.reinitialize \/ again # {}) \in BOOLEAN
    OBVIOUS
  <2>2. /\ ((lib.handles \cap asked) \cup obtained) \ lost \in SUBSET NvidiaGpus
        /\ (lib.stale \cap asked) \ lost \in SUBSET NvidiaGpus
    BY <1>3 DEF Libraries
  <2>3. QED
    BY <1>1, <2>1, <2>2 DEF Libraries
<1>6. Sampled(lib, asked, troubled) = [reply |-> reply, library |-> next]
  BY <1>2
<1> HIDE DEF reply, next
<1>7. QED
  BY <1>4, <1>5, <1>6

-----------------------------------------------------------------------------
(* A step that leaves the pid and makes nothing live keeps the invariant. *)
LEMMA KeepsPid ==
  ASSUME NvmlInv, NvmlTypeOK', pid' = pid, pc' = "waiting" => pc = "waiting",
         \A p \in Pids : Alive(p)' => Alive(p)
  PROVE  NvmlInv'
BY DEF NvmlInv, OnlyPid, PidWaits

(* A process that goes on in another way is a process still. *)
LEMMA BecomeType ==
  ASSUME NvmlTypeOK, NEW p \in Pids, NEW run \in {"calling", "wedged", "exiting", "dead"},
         helpers[p].run # "none", helpers[p].run # "dead", Become(p, run)
  PROVE  /\ helpers' \in [Pids -> Helpers]
         /\ pid' = pid => \A q \in Pids : Alive(q)' => Alive(q)
BY DEF NvmlTypeOK, Become, Alive, Helpers

(* So is one whose session has changed. *)
LEMMA SessionType ==
  ASSUME NvmlTypeOK, NEW p \in Pids, NEW lib \in Libraries,
         helpers' = [helpers EXCEPT ![p].library = lib]
  PROVE  /\ helpers' \in [Pids -> Helpers]
         /\ pid' = pid => \A q \in Pids : Alive(q)' => Alive(q)
<1>1. [helpers[p] EXCEPT !.library = lib] \in Helpers
  BY DEF NvmlTypeOK, Helpers
<1>2. helpers' \in [Pids -> Helpers]
  BY <1>1 DEF NvmlTypeOK
<1>3. \A q \in Pids : helpers'[q].run = helpers[q].run
  BY DEF NvmlTypeOK, Helpers
<1>4. QED
  BY <1>2, <1>3 DEF Alive

LEMMA SpendType ==
  ASSUME NvmlTypeOK, NEW budget \in Budgets, Spend(budget)
  PROVE  budgets' \in [Budgets -> Nat]
BY DEF NvmlTypeOK, Spend

-----------------------------------------------------------------------------
(* The loop of a process. *)

LEMMA HelperSteps ==
  ASSUME NvmlInv, NEW p \in Pids, Take(p) \/ Answer(p) \/ Exit(p) \/ Die(p)
  PROVE  NvmlInv'
<1>1. CASE Take(p)
  <2>1. helpers[p].run = "idle" /\ Become(p, "calling")
    BY <1>1 DEF Take
  <2>2. QED
    BY <1>1, <2>1, BecomeType, KeepsPid DEF Take, NvmlInv, NvmlTypeOK
<1>2. CASE Answer(p)
  <2> DEFINE h   == helpers[p]
             lib == Closed(h.library)
             ans(s) == helpers' = [helpers EXCEPT ![p] =
                         IF Served(p) THEN [h EXCEPT !.run = "idle", !.asked = {}, !.replies = {s.reply},
                                                     !.library = s.library]
                         ELSE [h EXCEPT !.run = "exiting"]]
  <2>1. h \in Helpers /\ h.library \in Libraries /\ h.asked \in SUBSET NvidiaGpus
    BY DEF NvmlInv, NvmlTypeOK, Helpers
  <2>2. lib \in Libraries /\ Opened(lib) \in Libraries
    BY <2>1, OpenedType
  <2>3. PICK s : /\ ans(s)
                 /\ s.reply \in SUBSET NvidiaGpus
                 /\ s.library \in Libraries
    <3>1. \A t : /\ Sampled(Opened(lib), h.asked, t).reply \in SUBSET NvidiaGpus
                 /\ Sampled(Opened(lib), h.asked, t).library \in Libraries
      BY <2>1, <2>2, SampledType
    <3>2. \A l \in Libraries : NothingRead(l).reply \in SUBSET NvidiaGpus /\ NothingRead(l).library \in Libraries
      BY DEF NothingRead
    <3>3. \/ \E t : ans(Sampled(Opened(lib), h.asked, t))
          \/ \E l \in Libraries : ans(NothingRead(l))
      BY <1>2, <2>1, <2>2 DEF Answer
    <3>4. QED
      BY <3>1, <3>2, <3>3
  <2>4. helpers[p].run = "calling" /\ budgets' \in [Budgets -> Nat]
    BY <1>2, SpendType DEF Answer, NvmlInv, NvmlTypeOK, Budgets
  <2>5. NvmlTypeOK' /\ \A q \in Pids : Alive(q)' => Alive(q)
    BY <1>2, <2>1, <2>3, <2>4, ZenonT(60) DEF Answer, NvmlInv, NvmlTypeOK, Alive, Helpers
  <2>6. QED
    BY <1>2, <2>5, KeepsPid DEF Answer
<1>3. CASE Exit(p)
  <2>1. \/ helpers[p].run = "idle" /\ Become(p, "exiting")
        \/ helpers[p].run = "exiting" /\ Become(p, "dead")
    BY <1>3 DEF Exit
  <2>2. QED
    BY <1>3, <2>1, BecomeType, KeepsPid DEF Exit, NvmlInv, NvmlTypeOK
<1>4. CASE Die(p)
  <2>1. helpers[p].run # "none" /\ helpers[p].run # "dead" /\ Become(p, "dead")
    BY <1>4 DEF Die, Alive
  <2>2. QED
    BY <1>4, <2>1, BecomeType, KeepsPid DEF Die, NvmlInv, NvmlTypeOK
<1>5. QED
  BY <1>1, <1>2, <1>3, <1>4

-----------------------------------------------------------------------------
(* A helper is started only when no process lives: the one of the pid is dead or
   reaped, and there is no other. *)

LEMMA AskStep ==
  ASSUME NvmlInv, Ask
  PROVE  NvmlInv'
<1>1. CASE socket /\ Alive(pid) /\ helpers' = [helpers EXCEPT ![pid].asked = mapped]
           /\ pc' = "waiting" /\ UNCHANGED <<budgets, pid, socket, sampled>>
  <2>1. NvmlTypeOK' /\ \A p \in Pids : Alive(p)' => Alive(p)
    BY <1>1 DEF Ask, NvmlInv, NvmlTypeOK, Alive, Helpers
  <2>2. QED
    BY <1>1, <2>1 DEF NvmlInv, OnlyPid, PidWaits, Alive
<1>2. CASE Stop /\ UNCHANGED <<budgets, helpers, pid>>
  BY <1>2 DEF Ask, Stop, NvmlInv, NvmlTypeOK, OnlyPid, PidWaits, Alive
<1>3. CASE ~socket /\ MayStart /\ ~Alive(pid)
  <2> DEFINE rest == [p \in Pids |-> IF p = pid /\ ~Alive(p) THEN NoHelper ELSE helpers[p]]
             new  == CHOOSE p \in Pids : rest[p] = NoHelper
  <2>1. rest \in [Pids -> Helpers]
    BY NoHelperType DEF NvmlInv, NvmlTypeOK
  <2>2. \A p \in Pids : rest[p].run \in {"none", "dead"}
    BY <1>3 DEF NvmlInv, OnlyPid, Alive, NoHelper
  <2> HIDE DEF rest
  <2>3. CASE /\ \E q \in Pids : rest[q] = NoHelper
             /\ helpers' = [rest EXCEPT ![new] = Started(mapped)] /\ pid' = new
             /\ socket' = TRUE /\ pc' = "waiting" /\ UNCHANGED <<budgets, sampled>>
    <3>1. new \in Pids
      BY <2>3
    <3>2. Started(mapped) \in Helpers
      BY NoHelperType DEF Started, NvmlInv, NvmlTypeOK, Helpers
    <3> HIDE DEF new
    <3>3. NvmlTypeOK'
      BY <2>1, <2>3, <3>1, <3>2 DEF Ask, NvmlInv, NvmlTypeOK
    <3>4. \A p \in Pids : p # new => helpers'[p] = rest[p]
      BY <2>1, <2>3, <3>1
    <3>5. OnlyPid'
      BY <2>2, <2>3, <3>4 DEF OnlyPid, Alive
    <3>6. QED
      BY <2>3, <3>1, <3>3, <3>5 DEF NvmlInv, PidWaits
  <2>4. CASE Spend("spawn") /\ helpers' = rest /\ pid' = 0 /\ Stop
    <3>1. budgets' \in [Budgets -> Nat]
      BY <2>4, SpendType DEF NvmlInv, Budgets
    <3>2. NvmlTypeOK'
      BY <2>1, <2>4, <3>1 DEF Ask, Stop, NvmlInv, NvmlTypeOK
    <3>3. OnlyPid' /\ PidWaits'
      BY <2>2, <2>4 DEF OnlyPid, PidWaits, Alive, Stop
    <3>4. QED
      BY <3>2, <3>3 DEF NvmlInv
  <2>5. QED
    BY <1>3, <2>3, <2>4 DEF Ask, rest, NvmlInv, Alive, Stop
<1>4. QED
  BY <1>1, <1>2, <1>3 DEF Ask, MayStart

-----------------------------------------------------------------------------
(* The rest of the reader and its environment. *)

LEMMA ReaderSteps ==
  ASSUME NvmlInv, AskNothing \/ Receive \/ GiveUp \/ Reap \/ Kill \/ KeepPid
  PROVE  NvmlInv'
<1>1. CASE AskNothing
  BY <1>1 DEF AskNothing, Stop, NvmlInv, NvmlTypeOK, OnlyPid, PidWaits, Alive
<1>2. CASE Receive
  <2>1. pid \in Pids /\ helpers[pid] \in Helpers /\ helpers[pid].replies \subseteq SUBSET NvidiaGpus
    BY <1>2 DEF Receive, NvmlInv, PidWaits, NvmlTypeOK, Helpers
  <2>2. budgets' \in [Budgets -> Nat]
    BY <1>2, SpendType DEF Receive, NvmlInv, NvmlTypeOK, Budgets
  <2>3. helpers' \in [Pids -> Helpers] /\ \A p \in Pids : Alive(p)' => Alive(p)
    BY <1>2, <2>1 DEF Receive, NvmlInv, NvmlTypeOK, Alive, Helpers
  <2>4. NvmlTypeOK'
    BY <1>2, <2>1, <2>2, <2>3 DEF Receive, Stop, NvmlInv, NvmlTypeOK
  <2>5. QED
    BY <1>2, <2>3, <2>4, KeepsPid DEF Receive
<1>3. CASE GiveUp
  <2>1. budgets' \in [Budgets -> Nat]
    BY <1>3, SpendType DEF GiveUp, NvmlInv, NvmlTypeOK, Budgets
  <2>2. QED
    BY <1>3, <2>1 DEF GiveUp, Stop, NvmlInv, NvmlTypeOK, OnlyPid, PidWaits, Alive
<1>4. CASE Reap
  <2>1. NvmlTypeOK'
    BY <1>4, NoHelperType DEF Reap, NvmlInv, NvmlTypeOK
  <2>2. \A p \in Pids : ~Alive(p)'
    BY <1>4 DEF Reap, NvmlInv, OnlyPid, Alive, NoHelper
  <2>3. QED
    BY <1>4, <2>1, <2>2 DEF Reap, NvmlInv, OnlyPid, PidWaits
<1>5. CASE Kill
  <2> DEFINE killed == Killed(helpers[pid])
  <2>1. pid \in Pids /\ helpers[pid] \in Helpers /\ killed \in Helpers /\ killed.run = helpers[pid].run
    BY <1>5, ZenonT(60) DEF Kill, Killed, Alive, NvmlInv, NvmlTypeOK, Helpers
  <2>2. helpers' = [helpers EXCEPT ![pid] = killed]
    BY <1>5 DEF Kill
  <2> HIDE DEF killed
  <2>3. NvmlTypeOK' /\ \A p \in Pids : Alive(p)' => Alive(p)
    BY <1>5, <2>1, <2>2 DEF Kill, NvmlInv, NvmlTypeOK, Alive
  <2>4. QED
    BY <1>5, <2>3, KeepsPid DEF Kill
<1>6. CASE KeepPid
  BY <1>6 DEF KeepPid, NvmlInv, NvmlTypeOK, OnlyPid, PidWaits, Alive
<1>7. QED
  BY <1>1, <1>2, <1>3, <1>4, <1>5, <1>6

LEMMA EnvironmentSteps ==
  ASSUME NvmlInv, Map \/ Trouble \/ Restore
  PROVE  NvmlInv'
<1>1. CASE Map
  <2>1. budgets' \in [Budgets -> Nat]
    BY <1>1, SpendType DEF Map, NvmlInv, Budgets
  <2>2. QED
    BY <1>1, <2>1 DEF Map, NvmlInv, NvmlTypeOK, OnlyPid, PidWaits, Alive
<1>2. CASE Trouble
  <2>1. budgets' \in [Budgets -> Nat]
    BY <1>2, SpendType DEF Trouble, NvmlInv, Budgets
  <2>2. /\ helpers' \in [Pids -> Helpers] /\ driver' \in {"up", "down", "hangs"}
        /\ \A q \in Pids : Alive(q)' => Alive(q)
    <3>1. CASE driver' \in {"down", "hangs"} /\ UNCHANGED helpers
      BY <3>1 DEF NvmlInv, NvmlTypeOK, Alive
    <3>2. ASSUME UNCHANGED driver, NEW p \in Pids, NEW session \in {"lost", "odd"},
                 InSession(p, LAMBDA l : [l EXCEPT !.session = session])
          PROVE  <2>2
      <4> DEFINE lib == [helpers[p].library EXCEPT !.session = session]
      <4>1. helpers[p].library \in Libraries
        BY DEF NvmlInv, NvmlTypeOK, Helpers
      <4>2. lib \in Libraries
        BY <4>1 DEF Libraries
      <4>3. helpers' = [helpers EXCEPT ![p].library = lib]
        BY <3>2 DEF InSession
      <4> HIDE DEF lib
      <4>4. QED
        BY <1>2, <3>2, <4>2, <4>3, SessionType DEF Trouble, NvmlInv, NvmlTypeOK
    <3>3. ASSUME UNCHANGED driver, NEW p \in Pids,
                 InSession(p, LAMBDA l : [l EXCEPT !.stale = l.handles])
          PROVE  <2>2
      <4> DEFINE lib == [helpers[p].library EXCEPT !.stale = helpers[p].library.handles]
      <4>1. helpers[p].library \in Libraries
        BY DEF NvmlInv, NvmlTypeOK, Helpers
      <4>2. lib \in Libraries
        BY <4>1 DEF Libraries
      <4>3. helpers' = [helpers EXCEPT ![p].library = lib]
        BY <3>3 DEF InSession
      <4> HIDE DEF lib
      <4>4. QED
        BY <1>2, <3>3, <4>2, <4>3, SessionType DEF Trouble, NvmlInv, NvmlTypeOK
    <3>4. ASSUME UNCHANGED driver, NEW p \in Pids,
                 \/ helpers[p].run = "calling" /\ Become(p, "wedged")
                 \/ Alive(p) /\ Become(p, "dead")
          PROVE  <2>2
      BY <1>2, <3>4, BecomeType DEF Trouble, NvmlInv, NvmlTypeOK, Alive
    <3>5. QED
      BY <1>2, <3>1, <3>2, <3>3, <3>4 DEF Trouble
  <2>3. QED
    BY <1>2, <2>1, <2>2, KeepsPid DEF Trouble, NvmlInv, NvmlTypeOK
<1>3. CASE Restore
  <2>1. \A p \in Pids : helpers'[p] \in Helpers /\ helpers'[p].run = helpers[p].run
    <3> TAKE p \in Pids
    <3> DEFINE lib == [helpers[p].library EXCEPT !.session = "lost"]
    <3>1. helpers[p] \in Helpers /\ lib \in Libraries
      BY SMTT(60) DEF NvmlInv, NvmlTypeOK, Helpers, Libraries
    <3>2. \/ helpers'[p] = [helpers[p] EXCEPT !.library = lib]
          \/ helpers'[p] = helpers[p]
      BY <1>3 DEF Restore, Helpers, Libraries
    <3> HIDE DEF lib
    <3>3. QED
      BY <3>1, <3>2 DEF Helpers
  <2>2. NvmlTypeOK' /\ \A p \in Pids : Alive(p)' => Alive(p)
    BY <1>3, <2>1 DEF Restore, NvmlInv, NvmlTypeOK, Alive
  <2>3. QED
    BY <1>3, <2>2, KeepsPid DEF Restore
<1>4. QED
  BY <1>1, <1>2, <1>3

-----------------------------------------------------------------------------
LEMMA NvmlInitInv == NvmlInit => NvmlInv
<1> SUFFICES ASSUME NvmlInit PROVE NvmlInv
  OBVIOUS
<1>1. NvmlTypeOK
  BY NvmlAssumption, NoHelperType DEF NvmlInit, NvmlTypeOK
<1>2. \A p \in Pids : ~Alive(p)
  BY DEF NvmlInit, Alive, NoHelper
<1>3. QED
  BY <1>1, <1>2 DEF NvmlInit, NvmlInv, OnlyPid, PidWaits

LEMMA NvmlNextInv == NvmlInv /\ [NvmlNext]_nvmlVars => NvmlInv'
<1> SUFFICES ASSUME NvmlInv, [NvmlNext]_nvmlVars PROVE NvmlInv'
  OBVIOUS
<1>1. CASE NvmlNext
  BY <1>1, AskStep, ReaderSteps, HelperSteps, EnvironmentSteps DEF NvmlNext
<1>2. CASE UNCHANGED nvmlVars
  BY <1>2 DEF nvmlVars, NvmlInv, NvmlTypeOK, OnlyPid, PidWaits, Alive
<1>3. QED
  BY <1>1, <1>2

(* The budgets, the processes and the sessions keep their types, whatever the driver
   answers. *)
THEOREM NvmlTypeCorrect == NvmlSpec => []NvmlTypeOK
<1>1. NvmlInv => NvmlTypeOK
  BY DEF NvmlInv
<1>2. QED
  BY <1>1, NvmlInitInv, NvmlNextInv, PTL DEF NvmlSpec

(* There is one helper at most, however many processes the system would start and
   however long they hang: each start waits for the one before it to be reaped. *)
THEOREM OneHelperAlways == NvmlSpec => []OneHelper
<1>1. NvmlInv => OneHelper
  <2> SUFFICES ASSUME NvmlInv PROVE OneHelper
    OBVIOUS
  <2>1. {p \in Pids : Alive(p)} \subseteq {pid}
    BY DEF NvmlInv, OnlyPid
  <2>2. IsFiniteSet({pid}) /\ Cardinality({pid}) = 1
    BY FS_Singleton
  <2>3. Cardinality({p \in Pids : Alive(p)}) \in Nat /\ Cardinality({p \in Pids : Alive(p)}) <= 1
    BY <2>1, <2>2, FS_Subset, FS_CardinalityType
  <2>4. QED
    BY <2>3 DEF OneHelper
<1>2. QED
  BY <1>1, NvmlInitInv, NvmlNextInv, PTL DEF NvmlSpec

-----------------------------------------------------------------------------
(* TemperatureForwarding: the invariant, in parts. *)

(* The timestamp of a reading is the time at which it was measured. *)
TrueAges ==
  \A s \in Sources, p \in Gpus :
    readings[s][p] # None => readings[s][p].age = readings[s][p].measured

(* The worker is connected; the Nano has restarted since its last heartbeat. *)
Linked  == worker.pc \notin {"offline", "connecting"}
Younger == worker.uptime # None /\ nano.uptime < worker.uptime

(* How long the worker waits, and where it notices a restart. *)
Waits ==
  /\ worker.pc \in {"connecting", "looking"} => worker.waited = 0
  /\ worker.pc \in {"gate", "exchanging"} => worker.waited <= ExchangeTime
  /\ worker.pc = "rereading" => /\ worker.waited <= RereadTime
                                /\ worker.sentAge < KeepAlive => worker.waited <= worker.sentAge
  /\ worker.pc \in {"top", "settle", "asleep", "rereading"} => worker.previous # None
  /\ worker.pc = "asleep" => worker.deadline = 0 \/ worker.deadline + worker.sentAge <= KeepAlive
  /\ worker.reconcile => worker.pc \in {"settle", "top", "rereading"}
  /\ ~Linked => worker.uptime = None
  /\ worker.uptime # None => worker.previous # None
  /\ ~env.restarts => /\ nano.uptime = 0 /\ worker.uptime \in {0, None}
                      /\ worker.pc # "rereading" /\ ~worker.reconcile

(* The longest time since the last heartbeat. *)
SinceSent == IF worker.sentAge < KeepAlive THEN worker.sentAge ELSE MaxOf(KeepAlive, RereadTime)
SinceHeartbeat ==
  CASE worker.pc = "gate"       -> SinceSent + worker.waited
    [] worker.pc = "exchanging" -> SinceSent + ExchangeTime + worker.waited
    [] worker.pc = "rereading"  -> worker.waited
    [] OTHER                    -> IF worker.reconcile THEN 0 ELSE SinceSent

(* The Nano is not older than it was then, by more than this time; if it has restarted
   and nobody knows, it is younger by what it had run for. *)
Uptimes ==
  worker.uptime # None =>
    /\ nano.uptime <= worker.uptime + SinceHeartbeat
    /\ ~nano.reread /\ ~worker.reconcile => nano.uptime + MinUptime <= worker.uptime + SinceHeartbeat

Noticed ==
  worker.pc \in {"asleep", "top", "looking", "settle"} /\ nano.answered /\ ~worker.reconcile
    => nano.reread

(* A worker that nobody has woken has seen what is published, and wakes before any of
   it expires. *)
Seen ==
  ~worker.woken =>
    /\ worker.mapping = mapping
    /\ worker.pc \in {"gate", "exchanging", "settle"} => worker.seen = readings
    /\ worker.pc = "asleep" =>
         \A s \in Sources, g \in Groups : mapping[g] # None /\ Usable(readings[s][mapping[g]])
           => worker.deadline <= Fresh - readings[s][mapping[g]].age

(* What the Nano holds is what the last heartbeat was the answer to, or what is being
   answered, or nothing since it restarted. *)
Held ==
  /\ worker.pc # "exchanging" /\ worker.previous # None =>
       \A g \in Groups : nano.reading[g] # None => worker.previous[g] = nano.reading[g].temperature
  /\ worker.pc = "exchanging" /\ nano.answered =>
       \A g \in Groups : nano.reading[g] # None =>
         worker.packet[g] # None /\ worker.packet[g].temperature = nano.reading[g].temperature
  /\ Younger /\ ~(worker.pc = "exchanging" /\ nano.answered) => nano.reading = NoPacket

(* For how long something is wrong, at each point of a turn. *)
SomeWrong == \E g \in Groups : Wrong(g)
Rereading == IF env.restarts THEN RereadTime ELSE 0
TurnLate  == MaxOf(Changed, ExchangeTime) + ExchangeTime + Rereading

Lateness ==
  /\ late > 0 => Linked /\ SomeWrong
  /\ worker.pc \in {"top", "looking", "settle", "asleep"} =>
       late <= TurnLate /\ late <= ExchangeTime + Rereading + worker.sentAge
  /\ worker.pc \in {"top", "settle"} /\ worker.reconcile => late <= ExchangeTime
  /\ worker.pc = "asleep" /\ ~worker.woken /\ SomeWrong => late + worker.deadline <= TurnLate
  /\ worker.pc = "rereading" => /\ late <= ExchangeTime + worker.waited
                                /\ worker.mapping # mapping => late <= worker.waited
  /\ worker.pc = "looking" /\ worker.mapping # mapping => late <= Rereading
  /\ worker.pc = "gate" => /\ late <= TurnLate + worker.waited
                           /\ worker.mapping # mapping => late <= Rereading + worker.waited
  /\ worker.pc = "exchanging" =>
       /\ late <= TurnLate + ExchangeTime + worker.waited
       /\ nano.answered => late <= Rereading + ExchangeTime + worker.waited
       /\ nano.answered /\ Younger => late <= worker.waited

ForwardingInv == TypeOK /\ TrueAges /\ Waits /\ Seen /\ Held /\ Lateness

-----------------------------------------------------------------------------
(* Readings and what is chosen of them. *)

LEMMA OlderAge ==
  ASSUME NEW age \in Nat, NEW limit \in Nat
  PROVE  /\ Older(age, limit) \in Nat /\ Older(age, limit) >= age /\ Older(age, limit) <= age + 1
         /\ age <= limit => Older(age, limit) <= limit
         /\ age < limit => Older(age, limit) = age + 1
BY DEF Older

LEMMA OlderReadings ==
  ASSUME NEW r \in Readings \cup {None}
  PROVE  /\ OlderReading(r) \in Readings \cup {None}
         /\ OlderReading(r) = None <=> r = None
         /\ r # None =>
              /\ OlderReading(r).temperature = r.temperature
              /\ OlderReading(r).age = Older(r.age, Fresh)
              /\ OlderReading(r).measured = Older(r.measured, Fresh)
<1>1. CASE r = None
  BY <1>1 DEF OlderReading
<1>2. CASE r # None
  <2>1. r \in Readings /\ Fresh \in Nat
    BY <1>2, ForwardingAssumption
  <2>2. Older(r.age, Fresh) \in 0 .. Fresh /\ Older(r.measured, Fresh) \in 0 .. Fresh
    BY <2>1 DEF Readings, Older
  <2>3. OlderReading(r) = [r EXCEPT !.age = Older(@, Fresh), !.measured = Older(@, Fresh)]
    BY <1>2 DEF OlderReading
  <2>4. OlderReading(r) \in Readings
    BY <2>1, <2>2, <2>3 DEF Readings
  <2>5. OlderReading(r) # None
    BY <2>4, ForwardingAssumption
  <2>6. QED
    BY <1>2, <2>1, <2>3, <2>4, <2>5 DEF Readings
<1>3. QED
  BY <1>1, <1>2

LEMMA OlderBatches ==
  /\ \A b \in Batches : OlderBatch(b) \in Batches
       /\ \A p \in Gpus : OlderBatch(b)[p] = OlderReading(b[p])
  /\ \A b \in Packets : OlderBatch(b) \in Packets
       /\ \A g \in Groups : OlderBatch(b)[g] = OlderReading(b[g])
BY OlderReadings DEF OlderBatch, Batches, Packets

LEMMA EmptyTypes == NoBatch \in Batches /\ NoPacket \in Packets
BY DEF NoBatch, NoPacket, Batches, Packets

(* What is forwarded of a group is the reading of its GPU that one provider has. *)
LEMMA Mapping ==
  ASSUME NEW map \in Mappings, NEW batches \in [Sources -> Batches]
  PROVE  /\ MappedTemperatures(map, batches) \in Packets
         /\ \A g \in Groups : MappedTemperatures(map, batches)[g] # None =>
              /\ map[g] \in Gpus
              /\ Cardinality(FreshSources(map[g], batches)) = 1
              /\ \E s \in FreshSources(map[g], batches) :
                   /\ s \in Sources /\ batches[s][map[g]] \in Readings
                   /\ MappedTemperatures(map, batches)[g] = batches[s][map[g]]
<1> DEFINE chosen(g) == CHOOSE s \in FreshSources(map[g], batches) : TRUE
<1>1. ASSUME NEW g \in Groups, map[g] # None, Cardinality(FreshSources(map[g], batches)) = 1
      PROVE  /\ map[g] \in Gpus /\ chosen(g) \in FreshSources(map[g], batches)
             /\ chosen(g) \in Sources /\ batches[chosen(g)][map[g]] \in Readings
  <2>1. FreshSources(map[g], batches) # {}
    BY <1>1, FS_EmptySet
  <2>2. chosen(g) \in FreshSources(map[g], batches)
    BY <2>1
  <2>3. map[g] \in Gpus
    BY <1>1, ForwardingAssumption
  <2> HIDE DEF chosen
  <2>4. QED
    BY <2>2, <2>3 DEF FreshSources, Usable, Batches
<1> DEFINE f == MappedTemperatures(map, batches)
<1>2. f = [g \in Groups |->
             IF map[g] # None /\ Cardinality(FreshSources(map[g], batches)) = 1
               THEN batches[chosen(g)][map[g]] ELSE None]
  BY DEF MappedTemperatures
<1> HIDE DEF chosen, f
<1>3. f \in Packets
  BY <1>1, <1>2 DEF Packets
<1>4. ASSUME NEW g \in Groups, f[g] # None
      PROVE  /\ map[g] \in Gpus
             /\ Cardinality(FreshSources(map[g], batches)) = 1
             /\ \E s \in FreshSources(map[g], batches) :
                  s \in Sources /\ batches[s][map[g]] \in Readings /\ f[g] = batches[s][map[g]]
  <2>1. map[g] # None /\ Cardinality(FreshSources(map[g], batches)) = 1 /\ f[g] = batches[chosen(g)][map[g]]
    BY <1>2, <1>4
  <2>2. QED
    BY <1>1, <2>1
<1>5. QED
  BY <1>3, <1>4 DEF f

LEMMA PayloadType ==
  ASSUME NEW packet \in Packets
  PROVE  /\ Payload(packet) \in Payloads /\ Payload(packet) # None
         /\ \A g \in Groups : Payload(packet)[g] = IF packet[g] = None THEN None ELSE packet[g].temperature
<1>1. Payload(packet) \in Payloads
  BY DEF Payload, Packets, Payloads, Readings
<1>2. QED
  BY <1>1, ForwardingAssumption DEF Payload

(* The least of a set of numbers. *)
LEMMA LeastOf ==
  ASSUME NEW S \in SUBSET Nat, S # {}
  PROVE  MinOf(S) \in S /\ \A y \in S : MinOf(S) <= y
<1> DEFINE less == OpToRel(<, Nat)
<1>1. PICK x \in S : \A y \in S : ~(<<y, x>> \in less)
  <2>1. IsWellFoundedOn(less, Nat)
    BY NatLessThanWellFounded
  <2> HIDE DEF less
  <2>2. QED
    BY <2>1, WFMin
<1>2. \A y \in S : x <= y
  <2> SUFFICES ASSUME NEW y \in S, y < x PROVE FALSE
    OBVIOUS
  <2>1. <<y, x>> \in Nat \X Nat /\ <<y, x>>[1] < <<y, x>>[2]
    OBVIOUS
  <2>2. less = {ss \in Nat \X Nat : ss[1] < ss[2]}
    BY DEF OpToRel
  <2>3. QED
    BY <1>1, <2>1, <2>2
<1>3. QED
  BY <1>2 DEF MinOf

LEMMA DueType ==
  ASSUME NEW packet, NEW w, w.sentAge \in Nat
  PROVE  /\ NextDue(packet, w) \in Nat
         /\ NextDue(packet, w) = 0 \/ NextDue(packet, w) + w.sentAge <= KeepAlive
         /\ w.previous # None /\ Payload(packet) # w.previous => NextDue(packet, w) = Left(Changed, w.sentAge)
BY ForwardingAssumption DEF NextDue, Left

(* The worker sleeps till something is due, and till nothing that it has seen has
   expired. *)
LEMMA Deadlines ==
  ASSUME NEW map \in Mappings, NEW batches \in [Sources -> Batches], NEW w, w.sentAge \in Nat
  PROVE  /\ Deadline(map, batches, w) \in Nat
         /\ Deadline(map, batches, w) <= NextDue(MappedTemperatures(map, batches), w)
         /\ \A s \in Sources, g \in Groups : map[g] # None /\ Usable(batches[s][map[g]]) =>
              Deadline(map, batches, w) <= Fresh - batches[s][map[g]].age
<1> DEFINE due     == NextDue(MappedTemperatures(map, batches), w)
           usable  == {x \in Sources \X Groups : map[x[2]] # None /\ Usable(batches[x[1]][map[x[2]]])}
           left(x) == Fresh - batches[x[1]][map[x[2]]].age
           expiry  == {left(x) : x \in usable}
           times   == {due} \cup expiry
<1>1. due \in Nat
  BY DueType
<1>2. ASSUME NEW x \in usable PROVE left(x) \in Nat
  <2>1. x[1] \in Sources /\ x[2] \in Groups /\ map[x[2]] # None /\ Usable(batches[x[1]][map[x[2]]])
    OBVIOUS
  <2>2. map[x[2]] \in Gpus
    BY <2>1, ForwardingAssumption
  <2>3. batches[x[1]][map[x[2]]] \in Readings
    BY <2>1, <2>2 DEF Batches, Usable
  <2>4. QED
    BY <2>3, ForwardingAssumption DEF Readings
<1>3. times \in SUBSET Nat /\ times # {}
  BY <1>1, <1>2
<1>4. Deadline(map, batches, w) = MinOf(times)
  BY DEF Deadline
<1>5. Deadline(map, batches, w) \in times /\ \A y \in times : Deadline(map, batches, w) <= y
  <2> HIDE DEF times
  <2>1. QED
    BY <1>3, <1>4, LeastOf
<1>6. Deadline(map, batches, w) <= due
  BY <1>5
<1>7. ASSUME NEW s \in Sources, NEW g \in Groups, map[g] # None, Usable(batches[s][map[g]])
      PROVE  Deadline(map, batches, w) <= Fresh - batches[s][map[g]].age
  <2>1. <<s, g>> \in usable
    BY <1>7
  <2>2. left(<<s, g>>) \in times
    BY <2>1
  <2>3. left(<<s, g>>) = Fresh - batches[s][map[g]].age
    OBVIOUS
  <2>4. QED
    BY <1>5, <2>2, <2>3
<1>8. QED
  BY <1>3, <1>5, <1>6, <1>7

-----------------------------------------------------------------------------
(* What each step changes. *)

LEMMA SamplerSteps ==
  ASSUME TypeOK, NEW s \in Sources, Begin(s) \/ Retry(s) \/ Complete(s)
  PROVE  /\ UNCHANGED <<env, mapping, nano>>
         /\ sampler' \in [Sources -> Samplers] /\ readings' \in [Sources -> Batches]
         /\ worker' \in Workers
         /\ worker' = Woken(worker) \/ UNCHANGED <<readings, worker>>
         /\ TrueAges => TrueAges'
<1>1. Woken(worker) \in Workers /\ sampler[s] \in Samplers /\ readings[s] \in Batches
  BY DEF TypeOK, Woken, Workers
<1>2. CASE Begin(s)
  <2>1. Mapped(mapping) \in SUBSET Gpus
    BY ForwardingAssumption DEF TypeOK, Mapped
  <2>2. [pc |-> "querying", attempt |-> 1, addresses |-> Mapped(mapping), age |-> 0] \in Samplers
    BY <2>1, ForwardingAssumption DEF Samplers
  <2>3. TrueAges => TrueAges'
    BY <1>2 DEF Begin, TypeOK, TrueAges, NoBatch
  <2>4. QED
    BY <1>1, <1>2, <2>2, <2>3, EmptyTypes DEF Begin, TypeOK
<1>3. CASE Retry(s)
  <2>1. sampler' = [sampler EXCEPT ![s].pc = "querying", ![s].attempt = @ + 1, ![s].age = 0]
        /\ sampler[s].pc = "pausing" /\ UNCHANGED <<env, mapping, readings, worker, nano>>
    BY <1>3 DEF Retry
  <2>2. QED
    BY <1>1, <2>1, ForwardingAssumption DEF TypeOK, Samplers, TrueAges
<1>4. CASE Complete(s)
  <2>1. PICK got \in SUBSET sampler[s].addresses, error \in BOOLEAN : \E value \in [got -> Temperatures] :
          LET again == error /\ sampler[s].attempt < MaxAttempts
              age   == sampler[s].age
              next  == [p \in Gpus |-> IF p \in got
                          THEN [temperature |-> value[p], age |-> age, measured |-> age] ELSE None]
          IN  /\ readings' = [readings EXCEPT ![s] = Accepted(@, next, again, age)]
              /\ sampler' = IF again THEN [sampler EXCEPT ![s].pc = "pausing"]
                            ELSE [sampler EXCEPT ![s] = [pc |-> "idle", attempt |-> 0,
                                                         addresses |-> {}, age |-> 0]]
    BY <1>4 DEF Complete
  <2>2. PICK value \in [got -> Temperatures] :
          LET again == error /\ sampler[s].attempt < MaxAttempts
              age   == sampler[s].age
              next  == [p \in Gpus |-> IF p \in got
                          THEN [temperature |-> value[p], age |-> age, measured |-> age] ELSE None]
          IN  /\ readings' = [readings EXCEPT ![s] = Accepted(@, next, again, age)]
              /\ sampler' = IF again THEN [sampler EXCEPT ![s].pc = "pausing"]
                            ELSE [sampler EXCEPT ![s] = [pc |-> "idle", attempt |-> 0,
                                                         addresses |-> {}, age |-> 0]]
    BY <2>1
  <2> DEFINE again == error /\ sampler[s].attempt < MaxAttempts
             age   == sampler[s].age
             next  == [p \in Gpus |-> IF p \in got
                         THEN [temperature |-> value[p], age |-> age, measured |-> age] ELSE None]
  <2>3. next \in Batches
    BY <1>1 DEF Samplers, Batches, Readings
  <2>4. ASSUME NEW x \in Batches PROVE Accepted(x, next, again, age) \in Batches
    <3> HIDE DEF next
    <3>1. QED
      BY <2>3, <2>4 DEF Accepted, Batches
  <2>5. readings' \in [Sources -> Batches]
    BY <1>1, <2>2, <2>4 DEF TypeOK
  <2>6. sampler' \in [Sources -> Samplers]
    <3>1. [pc |-> "idle", attempt |-> 0, addresses |-> {}, age |-> 0] \in Samplers
      BY ForwardingAssumption DEF Samplers
    <3>2. [sampler[s] EXCEPT !.pc = "pausing"] \in Samplers
      BY <1>1 DEF Samplers
    <3>3. \E x \in Samplers : sampler' = [sampler EXCEPT ![s] = x]
      BY <2>2, <3>1, <3>2
    <3>4. QED
      BY <3>3 DEF TypeOK
  <2>7. TrueAges => TrueAges'
    <3> SUFFICES ASSUME TrueAges, NEW q \in Sources, NEW p \in Gpus, readings'[q][p] # None
                 PROVE  readings'[q][p].age = readings'[q][p].measured
      BY DEF TrueAges
    <3>1. CASE q # s
      BY <2>2, <3>1 DEF TypeOK, TrueAges
    <3>2. CASE q = s
      <4>1. readings'[q][p] \in {next[p], readings[q][p]}
        BY <2>2, <3>2 DEF TypeOK, Accepted
      <4>2. next[p] # None => next[p].age = next[p].measured
        OBVIOUS
      <4>3. QED
        BY <4>1, <4>2 DEF TrueAges
    <3>3. QED
      BY <3>1, <3>2
  <2>8. QED
    BY <1>1, <1>4, <2>5, <2>6, <2>7 DEF Complete
<1>5. QED
  BY <1>2, <1>3, <1>4

LEMMA OlderWorld ==
  ASSUME TypeOK
  PROVE  /\ [s \in Sources |-> OlderBatch(readings[s])] \in [Sources -> Batches]
         /\ [s \in Sources |-> OlderBatch(worker.seen[s])] \in [Sources -> Batches]
         /\ OlderBatch(worker.packet) \in Packets /\ OlderBatch(nano.reading) \in Packets
         /\ worker.sentAge \in Nat /\ worker.deadline \in Nat /\ worker.waited \in Nat
         /\ nano.uptime \in 0 .. MaxUptime /\ MaxUptime \in Nat
BY OlderBatches, ForwardingAssumption DEF TypeOK, Workers, Nanos, MaxUptime

LEMMA TickStep ==
  ASSUME TypeOK, Tick
  PROVE  /\ UNCHANGED <<env, mapping>> /\ sampler' \in [Sources -> Samplers]
         /\ readings' = [s \in Sources |-> OlderBatch(readings[s])]
         /\ worker' \in Workers /\ nano' \in Nanos
         /\ worker'.pc = worker.pc /\ worker'.mapping = worker.mapping
         /\ worker'.previous = worker.previous /\ worker'.woken = worker.woken
         /\ worker'.uptime = worker.uptime /\ worker'.reconcile = worker.reconcile
         /\ worker'.seen = [s \in Sources |-> OlderBatch(worker.seen[s])]
         /\ worker'.packet = OlderBatch(worker.packet)
         /\ worker'.sentAge = IF worker.previous = None THEN 0 ELSE Older(worker.sentAge, KeepAlive)
         /\ worker'.deadline = IF worker.deadline > 0 THEN worker.deadline - 1 ELSE 0
         /\ worker'.waited = IF worker.pc \in {"gate", "exchanging", "rereading"} THEN worker.waited + 1 ELSE 0
         /\ nano'.reading = OlderBatch(nano.reading) /\ nano'.reread = nano.reread
         /\ nano'.answered = nano.answered
         /\ nano'.uptime = IF env.restarts THEN Older(nano.uptime, MaxUptime) ELSE 0
         /\ worker.pc \notin {"top", "looking", "settle"}
         /\ worker.pc = "asleep" => ~worker.woken /\ worker.deadline > 0
         /\ worker.pc \in {"gate", "exchanging"} => worker.waited # ExchangeTime
         /\ worker.pc = "rereading" => worker.waited # RereadTime
<1> DEFINE seen     == [s \in Sources |-> OlderBatch(worker.seen[s])]
           packet   == OlderBatch(worker.packet)
           sentAge  == IF worker.previous = None THEN 0 ELSE Older(worker.sentAge, KeepAlive)
           deadline == IF worker.deadline > 0 THEN worker.deadline - 1 ELSE 0
           waited   == IF worker.pc \in {"gate", "exchanging", "rereading"} THEN worker.waited + 1 ELSE 0
           held     == OlderBatch(nano.reading)
           uptime   == IF env.restarts THEN Older(nano.uptime, MaxUptime) ELSE 0
<1>1. seen \in [Sources -> Batches] /\ packet \in Packets /\ held \in Packets
  BY OlderWorld
<1>2. sentAge \in Nat /\ deadline \in Nat /\ waited \in Nat
  BY OlderWorld, ForwardingAssumption DEF Older
<1>3. uptime \in 0 .. MaxUptime
  BY OlderWorld DEF Older
<1>4. /\ worker' = [worker EXCEPT !.seen = seen, !.packet = packet, !.sentAge = sentAge,
                                  !.deadline = deadline, !.waited = waited]
      /\ nano' = [nano EXCEPT !.reading = held, !.uptime = uptime]
      /\ UNCHANGED <<env, mapping>> /\ readings' = [s \in Sources |-> OlderBatch(readings[s])]
  BY DEF Tick, TypeOK, Workers, Nanos
<1>5. sampler' \in [Sources -> Samplers]
  <2>1. \A s \in Sources : [sampler[s] EXCEPT !.age = Older(@, Fresh)] \in Samplers
    <3> TAKE s \in Sources
    <3>1. sampler[s] \in Samplers /\ sampler[s].age \in 0 .. Fresh /\ Fresh \in Nat
      BY ForwardingAssumption DEF TypeOK, Samplers
    <3>2. Older(sampler[s].age, Fresh) \in 0 .. Fresh
      BY <3>1 DEF Older
    <3>3. QED
      BY <3>1, <3>2 DEF Samplers
  <2>2. QED
    BY <2>1 DEF Tick, TypeOK
<1> HIDE DEF seen, packet, sentAge, deadline, waited, held, uptime
<1>6. worker \in Workers /\ nano \in Nanos
  BY DEF TypeOK
<1>7. /\ worker' \in Workers
      /\ worker'.pc = worker.pc /\ worker'.mapping = worker.mapping
      /\ worker'.previous = worker.previous /\ worker'.woken = worker.woken
      /\ worker'.uptime = worker.uptime /\ worker'.reconcile = worker.reconcile
      /\ worker'.seen = seen /\ worker'.packet = packet /\ worker'.sentAge = sentAge
      /\ worker'.deadline = deadline /\ worker'.waited = waited
  BY <1>1, <1>2, <1>4, <1>6 DEF Workers
<1>8. /\ nano' \in Nanos /\ nano'.reading = held /\ nano'.reread = nano.reread
      /\ nano'.answered = nano.answered /\ nano'.uptime = uptime
  BY <1>1, <1>3, <1>4, <1>6 DEF Nanos
<1>9. /\ worker.pc \notin {"top", "looking", "settle"}
      /\ worker.pc = "asleep" => ~worker.woken /\ worker.deadline > 0
      /\ worker.pc \in {"gate", "exchanging"} => worker.waited # ExchangeTime
      /\ worker.pc = "rereading" => worker.waited # RereadTime
  BY OlderWorld DEF Tick, Urgent
<1>10. QED
  BY <1>4, <1>5, <1>7, <1>8, <1>9 DEF seen, packet, sentAge, deadline, waited, held, uptime

(* What is left alone by a step of the worker, and by one that the Nano takes no part in. *)
LEMMA TurnType ==
  ASSUME TypeOK
  PROVE  /\ Turn(worker) \in Workers
         /\ Turn(worker).pc = worker.pc /\ Turn(worker).mapping = mapping
         /\ Turn(worker).seen = worker.seen /\ Turn(worker).packet = worker.packet
         /\ Turn(worker).previous = worker.previous /\ Turn(worker).sentAge = worker.sentAge
         /\ Turn(worker).deadline = worker.deadline /\ Turn(worker).waited = 0
         /\ Turn(worker).woken = FALSE /\ Turn(worker).uptime = worker.uptime
         /\ Turn(worker).reconcile = worker.reconcile
BY DEF TypeOK, Workers, Turn

LEMMA LookedType ==
  ASSUME TypeOK, NEW w \in Workers
  PROVE  /\ Looked(w) \in Workers
         /\ Looked(w).pc = IF NextDue(MappedTemperatures(w.mapping, readings), w) = 0
                             THEN "gate" ELSE "settle"
         /\ Looked(w).mapping = w.mapping
         /\ Looked(w).seen = readings /\ Looked(w).packet = w.packet
         /\ Looked(w).previous = w.previous /\ Looked(w).sentAge = w.sentAge
         /\ Looked(w).deadline = w.deadline /\ Looked(w).waited = w.waited
         /\ Looked(w).woken = w.woken /\ Looked(w).uptime = w.uptime
         /\ Looked(w).reconcile = w.reconcile
<1> DEFINE turn == IF NextDue(MappedTemperatures(w.mapping, readings), w) = 0 THEN "gate" ELSE "settle"
<1>1. Looked(w) = [w EXCEPT !.seen = readings, !.pc = turn]
  BY DEF Looked
<1>2. turn \in {"gate", "settle"}
  OBVIOUS
<1> HIDE DEF turn
<1>3. readings \in [Sources -> Batches]
  BY DEF TypeOK
<1>4. QED
  BY <1>1, <1>2, <1>3 DEF Workers, turn

LEMMA TurnSteps ==
  ASSUME TypeOK, Connect \/ Reconcile \/ Top \/ Look
  PROVE  /\ UNCHANGED <<env, mapping, sampler, readings, nano>> /\ worker' \in Workers
         /\ worker'.previous = worker.previous /\ worker'.sentAge = worker.sentAge
         /\ worker'.deadline = worker.deadline /\ worker'.uptime = worker.uptime
         /\ worker'.reconcile = worker.reconcile /\ worker'.packet = worker.packet
         /\ Connect => worker.pc = "offline" /\ worker'.pc = "connecting"
         /\ Reconcile => worker.pc = "top" /\ worker.reconcile /\ worker'.pc = "rereading"
         /\ Top => worker.pc = "top" /\ ~worker.reconcile
         /\ Look => /\ worker.pc = "looking" /\ worker'.mapping = worker.mapping
                    /\ worker'.waited = worker.waited /\ worker'.woken = worker.woken
         /\ ~Look => worker'.mapping = mapping /\ worker'.waited = 0 /\ ~worker'.woken
         /\ Top \/ Look =>
              /\ worker'.seen = readings
              /\ worker'.pc = IF NextDue(MappedTemperatures(worker'.mapping, readings), worker') = 0
                                THEN "gate" ELSE "settle"
<1>1. CASE Connect
  BY <1>1, TurnType DEF Connect, Reconcile, Top, Look, Step, OnlyWorker, Workers
<1>2. CASE Reconcile
  BY <1>2, TurnType DEF Connect, Reconcile, Top, Look, Step, OnlyWorker, Workers
<1>3. CASE Top
  <2>1. /\ worker' = Looked(Turn(worker)) /\ worker.pc = "top" /\ ~worker.reconcile
        /\ UNCHANGED <<env, mapping, sampler, readings, nano>>
    BY <1>3 DEF Top, Step, OnlyWorker
  <2>2. ~Look /\ ~Reconcile /\ ~Connect
    BY <2>1 DEF Look, Reconcile, Connect, Step
  <2>3. NextDue(MappedTemperatures(mapping, readings), Turn(worker))
          = NextDue(MappedTemperatures(mapping, readings), worker')
    BY <2>1, TurnType, LookedType DEF NextDue
  <2>4. /\ worker' \in Workers /\ worker'.pc = IF NextDue(MappedTemperatures(worker'.mapping, readings), worker') = 0
                                              THEN "gate" ELSE "settle"
        /\ worker'.mapping = Turn(worker).mapping /\ worker'.seen = readings
        /\ worker'.packet = worker.packet /\ worker'.previous = worker.previous
        /\ worker'.sentAge = worker.sentAge /\ worker'.deadline = worker.deadline
        /\ worker'.waited = Turn(worker).waited /\ worker'.woken = Turn(worker).woken
        /\ worker'.uptime = worker.uptime /\ worker'.reconcile = worker.reconcile
    BY <2>1, <2>3, TurnType, LookedType
  <2>5. QED
    BY <2>4, <2>1, <2>2, <2>3, TurnType
<1>4. CASE Look
  <2>1. /\ worker' = Looked(worker) /\ worker.pc = "looking" /\ worker \in Workers
        /\ UNCHANGED <<env, mapping, sampler, readings, nano>>
    BY <1>4 DEF Look, Step, OnlyWorker, TypeOK
  <2>2. ~Top /\ ~Reconcile /\ ~Connect
    BY <2>1 DEF Top, Reconcile, Connect, Step
  <2>3. NextDue(MappedTemperatures(worker.mapping, readings), worker)
          = NextDue(MappedTemperatures(worker.mapping, readings), worker')
    BY <2>1, LookedType DEF NextDue
  <2>4. /\ worker' \in Workers /\ worker'.pc = IF NextDue(MappedTemperatures(worker'.mapping, readings), worker') = 0
                                              THEN "gate" ELSE "settle"
        /\ worker'.mapping = worker.mapping /\ worker'.seen = readings
        /\ worker'.packet = worker.packet /\ worker'.previous = worker.previous
        /\ worker'.sentAge = worker.sentAge /\ worker'.deadline = worker.deadline
        /\ worker'.waited = worker.waited /\ worker'.woken = worker.woken
        /\ worker'.uptime = worker.uptime /\ worker'.reconcile = worker.reconcile
    BY <2>1, <2>3, TurnType, LookedType
  <2>5. QED
    BY <1>4, <2>1, <2>2, <2>4
<1>5. QED
  BY <1>1, <1>2, <1>3, <1>4

LEMMA ConnectedStep ==
  ASSUME TypeOK, Connected
  PROVE  /\ UNCHANGED <<env, mapping, sampler, readings>> /\ worker' \in Workers /\ nano' \in Nanos
         /\ worker.pc = "connecting" /\ worker'.pc = "looking" /\ worker'.previous = None
         /\ worker'.uptime = None /\ worker'.mapping = worker.mapping /\ worker'.woken = worker.woken
         /\ worker'.sentAge = worker.sentAge /\ worker'.waited = worker.waited
         /\ worker'.reconcile = worker.reconcile
         /\ nano'.reading = nano.reading /\ nano'.uptime = nano.uptime /\ nano'.reread /\ ~nano'.answered
BY DEF Connected, Step, TypeOK, Workers, Nanos

LEMMA RereadStep ==
  ASSUME TypeOK, Reread
  PROVE  /\ UNCHANGED <<env, mapping, sampler, readings>> /\ worker' \in Workers /\ nano' \in Nanos
         /\ worker.pc = "rereading" /\ worker'.pc = "looking" /\ ~worker'.reconcile
         /\ worker'.waited = 0 /\ worker'.previous = worker.previous
         /\ worker'.uptime = worker.uptime /\ worker'.mapping = worker.mapping
         /\ worker'.woken = worker.woken /\ worker'.sentAge = worker.sentAge
         /\ nano'.reading = nano.reading /\ nano'.uptime = nano.uptime /\ nano'.reread
         /\ nano'.answered = nano.answered
BY DEF Reread, Step, TypeOK, Workers, Nanos

LEMMA SendStep ==
  ASSUME TypeOK, Send
  PROVE  /\ UNCHANGED <<env, mapping, sampler, readings>> /\ worker' \in Workers /\ nano' \in Nanos
         /\ worker.pc = "gate" /\ worker'.pc = "exchanging" /\ worker'.seen = readings
         /\ worker'.packet = Chosen /\ worker'.waited = 0
         /\ worker'.previous = worker.previous /\ worker'.sentAge = worker.sentAge
         /\ worker'.uptime = worker.uptime /\ worker'.mapping = worker.mapping
         /\ worker'.woken = worker.woken /\ worker'.reconcile = worker.reconcile
         /\ nano'.uptime = nano.uptime /\ nano'.reread = nano.reread
         /\ \/ nano'.answered /\ nano'.reading = Chosen
            \/ ~nano'.answered /\ nano'.reading = nano.reading
<1>1. worker \in Workers /\ nano \in Nanos /\ readings \in [Sources -> Batches]
  BY DEF TypeOK
<1>2. worker.mapping \in Mappings
  BY <1>1 DEF Workers
<1>3. Chosen \in Packets
  BY <1>1, <1>2, Mapping DEF Chosen
<1> HIDE DEF Chosen
<1>4. /\ worker.pc = "gate"
      /\ worker' = [worker EXCEPT !.pc = "exchanging", !.seen = readings, !.packet = Chosen, !.waited = 0]
      /\ UNCHANGED <<env, mapping, sampler, readings>>
      /\ \/ nano' = [nano EXCEPT !.reading = Chosen, !.answered = TRUE]
         \/ nano' = [nano EXCEPT !.answered = FALSE]
  BY DEF Send, Step
<1>5. worker' \in Workers /\ nano' \in Nanos
  BY <1>1, <1>3, <1>4 DEF Workers, Nanos
<1>6. /\ worker'.pc = "exchanging" /\ worker'.seen = readings
      /\ worker'.packet = Chosen /\ worker'.waited = 0
      /\ worker'.previous = worker.previous /\ worker'.sentAge = worker.sentAge
      /\ worker'.uptime = worker.uptime /\ worker'.mapping = worker.mapping
      /\ worker'.woken = worker.woken /\ worker'.reconcile = worker.reconcile
  BY <1>1, <1>4 DEF Workers
<1>7. /\ nano'.uptime = nano.uptime /\ nano'.reread = nano.reread
      /\ \/ nano'.answered /\ nano'.reading = Chosen
         \/ ~nano'.answered /\ nano'.reading = nano.reading
  BY <1>1, <1>4 DEF Nanos
<1>8. QED
  BY <1>4, <1>5, <1>6, <1>7

LEMMA HeartbeatStep ==
  ASSUME TypeOK, Heartbeat
  PROVE  /\ UNCHANGED <<env, mapping, sampler, readings>> /\ worker' \in Workers /\ nano' \in Nanos
         /\ worker.pc = "exchanging" /\ nano.answered /\ worker'.pc = "settle"
         /\ worker'.previous = Payload(worker.packet)
         /\ worker'.sentAge = worker.waited /\ worker'.waited = 0
         /\ worker'.uptime = nano.uptime /\ worker'.reconcile = Younger
         /\ worker'.mapping = worker.mapping /\ worker'.woken = worker.woken
         /\ worker'.seen = worker.seen
         /\ nano'.reading = nano.reading /\ nano'.uptime = nano.uptime /\ nano'.answered
         /\ nano'.reread = (nano.reread \/ worker.uptime = None)
<1>1. worker \in Workers /\ nano \in Nanos /\ worker.packet \in Packets /\ worker.waited \in Nat
  BY DEF TypeOK, Workers
<1>2. Payload(worker.packet) \in Payloads
  BY <1>1, PayloadType
<1>3. /\ worker' = [worker EXCEPT !.reconcile = Younger, !.uptime = nano.uptime, !.pc = "settle",
                      !.previous = Payload(worker.packet), !.packet = NoPacket,
                      !.sentAge = worker.waited, !.waited = 0]
      /\ worker.pc = "exchanging" /\ nano.answered /\ UNCHANGED <<env, mapping, sampler, readings>>
      /\ nano' = [nano EXCEPT !.reread = @ \/ worker.uptime = None]
  BY <1>1 DEF Heartbeat, Step, Restarted, Younger, Workers
<1>4. Younger \in BOOLEAN /\ (nano.reread \/ worker.uptime = None) \in BOOLEAN /\ nano.uptime \in 0 .. MaxUptime
  BY <1>1 DEF Younger, Nanos
<1> DEFINE payload == Payload(worker.packet)  younger == Younger
<1> HIDE DEF payload, younger
<1>5. worker' = [worker EXCEPT !.reconcile = younger, !.uptime = nano.uptime, !.pc = "settle",
                      !.previous = payload, !.packet = NoPacket,
                      !.sentAge = worker.waited, !.waited = 0]
  BY <1>3 DEF payload, younger
<1>6. payload \in Payloads /\ younger \in BOOLEAN
  BY <1>2, <1>4 DEF payload, younger
<1>7. /\ worker' \in Workers /\ worker'.pc = "settle" /\ worker'.previous = payload
      /\ worker'.sentAge = worker.waited /\ worker'.waited = 0
      /\ worker'.uptime = nano.uptime /\ worker'.reconcile = younger
      /\ worker'.mapping = worker.mapping /\ worker'.woken = worker.woken
      /\ worker'.seen = worker.seen
  BY <1>1, <1>4, <1>5, <1>6, EmptyTypes DEF Workers
<1>8. /\ nano' \in Nanos /\ nano'.reading = nano.reading /\ nano'.uptime = nano.uptime /\ nano'.answered
      /\ nano'.reread = (nano.reread \/ worker.uptime = None)
  BY <1>1, <1>3, <1>4 DEF Nanos
<1>9. QED
  BY <1>3, <1>7, <1>8 DEF payload, younger

LEMMA FailStep ==
  ASSUME TypeOK, Fail
  PROVE  /\ UNCHANGED <<env, mapping, sampler, readings, nano>> /\ worker' \in Workers
         /\ worker'.pc = "offline" /\ ~worker'.reconcile /\ worker'.previous = None
         /\ worker'.uptime = None /\ worker'.mapping = worker.mapping /\ worker'.woken = worker.woken
BY EmptyTypes DEF Fail, TypeOK, Workers

LEMMA SleepStep ==
  ASSUME TypeOK, Sleep
  PROVE  /\ UNCHANGED <<env, mapping, sampler, readings, nano>> /\ worker' \in Workers
         /\ worker.pc = "settle"
         /\ worker.reconcile => worker' = [worker EXCEPT !.pc = "top"]
         /\ ~worker.reconcile =>
              worker'.pc = "asleep" /\ worker'.deadline = Deadline(worker.mapping, worker.seen, worker)
         /\ worker.reconcile => worker'.pc = "top"
         /\ worker'.previous = worker.previous /\ worker'.sentAge = worker.sentAge
         /\ worker'.uptime = worker.uptime /\ worker'.mapping = worker.mapping
         /\ worker'.woken = worker.woken /\ worker'.reconcile = worker.reconcile
<1>1. worker \in Workers /\ worker.mapping \in Mappings /\ worker.seen \in [Sources -> Batches]
      /\ worker.sentAge \in Nat
  BY DEF TypeOK, Workers
<1>2. Deadline(worker.mapping, worker.seen, worker) \in Nat
  BY <1>1, Deadlines
<1> DEFINE deadline == Deadline(worker.mapping, worker.seen, worker)
<1>3. /\ worker.pc = "settle" /\ UNCHANGED <<env, mapping, sampler, readings, nano>>
      /\ worker' = IF worker.reconcile THEN [worker EXCEPT !.pc = "top"]
                   ELSE [worker EXCEPT !.pc = "asleep", !.seen = [s \in Sources |-> NoBatch],
                                       !.deadline = deadline]
  BY DEF Sleep, Step, OnlyWorker
<1> HIDE DEF deadline
<1>4. deadline \in Nat
  BY <1>2 DEF deadline
<1>5. QED
  BY <1>1, <1>3, <1>4, EmptyTypes DEF Workers, deadline

LEMMA WakeStep ==
  ASSUME TypeOK, Wake
  PROVE  /\ UNCHANGED <<env, mapping, sampler, readings, nano>> /\ worker' \in Workers
         /\ worker.pc = "asleep" /\ worker'.pc = "top"
         /\ worker'.previous = worker.previous /\ worker'.sentAge = worker.sentAge
         /\ worker'.uptime = worker.uptime /\ worker'.mapping = worker.mapping
         /\ worker'.woken = worker.woken /\ worker'.reconcile = worker.reconcile
BY DEF Wake, Step, OnlyWorker, TypeOK, Workers

LEMMA RestartStep ==
  ASSUME TypeOK, Restart
  PROVE  /\ UNCHANGED <<env, mapping, sampler, readings, worker>> /\ nano' \in Nanos
         /\ env.restarts /\ nano.uptime >= MinUptime
         /\ nano'.reading = NoPacket /\ nano'.uptime = 0 /\ ~nano'.reread /\ ~nano'.answered
BY EmptyTypes, ForwardingAssumption DEF Restart, TypeOK, Nanos, MaxUptime

LEMMA WokenType ==
  ASSUME TypeOK
  PROVE  /\ Woken(worker) \in Workers /\ Woken(worker).woken
         /\ Woken(worker).pc = worker.pc /\ Woken(worker).mapping = worker.mapping
         /\ Woken(worker).seen = worker.seen /\ Woken(worker).packet = worker.packet
         /\ Woken(worker).previous = worker.previous /\ Woken(worker).sentAge = worker.sentAge
         /\ Woken(worker).deadline = worker.deadline /\ Woken(worker).waited = worker.waited
         /\ Woken(worker).uptime = worker.uptime /\ Woken(worker).reconcile = worker.reconcile
BY DEF TypeOK, Workers, Woken

LEMMA Numbers ==
  ASSUME TypeOK
  PROVE  /\ worker.sentAge \in Nat /\ worker.deadline \in Nat /\ worker.waited \in Nat
         /\ worker.uptime \in Nat \cup {None} /\ nano.uptime \in Nat /\ late \in Nat
         /\ worker.pc \in {"offline", "connecting", "top", "rereading", "looking", "gate",
                           "exchanging", "settle", "asleep"}
         /\ worker.woken \in BOOLEAN /\ worker.reconcile \in BOOLEAN
         /\ nano.answered \in BOOLEAN /\ nano.reread \in BOOLEAN
         /\ worker.mapping \in Mappings /\ mapping \in Mappings
         /\ worker.packet \in Packets /\ nano.reading \in Packets /\ readings \in [Sources -> Batches]
         /\ env.restarts \in BOOLEAN
BY DEF TypeOK, Workers, Nanos, MaxUptime

LEMMA Limits ==
  /\ Fresh \in Nat /\ Fresh > 0 /\ Changed \in Nat /\ Changed > 0 /\ KeepAlive \in Nat
  /\ Changed <= KeepAlive
  /\ ExchangeTime \in Nat /\ RereadTime \in Nat /\ MinUptime \in Nat /\ None \notin Nat
BY ForwardingAssumption

(* The seconds are counted while something is wrong on a Nano that is connected. *)
LEMMA Counting ==
  ASSUME TypeOK, NEW n \in {0, 1}, Counted(n)
  PROVE  /\ late' \in Nat /\ late' <= late + n
         /\ late' > 0 => mapping' = mapping /\ Linked' /\ SomeWrong'
         /\ n = 1 /\ Linked' /\ mapping' = mapping /\ SomeWrong' => late' > 0
<1>1. late \in Nat /\ MaxLate \in Nat
  BY Limits, Numbers DEF MaxLate, MaxOf
<1>2. late' = IF worker'.pc \in {"offline", "connecting"} \/ mapping' # mapping \/ \A g \in Groups : ~Wrong(g)'
                THEN 0 ELSE IF late + n > MaxLate THEN MaxLate + 1 ELSE late + n
  BY DEF Counted
<1>3. QED
  BY <1>1, <1>2 DEF Linked, SomeWrong

(* A step, of which the history is a part. *)
LEMMA Steps ==
  ASSUME [Next]_vars
  PROVE  \/ Tick /\ Counted(1)
         \/ /\ Counted(0)
            /\ \/ \E s \in Sources : Begin(s) \/ Retry(s) \/ Complete(s)
               \/ \E map \in Mappings : Configure(map)
               \/ Connect \/ Reconcile \/ Top \/ Look \/ Connected \/ Reread \/ Send
               \/ Heartbeat \/ Fail \/ Sleep \/ Wake \/ Restart
         \/ UNCHANGED vars
BY DEF Next, WorkerStep

LEMMA ConfigureStep ==
  ASSUME TypeOK, NEW map \in Mappings, Configure(map)
  PROVE  /\ UNCHANGED <<env, sampler, readings, nano>> /\ mapping' \in Mappings /\ mapping' # mapping
         /\ worker' = Woken(worker)
BY DEF Configure

LEMMA TypeKept ==
  ASSUME TypeOK, [Next]_vars
  PROVE  TypeOK'
<1>1. late' \in Nat
  <2>1. CASE UNCHANGED vars
    BY <2>1 DEF vars, TypeOK
  <2>2. CASE Counted(0) \/ Counted(1)
    BY <2>2, Counting
  <2>3. QED
    BY <2>1, <2>2, Steps
<1> USE <1>1
<1>2. CASE Tick
  <2>1. readings' \in [Sources -> Batches]
    BY <1>2, TickStep, OlderWorld
  <2>2. QED
    BY <1>2, <2>1, TickStep DEF TypeOK
<1>3. CASE \E s \in Sources : Begin(s) \/ Retry(s) \/ Complete(s)
  BY <1>3, SamplerSteps DEF TypeOK
<1>4. CASE \E map \in Mappings : Configure(map)
  BY <1>4, ConfigureStep, WokenType DEF TypeOK
<1>5. CASE Connect \/ Reconcile \/ Top \/ Look
  BY <1>5, TurnSteps DEF TypeOK
<1>6. CASE Connected
  BY <1>6, ConnectedStep DEF TypeOK
<1>7. CASE Reread
  BY <1>7, RereadStep DEF TypeOK
<1>8. CASE Send
  BY <1>8, SendStep DEF TypeOK
<1>9. CASE Heartbeat
  BY <1>9, HeartbeatStep DEF TypeOK
<1>10. CASE Fail
  BY <1>10, FailStep DEF TypeOK
<1>11. CASE Sleep
  BY <1>11, SleepStep DEF TypeOK
<1>12. CASE Wake
  BY <1>12, WakeStep DEF TypeOK
<1>13. CASE Restart
  BY <1>13, RestartStep DEF TypeOK
<1>14. CASE UNCHANGED vars
  BY <1>14 DEF vars, TypeOK
<1>15. QED
  BY <1>2, <1>3, <1>4, <1>5, <1>6, <1>7, <1>8, <1>9, <1>10, <1>11, <1>12, <1>13, <1>14, Steps

LEMMA TrueAgesKept ==
  ASSUME TypeOK, TrueAges, [Next]_vars
  PROVE  TrueAges'
<1>1. CASE Tick
  <2> SUFFICES ASSUME NEW s \in Sources, NEW p \in Gpus, readings'[s][p] # None
               PROVE  readings'[s][p].age = readings'[s][p].measured
    BY DEF TrueAges
  <2>1. readings[s] \in Batches /\ readings[s][p] \in Readings \cup {None}
    BY DEF TypeOK, Batches
  <2>2. readings'[s][p] = OlderReading(readings[s][p])
    BY <1>1, <2>1, TickStep, OlderBatches
  <2>3. QED
    BY <2>1, <2>2, OlderReadings DEF TrueAges
<1>2. CASE \E s \in Sources : Begin(s) \/ Retry(s) \/ Complete(s)
  BY <1>2, SamplerSteps
<1>3. CASE UNCHANGED readings
  BY <1>3 DEF TrueAges
<1>4. QED
  BY <1>1, <1>2, <1>3, Steps, ConfigureStep, TurnSteps, ConnectedStep, RereadStep, SendStep,
     HeartbeatStep, FailStep, SleepStep, WakeStep, RestartStep DEF vars

(* A worker that is woken, and one that nothing happens to. *)
LEMMA WaitsKept ==
  ASSUME TypeOK, Waits, [Next]_vars
  PROVE  Waits'
<1> USE Numbers, Limits
<1>1. CASE Tick
  <2>1. /\ worker'.pc = worker.pc /\ worker'.previous = worker.previous
        /\ worker'.uptime = worker.uptime /\ worker'.reconcile = worker.reconcile
        /\ UNCHANGED env
        /\ worker'.deadline = IF worker.deadline > 0 THEN worker.deadline - 1 ELSE 0
        /\ worker'.sentAge = IF worker.previous = None THEN 0 ELSE Older(worker.sentAge, KeepAlive)
        /\ worker'.waited = IF worker.pc \in {"gate", "exchanging", "rereading"} THEN worker.waited + 1 ELSE 0
        /\ worker.pc \in {"gate", "exchanging"} => worker.waited # ExchangeTime
        /\ worker.pc = "rereading" => worker.waited # RereadTime
        /\ ~env.restarts => nano'.uptime = 0
    BY <1>1, TickStep
  <2>2. QED
    BY <2>1 DEF Waits, Linked, Older
<1>2. CASE \E s \in Sources : Begin(s) \/ Retry(s) \/ Complete(s)
  <2>1. UNCHANGED <<env, nano>> /\ (worker' = Woken(worker) \/ UNCHANGED worker)
    BY <1>2, SamplerSteps
  <2>2. QED
    BY <2>1, WokenType DEF Waits, Linked
<1>3. CASE \E map \in Mappings : Configure(map)
  <2>1. UNCHANGED <<env, nano>> /\ worker' = Woken(worker)
    BY <1>3, ConfigureStep
  <2>2. QED
    BY <2>1, WokenType DEF Waits, Linked
<1>4. CASE Connect \/ Reconcile \/ Top \/ Look
  <2>1. ~Look => worker'.waited = 0
    BY <1>4, TurnSteps
  <2>2. CASE Connect
    BY <2>2, TurnSteps DEF Waits, Linked
  <2>3. CASE Reconcile
    BY <2>1, <2>3, TurnSteps DEF Waits, Linked
  <2>4. CASE Top \/ Look
    <3>1. worker'.pc = "gate" \/ (worker'.previous # None /\ worker'.pc = "settle")
      BY <2>4, TurnSteps DEF NextDue
    <3>2. worker'.waited = 0 /\ ~worker.reconcile /\ worker.pc \in {"top", "looking"}
      BY <2>1, <2>4, TurnSteps DEF Waits
    <3>3. QED
      BY <2>4, <3>1, <3>2, TurnSteps DEF Waits, Linked
  <2>5. QED
    BY <1>4, <2>2, <2>3, <2>4
<1>5. CASE Connected
  BY <1>5, ConnectedStep DEF Waits, Linked
<1>6. CASE Reread
  BY <1>6, RereadStep DEF Waits, Linked
<1>7. CASE Send
  BY <1>7, SendStep DEF Waits, Linked
<1>8. CASE Heartbeat
  BY <1>8, HeartbeatStep, PayloadType DEF Waits, Linked, Younger
<1>9. CASE Fail
  BY <1>9, FailStep DEF Waits, Linked
<1>10. CASE Sleep
  <2>1. worker.seen \in [Sources -> Batches]
    BY DEF TypeOK, Workers
  <2>2. LET d == Deadline(worker.mapping, worker.seen, worker)
        IN  d \in Nat /\ (d = 0 \/ d + worker.sentAge <= KeepAlive)
    BY <2>1, Deadlines, DueType
  <2>3. QED
    BY <1>10, <2>2, SleepStep DEF Waits, Linked
<1>11. CASE Wake
  BY <1>11, WakeStep DEF Waits, Linked
<1>12. CASE Restart
  BY <1>12, RestartStep DEF Waits, Linked
<1>13. CASE UNCHANGED vars
  BY <1>13 DEF vars, Waits, Linked
<1>14. QED
  BY <1>1, <1>2, <1>3, <1>4, <1>5, <1>6, <1>7, <1>8, <1>9, <1>10, <1>11, <1>12, <1>13, Steps

(* A Nano that has restarted since the last heartbeat has a lower uptime. *)
LEMMA Forgotten ==
  ASSUME LongUptime, TypeOK, Waits, Uptimes, worker.pc = "exchanging",
         ~nano.reread, worker.uptime # None
  PROVE  Younger
<1> USE Numbers, Limits
<1>1. SinceHeartbeat = SinceSent + ExchangeTime + worker.waited /\ ~worker.reconcile
  BY DEF SinceHeartbeat, Waits
<1>2. worker.waited <= ExchangeTime
  BY DEF Waits
<1>3. SinceSent \in Nat /\ SinceSent <= MaxOf(KeepAlive, RereadTime) /\ MaxOf(KeepAlive, RereadTime) \in Nat
  BY DEF SinceSent, MaxOf
<1>4. nano.uptime + MinUptime <= worker.uptime + SinceHeartbeat
  BY <1>1 DEF Uptimes
<1>5. QED
  BY <1>1, <1>2, <1>3, <1>4 DEF LongUptime, Younger

(* What the Nano is known to have run for. *)
LEMMA UptimesKept ==
  ASSUME LongUptime, TypeOK, Waits, Uptimes, [Next]_vars
  PROVE  Uptimes'
<1> USE Numbers, Limits
<1> DEFINE since == SinceHeartbeat
<1>1. SinceSent \in Nat /\ since \in Nat
  BY DEF SinceSent, SinceHeartbeat, MaxOf
<1>2. CASE Tick
  <2>1. /\ worker'.pc = worker.pc /\ worker'.previous = worker.previous
        /\ worker'.uptime = worker.uptime /\ worker'.reconcile = worker.reconcile
        /\ worker'.sentAge = IF worker.previous = None THEN 0 ELSE Older(worker.sentAge, KeepAlive)
        /\ worker'.waited = IF worker.pc \in {"gate", "exchanging", "rereading"} THEN worker.waited + 1 ELSE 0
        /\ worker.pc \notin {"top", "looking", "settle"}
        /\ worker.pc = "asleep" => worker.deadline > 0
        /\ nano'.reread = nano.reread
    BY <1>2, TickStep
  <2>2. nano'.uptime \in Nat /\ nano'.uptime <= nano.uptime + 1
    BY <1>2, TickStep DEF Older
  <2>3. CASE worker.previous # None /\ worker.uptime # None
    <3>1. SinceSent' \in Nat /\ SinceSent' >= SinceSent
          /\ (worker.sentAge < KeepAlive => SinceSent' >= SinceSent + 1)
      BY <2>1, <2>3 DEF SinceSent, MaxOf, Older
    <3>2. worker.pc \in {"rereading", "gate", "exchanging", "asleep"}
      BY <2>1, <2>3 DEF Waits, Linked
    <3>3. SinceHeartbeat' >= since + 1 /\ SinceHeartbeat' \in Nat
      <4>1. CASE worker.pc = "rereading"
        BY <2>1, <4>1 DEF SinceHeartbeat
      <4>2. CASE worker.pc = "gate"
        BY <1>1, <2>1, <3>1, <4>2 DEF SinceHeartbeat
      <4>3. CASE worker.pc = "exchanging"
        BY <1>1, <2>1, <3>1, <4>3 DEF SinceHeartbeat
      <4>4. CASE worker.pc = "asleep"
        <5>1. ~worker.reconcile /\ worker.sentAge < KeepAlive
          BY <2>1, <4>4 DEF Waits
        <5>2. QED
          BY <1>1, <2>1, <3>1, <4>4, <5>1 DEF SinceHeartbeat
      <4>5. QED
        BY <3>2, <4>1, <4>2, <4>3, <4>4
    <3>4. worker.uptime \in Nat /\ nano.uptime \in Nat /\ SinceHeartbeat \in Nat
      BY <1>1, <2>3
    <3> HIDE DEF since
    <3>5. QED
      BY <2>1, <2>2, <3>3, <3>4 DEF Uptimes, since
  <2>4. CASE worker.uptime = None
    BY <2>1, <2>4 DEF Uptimes
  <2>5. QED
    BY <2>3, <2>4 DEF Waits
<1>3. CASE \E s \in Sources : Begin(s) \/ Retry(s) \/ Complete(s)
  BY <1>3, SamplerSteps, WokenType DEF Uptimes, SinceHeartbeat, SinceSent
<1>4. CASE \E map \in Mappings : Configure(map)
  BY <1>4, ConfigureStep, WokenType DEF Uptimes, SinceHeartbeat, SinceSent
<1>5. CASE Connect \/ Connected \/ Fail
  BY <1>5, TurnSteps, ConnectedStep, FailStep DEF Uptimes, Waits, Linked, Connect, Step
<1>6. CASE Reconcile
  BY <1>6, TurnSteps DEF Uptimes, SinceHeartbeat
<1>7. CASE Top \/ Look
  <2>1. /\ UNCHANGED nano /\ worker'.uptime = worker.uptime /\ worker'.sentAge = worker.sentAge
        /\ worker.pc \in {"top", "looking"} /\ worker'.pc \in {"gate", "settle"}
        /\ ~worker.reconcile /\ ~worker'.reconcile /\ worker'.waited = 0
    BY <1>7, TurnSteps DEF Waits, Top, Look, Step
  <2>2. SinceHeartbeat' = since /\ SinceHeartbeat' \in Nat
    BY <1>1, <2>1 DEF SinceHeartbeat, SinceSent
  <2>3. QED
    BY <2>1, <2>2 DEF Uptimes
<1>8. CASE Reread
  <2>1. /\ worker.pc = "rereading" /\ worker'.pc = "looking" /\ nano'.uptime = nano.uptime
        /\ worker'.uptime = worker.uptime /\ worker'.sentAge = worker.sentAge
        /\ nano'.reread /\ ~worker'.reconcile
    BY <1>8, RereadStep
  <2>2. SinceHeartbeat' \in Nat /\ SinceHeartbeat' >= since
    BY <1>1, <2>1 DEF SinceHeartbeat, SinceSent, Waits, MaxOf
  <2>3. QED
    BY <1>1, <2>1, <2>2 DEF Uptimes
<1>9. CASE Send
  <2>1. /\ worker.pc = "gate" /\ worker'.pc = "exchanging" /\ nano'.uptime = nano.uptime
        /\ nano'.reread = nano.reread /\ worker'.uptime = worker.uptime
        /\ worker'.sentAge = worker.sentAge /\ worker'.waited = 0 /\ worker'.reconcile = worker.reconcile
    BY <1>9, SendStep
  <2>2. SinceHeartbeat' \in Nat /\ SinceHeartbeat' >= since
    BY <1>1, <2>1 DEF SinceHeartbeat, SinceSent, Waits
  <2>3. QED
    BY <1>1, <2>1, <2>2 DEF Uptimes
<1>10. CASE Heartbeat
  <2>1. /\ worker.pc = "exchanging" /\ worker'.pc = "settle" /\ worker'.uptime = nano.uptime
        /\ worker'.reconcile = Younger /\ nano'.uptime = nano.uptime
        /\ worker'.sentAge = worker.waited
        /\ nano'.reread = (nano.reread \/ worker.uptime = None)
    BY <1>10, HeartbeatStep
  <2>2. SinceHeartbeat' \in Nat
    BY <2>1 DEF SinceHeartbeat, SinceSent, MaxOf
  <2>3. ~nano'.reread => worker'.reconcile
    BY <2>1, Forgotten
  <2>4. QED
    BY <2>1, <2>2, <2>3 DEF Uptimes
<1>11. CASE Sleep \/ Wake
  <2>1. /\ UNCHANGED nano /\ worker'.uptime = worker.uptime /\ worker'.sentAge = worker.sentAge
        /\ worker.pc \in {"settle", "asleep"} /\ worker'.pc \in {"top", "asleep"}
        /\ worker'.reconcile = worker.reconcile
    BY <1>11, SleepStep, WakeStep
  <2>2. SinceHeartbeat' = since /\ SinceHeartbeat' \in Nat
    BY <1>1, <2>1 DEF SinceHeartbeat, SinceSent
  <2>3. QED
    BY <2>1, <2>2 DEF Uptimes
<1>12. CASE Restart
  <2>1. /\ UNCHANGED worker /\ nano'.uptime = 0 /\ nano.uptime >= MinUptime
    BY <1>12, RestartStep
  <2>2. SinceHeartbeat' = since
    BY <2>1 DEF SinceHeartbeat, SinceSent
  <2>3. QED
    BY <1>1, <2>1, <2>2 DEF Uptimes
<1>13. CASE UNCHANGED vars
  BY <1>13 DEF vars, Uptimes, SinceHeartbeat, SinceSent
<1>14. QED
  BY <1>2, <1>3, <1>4, <1>5, <1>6, <1>7, <1>8, <1>9, <1>10, <1>11, <1>12, <1>13, Steps

(* A worker that sleeps has read the state of a Nano whose heartbeats it has. *)
LEMMA NoticedKept ==
  ASSUME LongUptime, TypeOK, Waits, Uptimes, Noticed, [Next]_vars
  PROVE  Noticed'
<1> USE Numbers
<1>1. CASE Tick
  BY <1>1, TickStep DEF Noticed
<1>2. CASE \E s \in Sources : Begin(s) \/ Retry(s) \/ Complete(s)
  BY <1>2, SamplerSteps, WokenType DEF Noticed
<1>3. CASE \E map \in Mappings : Configure(map)
  BY <1>3, ConfigureStep, WokenType DEF Noticed
<1>4. CASE Connect \/ Reconcile
  BY <1>4, TurnSteps DEF Noticed
<1>5. CASE Top \/ Look
  <2>1. UNCHANGED nano /\ worker'.reconcile = worker.reconcile /\ worker.pc \in {"top", "looking"}
    BY <1>5, TurnSteps
  <2>2. QED
    BY <2>1 DEF Noticed
<1>6. CASE Connected \/ Fail
  BY <1>6, ConnectedStep, FailStep DEF Noticed
<1>7. CASE Reread
  BY <1>7, RereadStep DEF Noticed
<1>8. CASE Send
  BY <1>8, SendStep DEF Noticed
<1>9. CASE Heartbeat
  <2>1. /\ worker.pc = "exchanging" /\ worker'.reconcile = Younger
        /\ nano'.reread = (nano.reread \/ worker.uptime = None)
    BY <1>9, HeartbeatStep
  <2>2. ~nano'.reread => worker'.reconcile
    BY <2>1, Forgotten
  <2>3. QED
    BY <2>2 DEF Noticed
<1>10. CASE Sleep \/ Wake
  BY <1>10, SleepStep, WakeStep DEF Noticed
<1>11. CASE Restart
  BY <1>11, RestartStep DEF Noticed
<1>12. CASE UNCHANGED vars
  BY <1>12 DEF vars, Noticed
<1>13. QED
  BY <1>1, <1>2, <1>3, <1>4, <1>5, <1>6, <1>7, <1>8, <1>9, <1>10, <1>11, <1>12, Steps

(* What a worker has seen is what is published, till it is woken. *)
LEMMA SeenKept ==
  ASSUME TypeOK, Seen, [Next]_vars
  PROVE  Seen'
<1> USE Numbers, Limits
<1>1. CASE Tick
  <2>1. /\ readings' = [s \in Sources |-> OlderBatch(readings[s])]
        /\ worker'.seen = [s \in Sources |-> OlderBatch(worker.seen[s])]
        /\ worker'.pc = worker.pc /\ worker'.mapping = worker.mapping /\ mapping' = mapping
        /\ worker'.woken = worker.woken
        /\ worker'.deadline = IF worker.deadline > 0 THEN worker.deadline - 1 ELSE 0
        /\ worker.pc = "asleep" => worker.deadline > 0
    BY <1>1, TickStep
  <2>2. ASSUME worker.pc = "asleep", ~worker.woken, NEW s \in Sources, NEW g \in Groups,
               mapping[g] # None, Usable(readings'[s][mapping[g]])
        PROVE  worker'.deadline <= Fresh - readings'[s][mapping[g]].age
    <3> DEFINE r == readings[s][mapping[g]]
    <3>1. mapping[g] \in Gpus /\ readings[s] \in Batches
      BY <2>2, ForwardingAssumption
    <3>2. r \in Readings \cup {None} /\ readings'[s][mapping[g]] = OlderReading(r)
      BY <2>1, <3>1, OlderBatches DEF Batches
    <3> HIDE DEF r
    <3>3. r # None /\ OlderReading(r) # None /\ OlderReading(r).age = Older(r.age, Fresh)
          /\ r.age \in 0 .. Fresh /\ Older(r.age, Fresh) < Fresh
      <4>1. OlderReading(r) # None /\ OlderReading(r).age < Fresh
        BY <2>2, <3>2 DEF Usable
      <4>2. r # None /\ r \in Readings
        BY <3>2, <4>1, OlderReadings
      <4>3. QED
        BY <3>2, <4>1, <4>2, OlderReadings DEF Readings
    <3>4. r.age < Fresh /\ Older(r.age, Fresh) = r.age + 1
      BY <3>3 DEF Older
    <3>5. worker.deadline <= Fresh - r.age
      BY <2>2, <3>3, <3>4 DEF Seen, Usable, r
    <3>6. QED
      BY <2>1, <2>2, <3>2, <3>3, <3>4, <3>5
  <2>3. QED
    BY <2>1, <2>2 DEF Seen
<1>2. CASE \E s \in Sources : Begin(s) \/ Retry(s) \/ Complete(s)
  BY <1>2, SamplerSteps, WokenType DEF Seen
<1>3. CASE \E map \in Mappings : Configure(map)
  BY <1>3, ConfigureStep, WokenType DEF Seen
<1>4. CASE Connect \/ Reconcile
  BY <1>4, TurnSteps DEF Seen, Look, Connect, Reconcile, Step
<1>5. CASE Top \/ Look
  <2>1. /\ UNCHANGED <<mapping, readings>> /\ worker'.seen = readings /\ worker'.pc \in {"gate", "settle"}
        /\ worker'.mapping = mapping \/ (worker'.mapping = worker.mapping /\ worker'.woken = worker.woken)
    BY <1>5, TurnSteps
  <2>2. QED
    BY <2>1 DEF Seen
<1>6. CASE Connected \/ Reread \/ Fail
  BY <1>6, ConnectedStep, RereadStep, FailStep DEF Seen
<1>7. CASE Send
  BY <1>7, SendStep DEF Seen
<1>8. CASE Heartbeat
  BY <1>8, HeartbeatStep DEF Seen
<1>9. CASE Sleep
  <2>1. /\ UNCHANGED <<mapping, readings>> /\ worker'.mapping = worker.mapping
        /\ worker'.woken = worker.woken /\ worker.pc = "settle"
        /\ worker.reconcile => worker'.pc = "top"
        /\ ~worker.reconcile =>
             worker'.pc = "asleep" /\ worker'.deadline = Deadline(worker.mapping, worker.seen, worker)
    BY <1>9, SleepStep
  <2>2. ~worker.woken => worker.mapping = mapping /\ worker.seen = readings
    BY <2>1 DEF Seen
  <2>3. \A s \in Sources, g \in Groups : mapping[g] # None /\ Usable(readings[s][mapping[g]]) =>
          Deadline(mapping, readings, worker) <= Fresh - readings[s][mapping[g]].age
    BY Deadlines
  <2>4. QED
    BY <2>1, <2>2, <2>3 DEF Seen
<1>10. CASE Wake
  BY <1>10, WakeStep DEF Seen
<1>11. CASE Restart
  BY <1>11, RestartStep DEF Seen
<1>12. CASE UNCHANGED vars
  BY <1>12 DEF vars, Seen
<1>13. QED
  BY <1>1, <1>2, <1>3, <1>4, <1>5, <1>6, <1>7, <1>8, <1>9, <1>10, <1>11, <1>12, Steps

(* The worker knows what the Nano holds. *)
LEMMA HeldKept ==
  ASSUME TypeOK, Waits, Held, [Next]_vars
  PROVE  Held'
<1> USE Numbers, Limits
<1>1. CASE Tick
  <2>1. /\ worker'.packet = OlderBatch(worker.packet) /\ nano'.reading = OlderBatch(nano.reading)
        /\ worker'.pc = worker.pc /\ worker'.previous = worker.previous
        /\ worker'.uptime = worker.uptime /\ nano'.answered = nano.answered
        /\ nano'.uptime = IF env.restarts THEN Older(nano.uptime, MaxUptime) ELSE 0
    BY <1>1, TickStep
  <2>2. Younger' => Younger
    BY <2>1 DEF Waits, Younger, Older
  <2>3. \A g \in Groups :
          /\ worker.packet[g] \in Readings \cup {None} /\ nano.reading[g] \in Readings \cup {None}
          /\ worker'.packet[g] = OlderReading(worker.packet[g])
          /\ nano'.reading[g] = OlderReading(nano.reading[g])
    BY <2>1, OlderBatches DEF Packets
  <2>4. \A g \in Groups :
          /\ worker'.packet[g] = None <=> worker.packet[g] = None
          /\ nano'.reading[g] = None <=> nano.reading[g] = None
          /\ worker.packet[g] # None => worker'.packet[g].temperature = worker.packet[g].temperature
          /\ nano.reading[g] # None => nano'.reading[g].temperature = nano.reading[g].temperature
    BY <2>3, OlderReadings
  <2>5. nano.reading = NoPacket => nano'.reading = NoPacket
    BY <2>1 DEF OlderBatch, OlderReading, NoPacket
  <2>6. QED
    BY <2>1, <2>2, <2>4, <2>5 DEF Held
<1>2. CASE \E s \in Sources : Begin(s) \/ Retry(s) \/ Complete(s)
  BY <1>2, SamplerSteps, WokenType DEF Held, Younger
<1>3. CASE \E map \in Mappings : Configure(map)
  BY <1>3, ConfigureStep, WokenType DEF Held, Younger
<1>4. CASE Connect \/ Reconcile \/ Top \/ Look
  <2>1. /\ UNCHANGED nano /\ worker'.previous = worker.previous /\ worker'.uptime = worker.uptime
        /\ worker.pc # "exchanging" /\ worker'.pc # "exchanging"
    BY <1>4, TurnSteps DEF Connect, Step
  <2>2. QED
    BY <2>1 DEF Held, Younger
<1>5. CASE Connected \/ Fail
  BY <1>5, ConnectedStep, FailStep DEF Held, Younger
<1>6. CASE Reread
  BY <1>6, RereadStep DEF Held, Younger
<1>7. CASE Send
  <2>1. /\ worker.pc = "gate" /\ worker'.pc = "exchanging" /\ worker'.packet = Chosen
        /\ worker'.uptime = worker.uptime /\ nano'.uptime = nano.uptime
        /\ \/ nano'.answered /\ nano'.reading = Chosen
           \/ ~nano'.answered /\ nano'.reading = nano.reading
    BY <1>7, SendStep
  <2>2. QED
    BY <2>1 DEF Held, Younger
<1>8. CASE Heartbeat
  <2>1. /\ worker.pc = "exchanging" /\ nano.answered /\ worker'.pc = "settle"
        /\ worker'.previous = Payload(worker.packet) /\ worker'.uptime = nano.uptime
        /\ nano'.reading = nano.reading /\ nano'.uptime = nano.uptime
    BY <1>8, HeartbeatStep
  <2>2. \A g \in Groups : Payload(worker.packet)[g] = IF worker.packet[g] = None THEN None
                                                      ELSE worker.packet[g].temperature
    BY PayloadType
  <2>3. QED
    BY <2>1, <2>2 DEF Held, Younger
<1>9. CASE Sleep \/ Wake
  <2>1. /\ UNCHANGED nano /\ worker'.previous = worker.previous /\ worker'.uptime = worker.uptime
        /\ worker.pc # "exchanging" /\ worker'.pc # "exchanging"
    BY <1>9, SleepStep, WakeStep
  <2>2. QED
    BY <2>1 DEF Held, Younger
<1>10. CASE Restart
  BY <1>10, RestartStep DEF Held, NoPacket
<1>11. CASE UNCHANGED vars
  BY <1>11 DEF vars, Held, Younger
<1>12. QED
  BY <1>1, <1>2, <1>3, <1>4, <1>5, <1>6, <1>7, <1>8, <1>9, <1>10, <1>11, Steps

(* A packet that is chosen by the configuration of now leaves nothing wrong. *)
LEMMA ChosenIsRight ==
  ASSUME TypeOK, TrueAges, Send, nano'.answered, worker.mapping = mapping
  PROVE  ~SomeWrong'
<1> SUFFICES ASSUME NEW g \in Groups, Wrong(g)' PROVE FALSE
  BY DEF SomeWrong
<1>1. UNCHANGED <<mapping, readings>> /\ nano'.reading = MappedTemperatures(mapping, readings)
  BY SendStep DEF Chosen
<1>2. nano'.reading[g] # None
  BY DEF Wrong
<1>3. PICK s \in FreshSources(mapping[g], readings) :
        /\ mapping[g] \in Gpus /\ s \in Sources /\ readings[s][mapping[g]] \in Readings
        /\ nano'.reading[g] = readings[s][mapping[g]]
  BY <1>1, <1>2, Numbers, Mapping
<1>4. readings[s][mapping[g]] # None /\ readings[s][mapping[g]].measured < Fresh /\ mapping[g] # None
  BY <1>3, ForwardingAssumption DEF FreshSources, Usable, TrueAges
<1>5. QED
  BY <1>1, <1>3, <1>4 DEF Wrong, Right

LEMMA EmptyIsRight ==
  /\ nano.reading = NoPacket => ~SomeWrong
  /\ nano'.reading = NoPacket => ~SomeWrong'
BY DEF SomeWrong, Wrong, NoPacket

(* What is wrong on a Nano that answered the last packet has changed since. *)
LEMMA WrongHasChanged ==
  ASSUME TypeOK, TrueAges, Held, worker.pc = "settle", worker.previous # None, SomeWrong
  PROVE  Payload(MappedTemperatures(mapping, readings)) # worker.previous
<1> DEFINE packet == MappedTemperatures(mapping, readings)
<1>1. PICK g \in Groups : Wrong(g)
  BY DEF SomeWrong
<1>2. nano.reading[g] # None /\ nano.reading[g] \in Readings /\ worker.previous[g] = nano.reading[g].temperature
  BY <1>1, Numbers DEF Wrong, Held, Packets
<1>3. packet \in Packets
        /\ (packet[g] # None => \E s \in FreshSources(mapping[g], readings) :
             /\ s \in Sources /\ mapping[g] \in Gpus /\ readings[s][mapping[g]] \in Readings
             /\ packet[g] = readings[s][mapping[g]])
  BY Numbers, Mapping
<1>4. Payload(packet)[g] = IF packet[g] = None THEN None ELSE packet[g].temperature
  BY <1>3, PayloadType
<1> HIDE DEF packet
<1>5. CASE packet[g] = None
  BY <1>2, <1>4, <1>5, ForwardingAssumption DEF Readings, packet
<1>6. CASE packet[g] # None
  <2>1. PICK s \in FreshSources(mapping[g], readings) :
          /\ s \in Sources /\ mapping[g] \in Gpus /\ readings[s][mapping[g]] \in Readings
          /\ packet[g] = readings[s][mapping[g]]
    BY <1>3, <1>6
  <2>2. readings[s][mapping[g]] # None /\ readings[s][mapping[g]].measured < Fresh /\ mapping[g] # None
    BY <2>1, ForwardingAssumption DEF FreshSources, Usable, TrueAges
  <2>3. packet[g].temperature # nano.reading[g].temperature
    BY <1>1, <2>1, <2>2 DEF Wrong, Right
  <2>4. QED
    BY <1>2, <1>4, <1>6, <2>3 DEF packet
<1>7. QED
  BY <1>5, <1>6

(* What becomes wrong in a second has expired, and the worker wakes for it. *)
LEMMA ExpiryIsDue ==
  ASSUME TypeOK, TrueAges, Seen, Tick, worker.pc = "asleep", ~SomeWrong, SomeWrong'
  PROVE  worker.deadline = 1
<1> USE Numbers, Limits
<1>1. /\ readings' = [s \in Sources |-> OlderBatch(readings[s])] /\ mapping' = mapping
      /\ nano'.reading = OlderBatch(nano.reading) /\ ~worker.woken /\ worker.deadline > 0
  BY TickStep
<1>2. PICK g \in Groups : Wrong(g)' /\ ~Wrong(g)
  BY DEF SomeWrong
<1>3. nano.reading[g] \in Readings \cup {None} /\ nano'.reading[g] = OlderReading(nano.reading[g])
  BY <1>1, OlderBatches DEF Packets
<1>4. nano'.reading[g] # None
  BY <1>2 DEF Wrong
<1>5. nano.reading[g] # None /\ nano'.reading[g].temperature = nano.reading[g].temperature
  BY <1>3, <1>4, OlderReadings
<1>6. PICK s \in Sources : mapping[g] # None /\ readings[s][mapping[g]] # None /\ Right(g, readings[s][mapping[g]])
  BY <1>2, <1>5 DEF Wrong, Right
<1> DEFINE r == readings[s][mapping[g]]
<1>7. mapping[g] \in Gpus
  BY <1>6, ForwardingAssumption
<1>8. r \in Readings /\ r.age = r.measured /\ readings'[s][mapping[g]] = OlderReading(r)
  BY <1>1, <1>6, <1>7, OlderBatches DEF Batches, TrueAges
<1>9. r.measured < Fresh /\ r.temperature = nano.reading[g].temperature /\ r # None
  BY <1>6 DEF Right
<1> HIDE DEF r
<1>10. /\ OlderReading(r) # None /\ OlderReading(r).measured = Older(r.measured, Fresh)
       /\ OlderReading(r).temperature = r.temperature /\ r.age \in Nat
  BY <1>8, <1>9, OlderReadings DEF Readings
<1>11. ~(Older(r.measured, Fresh) < Fresh)
  <2>1. ~(readings'[s][mapping'[g]].measured < Fresh
            /\ readings'[s][mapping'[g]].temperature = nano'.reading[g].temperature)
    BY <1>1, <1>2, <1>6, <1>8, <1>10 DEF Wrong, Right
  <2>2. QED
    BY <1>1, <1>5, <1>8, <1>9, <1>10, <2>1
<1>12. r.age = Fresh - 1
  BY <1>8, <1>9, <1>10, <1>11 DEF Older
<1>13. worker.deadline <= Fresh - r.age
  BY <1>1, <1>6, <1>8, <1>9 DEF Seen, Usable, r
<1>14. QED
  BY <1>1, <1>12, <1>13

(* For how long something may have been wrong. *)
LEMMA LatenessKept ==
  ASSUME ForwardingInv, [Next]_vars
  PROVE  Lateness'
<1> USE Numbers, Limits
<1>0. TypeOK /\ TrueAges /\ Waits /\ Seen /\ Held /\ Lateness /\ TypeOK'
  BY TypeKept DEF ForwardingInv
<1> USE <1>0
<1>1. /\ Rereading \in Nat /\ TurnLate \in Nat /\ TurnLate >= Changed + ExchangeTime + Rereading
      /\ TurnLate >= 2 * ExchangeTime + Rereading /\ TurnLate >= 1
      /\ env.restarts => Rereading = RereadTime
  BY DEF Rereading, TurnLate, MaxOf
<1>2. /\ late \in Nat /\ late' \in Nat
      /\ late' > 0 => mapping' = mapping /\ Linked' /\ SomeWrong'
  <2>1. CASE UNCHANGED vars
    BY <2>1 DEF vars, Lateness, SomeWrong, Wrong, Right, Linked
  <2>2. CASE Counted(0) \/ Counted(1)
    BY <2>2, Counting
  <2>3. QED
    BY <2>1, <2>2, Steps
<1>3. ASSUME late' = 0, ~(worker'.pc = "asleep" /\ ~worker'.woken /\ SomeWrong'), UNCHANGED env
      PROVE  Lateness'
  <2>1. worker'.sentAge \in Nat /\ worker'.waited \in Nat
    BY DEF TypeOK, Workers
  <2>2. Rereading' = Rereading /\ TurnLate' = TurnLate
    BY <1>3 DEF Rereading, TurnLate
  <2>3. QED
    BY <1>1, <1>3, <2>1, <2>2 DEF Lateness
<1>5. CASE Tick /\ Counted(1)
  <2>1. /\ worker'.pc = worker.pc /\ mapping' = mapping /\ UNCHANGED env
        /\ worker'.mapping = worker.mapping /\ worker'.woken = worker.woken
        /\ worker'.reconcile = worker.reconcile /\ worker'.uptime = worker.uptime
        /\ nano'.answered = nano.answered
        /\ worker'.deadline = IF worker.deadline > 0 THEN worker.deadline - 1 ELSE 0
        /\ worker'.sentAge = IF worker.previous = None THEN 0 ELSE Older(worker.sentAge, KeepAlive)
        /\ worker'.waited = IF worker.pc \in {"gate", "exchanging", "rereading"} THEN worker.waited + 1 ELSE 0
        /\ worker.pc \notin {"top", "looking", "settle"}
        /\ worker.pc = "asleep" => ~worker.woken /\ worker.deadline > 0
        /\ nano'.uptime = IF env.restarts THEN Older(nano.uptime, MaxUptime) ELSE 0
    BY <1>5, TickStep
  <2>2. Rereading' = Rereading /\ TurnLate' = TurnLate
    BY <2>1 DEF Rereading, TurnLate
  <2>3. late' <= late + 1 /\ (Linked' /\ SomeWrong' => late' > 0)
    BY <1>5, <2>1, Counting
  <2>4. CASE worker.pc = "asleep"
    <3>1. SomeWrong' => late' + worker'.deadline <= TurnLate /\ late' <= TurnLate
      <4>1. CASE SomeWrong
        <5>1. late + worker.deadline <= TurnLate
          BY <2>1, <2>4, <4>1 DEF Lateness
        <5>2. worker.deadline \in Nat /\ worker.deadline > 0 /\ worker'.deadline = worker.deadline - 1
          BY <2>1, <2>4
        <5>3. QED
          BY <1>1, <1>2, <2>3, <5>1, <5>2
      <4>2. CASE ~SomeWrong /\ SomeWrong'
        <5>1. worker.deadline = 1
          BY <1>5, <2>4, <4>2, ExpiryIsDue
        <5>2. late = 0
          BY <1>2, <4>2 DEF Lateness
        <5>3. worker'.deadline = 0 /\ late' <= 1
          BY <2>1, <2>3, <5>1, <5>2
        <5>4. late' = 0 \/ late' = 1
          BY <1>2, <5>3
        <5>5. TurnLate \in Nat /\ 1 <= TurnLate
          BY <1>1
        <5>6. QED
          BY <5>3, <5>4, <5>5
      <4>3. QED
        BY <4>1, <4>2
    <3>2. worker'.sentAge = worker.sentAge + 1
      BY <2>1, <2>4 DEF Waits, Older
    <3>3. late' <= ExchangeTime + Rereading + worker'.sentAge /\ late' <= TurnLate
      BY <1>1, <1>2, <2>3, <2>4, <3>1, <3>2 DEF Lateness
    <3>4. QED
      BY <1>2, <2>1, <2>2, <2>4, <3>1, <3>3 DEF Lateness, Waits
  <2>5. CASE worker.pc \in {"rereading", "gate", "exchanging"}
    <3>1. Younger' => Younger
      BY <2>1 DEF Waits, Younger, Older
    <3>2. CASE worker.pc = "rereading"
      BY <1>1, <1>2, <2>1, <2>2, <2>3, <3>2 DEF Lateness
    <3>3. CASE worker.pc = "gate"
      BY <1>1, <1>2, <2>1, <2>2, <2>3, <3>3 DEF Lateness
    <3>4. CASE worker.pc = "exchanging"
      BY <1>1, <1>2, <2>1, <2>2, <2>3, <3>1, <3>4 DEF Lateness
    <3>5. QED
      BY <2>5, <3>2, <3>3, <3>4
  <2>6. CASE worker.pc \in {"offline", "connecting"}
    BY <1>2, <1>3, <2>1, <2>6 DEF Linked
  <2>7. QED
    BY <2>1, <2>4, <2>5, <2>6
<1>6. CASE /\ Counted(0)
           /\ \/ \E s \in Sources : Begin(s) \/ Retry(s) \/ Complete(s)
              \/ \E map \in Mappings : Configure(map)
              \/ Connect \/ Reconcile \/ Top \/ Look \/ Connected \/ Reread \/ Send
              \/ Heartbeat \/ Fail \/ Sleep \/ Wake \/ Restart
  <2>1. late' <= late
    BY <1>6, Counting
  <2>2. CASE \E s \in Sources : Begin(s) \/ Retry(s) \/ Complete(s)
    <3>1. UNCHANGED <<env, mapping, nano>> /\ (worker' = Woken(worker) \/ UNCHANGED <<readings, worker>>)
      BY <2>2, SamplerSteps
    <3>2. Rereading' = Rereading /\ TurnLate' = TurnLate
      BY <3>1 DEF Rereading, TurnLate
    <3>3. CASE worker' = Woken(worker)
      BY <1>1, <1>2, <2>1, <3>1, <3>2, <3>3, WokenType DEF Lateness, Younger
    <3>4. CASE UNCHANGED <<readings, worker>>
      <4>1. SomeWrong' = SomeWrong
        BY <3>1, <3>4 DEF SomeWrong, Wrong, Right
      <4>2. QED
        BY <1>1, <1>2, <2>1, <3>1, <3>2, <3>4, <4>1 DEF Lateness, Younger
    <3>5. QED
      BY <3>1, <3>3, <3>4
  <2>3. CASE \E map \in Mappings : Configure(map)
    <3>1. mapping' # mapping /\ worker'.woken /\ UNCHANGED env
      BY <2>3, ConfigureStep, WokenType
    <3>2. QED
      BY <1>2, <1>3, <3>1
  <2>4. CASE Connect \/ Fail
    <3>1. worker'.pc \in {"connecting", "offline"} /\ UNCHANGED env
      BY <2>4, TurnSteps, FailStep
    <3>2. QED
      BY <1>2, <1>3, <3>1 DEF Linked
  <2>5. CASE Connected
    <3>1. worker.pc = "connecting" /\ worker'.pc = "looking" /\ UNCHANGED env
      BY <2>5, ConnectedStep
    <3>2. late' = 0
      BY <1>2, <2>1, <3>1 DEF Lateness, Linked
    <3>3. QED
      BY <1>3, <3>1, <3>2
  <2>6. CASE Reconcile
    <3>1. /\ worker.pc = "top" /\ worker.reconcile /\ worker'.pc = "rereading"
          /\ worker'.mapping = mapping /\ mapping' = mapping /\ worker'.waited = 0
      BY <2>6, TurnSteps DEF Reconcile, Look, Step
    <3>2. QED
      BY <1>1, <1>2, <2>1, <3>1 DEF Lateness
  <2>7. CASE Top \/ Look
    <3>1. /\ UNCHANGED <<env, mapping>> /\ worker.pc \in {"top", "looking"} /\ worker'.pc \in {"gate", "settle"}
          /\ worker'.sentAge = worker.sentAge /\ worker'.reconcile = worker.reconcile
          /\ \/ worker'.mapping = mapping
             \/ worker'.mapping = worker.mapping /\ worker.pc = "looking"
      BY <2>7, TurnSteps
    <3>2. ~worker.reconcile /\ worker'.waited \in Nat
      BY <2>7, TurnSteps DEF Waits, Workers
    <3>3. Rereading' = Rereading /\ TurnLate' = TurnLate
      BY <3>1 DEF Rereading, TurnLate
    <3>4. QED
      BY <1>1, <1>2, <2>1, <3>1, <3>2, <3>3 DEF Lateness
  <2>8. CASE Reread
    <3>1. /\ UNCHANGED <<env, mapping>> /\ worker.pc = "rereading" /\ worker'.pc = "looking"
          /\ worker'.mapping = worker.mapping /\ worker'.sentAge = worker.sentAge
      BY <2>8, RereadStep
    <3>2. worker.waited <= RereadTime /\ Rereading = RereadTime
      BY <1>1, <3>1 DEF Waits
    <3>3. Rereading' = Rereading /\ TurnLate' = TurnLate
      BY <3>1 DEF Rereading, TurnLate
    <3>4. QED
      BY <1>1, <1>2, <2>1, <3>1, <3>2, <3>3 DEF Lateness
  <2>9. CASE Send
    <3>1. /\ UNCHANGED <<env, mapping>> /\ worker.pc = "gate" /\ worker'.pc = "exchanging"
          /\ worker'.waited = 0 /\ worker'.uptime = worker.uptime /\ nano'.uptime = nano.uptime
          /\ worker.waited <= ExchangeTime
      BY <2>9, SendStep DEF Waits
    <3>2. nano'.answered => late' <= Rereading + ExchangeTime
      BY <1>1, <1>2, <2>1, <2>9, <3>1, ChosenIsRight DEF Lateness
    <3>3. Younger' => late' = 0
      BY <1>2, <2>1, <3>1, EmptyIsRight DEF Younger, Held, Lateness
    <3>4. Rereading' = Rereading /\ TurnLate' = TurnLate
      BY <3>1 DEF Rereading, TurnLate
    <3>5. QED
      BY <1>1, <1>2, <2>1, <3>1, <3>2, <3>3, <3>4 DEF Lateness
  <2>10. CASE Heartbeat
    <3>1. /\ UNCHANGED <<env, mapping>> /\ worker.pc = "exchanging" /\ worker'.pc = "settle"
          /\ nano.answered /\ worker'.sentAge = worker.waited /\ worker'.reconcile = Younger
          /\ worker.waited <= ExchangeTime
      BY <2>10, HeartbeatStep DEF Waits
    <3>2. Rereading' = Rereading /\ TurnLate' = TurnLate
      BY <3>1 DEF Rereading, TurnLate
    <3>3. QED
      BY <1>1, <1>2, <2>1, <3>1, <3>2 DEF Lateness
  <2>11. CASE Sleep
    <3>1. /\ UNCHANGED <<env, mapping, readings, nano>> /\ worker.pc = "settle"
          /\ worker'.sentAge = worker.sentAge /\ worker'.reconcile = worker.reconcile
          /\ worker'.woken = worker.woken
          /\ worker.reconcile => worker'.pc = "top"
          /\ ~worker.reconcile =>
               worker'.pc = "asleep" /\ worker'.deadline = Deadline(worker.mapping, worker.seen, worker)
      BY <2>11, SleepStep
    <3>2. Rereading' = Rereading /\ TurnLate' = TurnLate
      BY <3>1 DEF Rereading, TurnLate
    <3>3. late <= TurnLate /\ late <= ExchangeTime + Rereading + worker.sentAge
      BY <3>1 DEF Lateness
    <3>4. ASSUME ~worker.reconcile, ~worker.woken, SomeWrong'
          PROVE  late + worker'.deadline <= TurnLate
      <4>1. SomeWrong
        BY <3>1, <3>4 DEF SomeWrong, Wrong, Right
      <4>2. worker.mapping = mapping /\ worker.seen = readings /\ worker.previous # None
        BY <3>1, <3>4 DEF Seen, Waits
      <4>3. Payload(MappedTemperatures(mapping, readings)) # worker.previous
        BY <3>1, <4>1, <4>2, WrongHasChanged
      <4>4. NextDue(MappedTemperatures(mapping, readings), worker) = Left(Changed, worker.sentAge)
        BY <4>2, <4>3, DueType
      <4>5. /\ worker'.deadline \in Nat
            /\ worker'.deadline <= NextDue(MappedTemperatures(mapping, readings), worker)
        BY <3>1, <3>4, <4>2, Deadlines
      <4>6. QED
        BY <1>1, <1>2, <3>3, <4>4, <4>5 DEF Left
    <3>5. CASE worker.reconcile
      BY <1>1, <1>2, <2>1, <3>1, <3>2, <3>3, <3>5 DEF Lateness
    <3>6. CASE ~worker.reconcile
      <4>1. worker'.pc = "asleep"
        BY <3>1, <3>6
      <4>2. late' <= TurnLate /\ late' <= ExchangeTime + Rereading + worker'.sentAge
        BY <1>1, <1>2, <2>1, <3>1, <3>3
      <4>3. worker'.deadline \in Nat
        BY DEF TypeOK, Workers
      <4>4. ~worker'.woken /\ SomeWrong' => late' + worker'.deadline <= TurnLate
        BY <1>1, <1>2, <2>1, <3>1, <3>4, <3>6, <4>3
      <4>5. QED
        BY <1>2, <3>2, <4>1, <4>2, <4>4 DEF Lateness
    <3>7. QED
      BY <3>5, <3>6
  <2>12. CASE Wake
    <3>1. /\ UNCHANGED <<env, mapping>> /\ worker.pc = "asleep" /\ worker'.pc = "top"
          /\ worker'.sentAge = worker.sentAge /\ ~worker'.reconcile
      BY <2>12, WakeStep DEF Waits
    <3>2. Rereading' = Rereading /\ TurnLate' = TurnLate
      BY <3>1 DEF Rereading, TurnLate
    <3>3. QED
      BY <1>1, <1>2, <2>1, <3>1, <3>2 DEF Lateness
  <2>13. CASE Restart
    <3>1. UNCHANGED env /\ ~SomeWrong'
      BY <2>13, RestartStep, EmptyIsRight
    <3>2. QED
      BY <1>2, <1>3, <3>1
  <2>14. QED
    BY <1>6, <2>2, <2>3, <2>4, <2>5, <2>6, <2>7, <2>8, <2>9, <2>10, <2>11, <2>12, <2>13
<1>7. CASE UNCHANGED vars
  <2>1. SomeWrong' = SomeWrong /\ Linked' = Linked /\ Younger' = Younger
    BY <1>7 DEF vars, SomeWrong, Wrong, Right, Linked, Younger
  <2>2. QED
    BY <1>7, <2>1 DEF vars, Lateness, Rereading, TurnLate
<1>8. QED
  BY <1>5, <1>6, <1>7, Steps

LEMMA ForwardingInvInit == Init => ForwardingInv /\ Uptimes /\ Noticed
<1> SUFFICES ASSUME Init PROVE ForwardingInv /\ Uptimes /\ Noticed
  OBVIOUS
<1> USE Limits, EmptyTypes
<1> DEFINE empty == [s \in Sources |-> NoBatch]
<1>1. /\ env \in Environments /\ mapping \in Mappings
      /\ sampler = [s \in Sources |-> [pc |-> "idle", attempt |-> 0, addresses |-> {}, age |-> 0]]
      /\ readings = empty
      /\ worker = [pc |-> "offline", mapping |-> mapping, seen |-> empty, packet |-> NoPacket,
                   previous |-> None, sentAge |-> 0, deadline |-> 0, waited |-> 0,
                   woken |-> FALSE, uptime |-> None, reconcile |-> FALSE]
      /\ nano = [reading |-> NoPacket, uptime |-> 0, reread |-> FALSE, answered |-> FALSE]
      /\ late = 0
  BY DEF Init
<1>2. TypeOK
  <2>1. [pc |-> "idle", attempt |-> 0, addresses |-> {}, age |-> 0] \in Samplers
    BY DEF Samplers
  <2>2. empty \in [Sources -> Batches]
    OBVIOUS
  <2>3. worker \in Workers
    BY <1>1, <2>2 DEF Workers
  <2>4. nano \in Nanos
    BY <1>1 DEF Nanos, MaxUptime
  <2>5. QED
    BY <1>1, <2>1, <2>2, <2>3, <2>4, ForwardingAssumption DEF TypeOK
<1>3. TrueAges
  BY <1>1 DEF TrueAges, NoBatch
<1>4. Waits /\ Seen /\ Uptimes /\ Noticed
  BY <1>1 DEF Waits, Linked, Seen, Uptimes, Noticed
<1>5. Held /\ Lateness
  BY <1>1 DEF Held, Younger, Lateness
<1>6. QED
  BY <1>2, <1>3, <1>4, <1>5 DEF ForwardingInv

LEMMA ForwardingInvKept == ForwardingInv /\ [Next]_vars => ForwardingInv'
BY TypeKept, TrueAgesKept, WaitsKept, SeenKept, HeldKept, LatenessKept DEF ForwardingInv

(* The invariant: the ages are true, what the worker knows of the Nano and of what is
   published holds at each point of a turn, and nothing is wrong for too long there. *)
THEOREM ForwardingInvAlways == Spec => []ForwardingInv
BY ForwardingInvInit, ForwardingInvKept, PTL DEF Spec

(* The threads, the readings and the Nano have their types whatever is sampled. *)
THEOREM ForwardingTypeCorrect == Spec => []TypeOK
BY ForwardingInvAlways, PTL DEF ForwardingInv

(* A reading that has expired or is not to be used any more is taken from the connected
   Nano within the bound, for any limits, providers and configurations: run() wakes for the
   expiry of what it has seen, and looks again at what is published when it is woken. *)
THEOREM WithdrawnAlways == Spec => []WithdrawnInTime
<1>1. ASSUME ForwardingInv PROVE WithdrawnInTime
  <2> USE Numbers, Limits
  <2>1. TypeOK /\ Waits /\ Lateness
    BY <1>1 DEF ForwardingInv
  <2>2. /\ Rereading \in Nat /\ TurnLate \in Nat /\ MaxLate = TurnLate + 2 * ExchangeTime
        /\ TurnLate >= ExchangeTime + Rereading
    BY <2>1 DEF Rereading, TurnLate, MaxLate, MaxOf
  <2>3. worker.waited \in Nat /\ late \in Nat
    BY <2>1
  <2>4. CASE worker.pc = "rereading"
    <3>1. late <= ExchangeTime + RereadTime /\ Rereading = RereadTime
      BY <2>1, <2>4 DEF Waits, Lateness, Rereading
    <3>2. QED
      BY <2>2, <2>3, <3>1 DEF WithdrawnInTime
  <2>5. CASE worker.pc # "rereading"
    BY <2>1, <2>2, <2>3, <2>5 DEF Waits, Lateness, Linked, WithdrawnInTime
  <2>6. QED
    BY <2>4, <2>5
<1>2. QED
  BY <1>1, ForwardingInvAlways, PTL

(* A worker that sleeps has read the state of a Nano that restarted: the uptime of its
   heartbeat is lower than the last one, if it had run for longer than a heartbeat can
   be away. *)
THEOREM RereadAlways ==
  ASSUME LongUptime
  PROVE  Spec => []RestartIsReread
<1>1. ForwardingInv /\ Uptimes /\ Noticed /\ [Next]_vars => (ForwardingInv /\ Uptimes /\ Noticed)'
  BY ForwardingInvKept, UptimesKept, NoticedKept DEF ForwardingInv
<1>2. ForwardingInv /\ Noticed => RestartIsReread
  BY DEF ForwardingInv, Waits, Noticed, RestartIsReread
<1>3. QED
  BY <1>1, <1>2, ForwardingInvInit, PTL DEF Spec

(* What is sent as valid was measured less than three seconds ago, by one provider: the
   packet is chosen when the line is free, and a retry keeps the time of what it keeps. *)
THEOREM FreshAlways == Spec => SentIsFresh
<1> DEFINE fresh == \A g \in Groups :
       worker.pc = "gate" /\ worker'.pc = "exchanging" /\ worker'.packet[g] # None
         => /\ worker'.packet[g].measured < Fresh
            /\ Cardinality({s \in Sources : readings[s][worker.mapping[g]] # None
                              /\ readings[s][worker.mapping[g]].measured < Fresh}) = 1
<1>1. ASSUME ForwardingInv, [Next]_vars PROVE [fresh]_vars
  <2> USE Numbers, Limits
  <2> SUFFICES ASSUME NEW g \in Groups, worker.pc = "gate", worker'.pc = "exchanging", worker'.packet[g] # None
      PROVE  /\ worker'.packet[g].measured < Fresh
             /\ Cardinality({s \in Sources : readings[s][worker.mapping[g]] # None
                              /\ readings[s][worker.mapping[g]].measured < Fresh}) = 1
    OBVIOUS
  <2>1. TypeOK /\ TrueAges
    BY <1>1 DEF ForwardingInv
  <2>2. CASE Send
    <3> DEFINE p == worker.mapping[g]
               measured == {s \in Sources : readings[s][p] # None /\ readings[s][p].measured < Fresh}
    <3>1. worker'.packet = MappedTemperatures(worker.mapping, readings)
      BY <2>1, <2>2, SendStep DEF Chosen
    <3>2. /\ p \in Gpus /\ Cardinality(FreshSources(p, readings)) = 1
          /\ \E s \in FreshSources(p, readings) :
               s \in Sources /\ readings[s][p] \in Readings /\ worker'.packet[g] = readings[s][p]
      BY <2>1, <3>1, Mapping
    <3> HIDE DEF p
    <3>3. measured = FreshSources(p, readings)
      BY <2>1, <3>2 DEF FreshSources, Usable, TrueAges
    <3>4. worker'.packet[g].measured < Fresh
      BY <3>2, <3>3
    <3>5. QED
      BY <3>2, <3>3, <3>4 DEF p
  <2>3. CASE ~Send
    <3>1. \/ Tick \/ UNCHANGED vars
          \/ \E s \in Sources : Begin(s) \/ Retry(s) \/ Complete(s)
          \/ \E map \in Mappings : Configure(map)
          \/ Restart
          \/ Connect \/ Reconcile \/ Top \/ Look \/ Connected \/ Reread
          \/ Heartbeat \/ Fail \/ Sleep \/ Wake
      BY <1>1, <2>3, Steps
    <3>2. worker'.pc = worker.pc \/ worker'.pc # "exchanging"
      BY <2>1, <3>1, TickStep, SamplerSteps, WokenType, ConfigureStep, RestartStep, TurnSteps, ConnectedStep,
         RereadStep, HeartbeatStep, FailStep, SleepStep, WakeStep DEF vars
    <3>3. QED
      BY <3>2
  <2>4. QED
    BY <2>2, <2>3
<1>2. SentIsFresh <=> [][fresh]_vars
  BY DEF SentIsFresh
<1> HIDE DEF fresh
<1>3. QED
  BY <1>1, <1>2, ForwardingInvAlways, PTL DEF Spec
=============================================================================
