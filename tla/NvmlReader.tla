---------------------------- MODULE NvmlReader ----------------------------
(***************************************************************************)
(* The readings of NVIDIA GPUs: NvmlReader in the daemon, which asks a     *)
(* helper process (runNvmlHelper) over a socket of its own, and the        *)
(* session of the helper with the driver (NvmlLibrary).                    *)
(*                                                                         *)
(* The driver is external: it may be unloaded, hang a call, lose a session *)
(* or a handle, or answer an unknown error until it is initialized again.  *)
(* A process in a call that hangs dies, when it is killed, at the latest   *)
(* when the call returns.                                                  *)
(***************************************************************************)
EXTENDS Integers, FiniteSets

CONSTANTS
  NvidiaGpus,      (* Addresses that may be mapped.                         *)
  Pids,            (* Of helpers; more than one, to see whether one is kept.*)
  Allowances       (* Budgets: how often each trouble happens.              *)

(* What may happen a limited number of times. *)
Budgets == {"maps", "troubles", "passing", "spawn", "malformed", "slow"}

ASSUME NvmlAssumption == 0 \notin Pids /\ Allowances \subseteq [Budgets -> Nat]

VARIABLES
  budgets, mapped, (* Budgets left; the mapped addresses.                   *)
  driver,          (* up, down (unloaded) or hangs.                         *)
  helpers,         (* The processes.                                        *)
  pid, socket,     (* pid_ (0: none), and whether socket_ is open.          *)
  pc,              (* idle, waiting (for a reply), closing or killing.      *)
  sampled          (* GPUs read by the last sample.                         *)
nvmlVars == <<budgets, mapped, driver, helpers, pid, socket, pc, sampled>>

(* NvmlLibrary: initialized_, reinitialize_, handles_, failures_; and what the driver
   knows of the session: ok, lost or odd, and its handles that are no longer valid. *)
NewLibrary == [initialized |-> FALSE, reinitialize |-> FALSE, handles |-> {},
               failures |-> [g \in NvidiaGpus |-> 0], session |-> "ok", stale |-> {}]

(* A process: none, idle (in recv), calling (the driver), wedged, exiting or dead; the
   addresses it was asked for, and the replies in the socket, one at most. *)
NoHelper     == [run |-> "none", killed |-> FALSE, asked |-> {}, replies |-> {},
                 library |-> NewLibrary]
Started(asked) == [NoHelper EXCEPT !.run = "idle", !.asked = asked]
Alive(p)     == p \in Pids /\ helpers[p].run \notin {"none", "dead"}

NvmlInit ==
  /\ budgets \in Allowances /\ mapped = NvidiaGpus /\ driver = "up"
  /\ helpers = [p \in Pids |-> NoHelper] /\ pid = 0 /\ socket = FALSE
  /\ pc = "idle" /\ sampled = {}

Spend(budget) == budgets[budget] > 0 /\ budgets' = [budgets EXCEPT ![budget] = @ - 1]

-----------------------------------------------------------------------------
(* NvmlLibrary *)

(* initialize(): a session that was found lost is closed and opened again. *)
Closed(lib) ==
  IF lib.reinitialize THEN [NewLibrary EXCEPT !.session = lib.session, !.stale = lib.stale]
  ELSE lib
Opened(lib) ==
  IF lib.initialized THEN lib
  ELSE [lib EXCEPT !.initialized = TRUE, !.session = "ok", !.stale = {}]
CanOpen(lib) == lib.initialized \/ driver = "up"

(* What the driver answers for a GPU: an error of the context (1, 9, 15, 16), of the
   handle (2, 6), an unknown one (999), or a passing one, for those in troubled. *)
Code(lib, gpu, troubled) ==
  CASE driver = "down" \/ lib.session = "lost"  -> "context"
    [] lib.session = "odd"                      -> "unknown"
    [] gpu \in lib.handles \cap lib.stale       -> "handle"
    [] gpu \in troubled                         -> "passing"
    [] OTHER                                    -> "ok"

NeedsSession_HandleFault(code, failures) == code = "unknown" /\ failures >= 3
NeedsSession(code, failures) == code = "context" \/ (code = "unknown" /\ failures >= 3)

(* sample(), with an open session: the readings are of the GPUs that answer; errors
   decide what is obtained again at the next request. *)
Sampled(lib, asked, troubled) ==
  LET code     == [g \in asked |-> Code(lib, g, troubled)]
      failures == [g \in NvidiaGpus |->
                     CASE g \notin asked          -> 0
                       [] code[g] = "unknown"     -> IF lib.failures[g] = 3 THEN 3
                                                     ELSE lib.failures[g] + 1
                       [] code[g] = "context"     -> lib.failures[g]
                       [] OTHER                   -> 0]
      again    == {g \in asked : NeedsSession(code[g], failures[g])}
      lost     == {g \in asked : code[g] = "handle"} \cup again
      obtained == {g \in asked : code[g] \in {"ok", "passing"}}
  IN  [reply   |-> {g \in asked : code[g] = "ok"},
       library |-> [lib EXCEPT !.reinitialize = @ \/ again # {},
                               !.handles = ((@ \cap asked) \cup obtained) \ lost,
                               !.stale = (@ \cap asked) \ lost,
                               !.failures = failures]]

NothingRead(lib) == [reply |-> {}, library |-> lib]

-----------------------------------------------------------------------------
(* runNvmlHelper(): the loop of process p. *)

Become(p, run) == helpers' = [helpers EXCEPT ![p].run = run]
Served(p) == p = pid /\ socket

Take(p) ==
  /\ helpers[p].run = "idle" /\ helpers[p].asked # {} /\ Become(p, "calling")
  /\ UNCHANGED <<budgets, mapped, driver, pid, socket, pc, sampled>>

(* Returned from the driver, with an answer, that a closed socket does not take. *)
Answer(p) ==
  LET h   == helpers[p]
      lib == Closed(h.library)
      Reply(s) == helpers' = [helpers EXCEPT ![p] =
                    IF Served(p) THEN [h EXCEPT !.run = "idle", !.asked = {}, !.replies = {s.reply},
                                                !.library = s.library]
                    ELSE [h EXCEPT !.run = "exiting"]]
  IN  /\ h.run = "calling" /\ driver # "hangs"
      /\ \/ /\ CanOpen(lib) /\ UNCHANGED budgets
            /\ Reply(Sampled(Opened(lib), h.asked, {}))
         \/ \E troubled \in SUBSET h.asked \ {{}} :
              /\ CanOpen(lib) /\ Spend("passing")
              /\ Reply(Sampled(Opened(lib), h.asked, troubled))
         \/ ~CanOpen(lib) /\ Reply(NothingRead(lib)) /\ UNCHANGED budgets
         \/ /\ h.library.reinitialize /\ h.library.initialized
            /\ Spend("passing") /\ Reply(NothingRead(h.library))   (* nvmlShutdown fails. *)
  /\ UNCHANGED <<mapped, driver, pid, socket, pc, sampled>>

(* The socket was closed: the process ends, after the session is shut down. *)
Exit(p) ==
  /\ \/ helpers[p].run = "idle" /\ helpers[p].asked = {} /\ ~Served(p) /\ Become(p, "exiting")
     \/ helpers[p].run = "exiting" /\ driver # "hangs" /\ Become(p, "dead")
  /\ UNCHANGED <<budgets, mapped, driver, pid, socket, pc, sampled>>

Die(p) ==
  /\ Alive(p) /\ helpers[p].killed /\ Become(p, "dead")
  /\ UNCHANGED <<budgets, mapped, driver, pid, socket, pc, sampled>>

-----------------------------------------------------------------------------
(* NvmlReader *)

(* Every failure of a sample, and a sample of no GPU, closes the socket. *)
Stop == socket' = FALSE /\ pc' = "closing" /\ sampled' = {}

MayStart_LeakFault == TRUE
(* start(): a helper that has not been reaped defers the next one. *)
MayStart == ~Alive(pid)

Ask ==
  /\ pc = "idle" /\ mapped # {}
  /\ \/ /\ socket /\ Alive(pid)
        /\ helpers' = [helpers EXCEPT ![pid].asked = mapped]
        /\ pc' = "waiting" /\ UNCHANGED <<budgets, pid, socket, sampled>>
     \/ socket /\ ~Alive(pid) /\ Stop /\ UNCHANGED <<budgets, helpers, pid>>
     \/ /\ ~socket /\ MayStart
        /\ LET rest == [p \in Pids |-> IF p = pid /\ ~Alive(p) THEN NoHelper ELSE helpers[p]]
               p    == CHOOSE p \in Pids : rest[p] = NoHelper
           IN  \/ /\ \E q \in Pids : rest[q] = NoHelper
                  /\ helpers' = [rest EXCEPT ![p] = Started(mapped)] /\ pid' = p
                  /\ socket' = TRUE /\ pc' = "waiting" /\ UNCHANGED <<budgets, sampled>>
               \/ Spend("spawn") /\ helpers' = rest /\ pid' = 0 /\ Stop
     \/ ~socket /\ ~MayStart /\ Stop /\ UNCHANGED <<budgets, helpers, pid>>
  /\ UNCHANGED <<mapped, driver>>

AskNothing ==
  /\ pc = "idle" /\ mapped = {} /\ (socket \/ pid # 0) /\ Stop
  /\ UNCHANGED <<budgets, mapped, driver, helpers, pid>>

(* A reply of the right form, or one that is not. *)
Receive ==
  /\ pc = "waiting" /\ helpers[pid].replies # {}
  /\ helpers' = [helpers EXCEPT ![pid].replies = {}]
  /\ \/ /\ sampled' \in helpers[pid].replies /\ pc' = "idle" /\ UNCHANGED <<budgets, socket>>
     \/ Spend("malformed") /\ Stop
  /\ UNCHANGED <<mapped, driver, pid>>

(* The helper is gone, or has not answered in time; in time is what it does when
   neither it nor the driver is in trouble. *)
GiveUp ==
  /\ pc = "waiting" /\ helpers[pid].replies = {}
  /\ \/ (~Alive(pid) \/ helpers[pid].run = "wedged" \/ driver = "hangs") /\ UNCHANGED budgets
     \/ Spend("slow")
  /\ Stop /\ UNCHANGED <<mapped, driver, helpers, pid>>

Reap ==
  /\ pc \in {"closing", "killing"} /\ ~Alive(pid)
  /\ helpers' = [p \in Pids |-> IF p = pid THEN NoHelper ELSE helpers[p]]
  /\ pid' = 0 /\ pc' = "idle" /\ UNCHANGED <<budgets, mapped, driver, socket, sampled>>

Killed(h) == [h EXCEPT !.killed = TRUE]

Kill ==
  /\ pc = "closing" /\ Alive(pid)
  /\ helpers' = [helpers EXCEPT ![pid] = Killed(@)] /\ pc' = "killing"
  /\ UNCHANGED <<budgets, mapped, driver, pid, socket, sampled>>

(* It has not ended in time: its pid is kept. *)
KeepPid ==
  /\ pc = "killing" /\ Alive(pid) /\ pc' = "idle"
  /\ UNCHANGED <<budgets, mapped, driver, helpers, pid, socket, sampled>>

-----------------------------------------------------------------------------
(* The environment: the mapping, the driver and the processes. *)

Map ==
  /\ pc = "idle" /\ Spend("maps") /\ mapped' \in SUBSET NvidiaGpus \ {mapped}
  /\ UNCHANGED <<driver, helpers, pid, socket, pc, sampled>>

InSession(p, Change(_)) ==
  /\ Alive(p) /\ helpers[p].library.initialized
  /\ helpers' = [helpers EXCEPT ![p].library = Change(@)]

Trouble ==
  /\ Spend("troubles")
  /\ \/ driver = "up" /\ driver' \in {"down", "hangs"} /\ UNCHANGED helpers
     \/ /\ UNCHANGED driver
        /\ \E p \in Pids :
             \/ \E session \in {"lost", "odd"} : InSession(p, LAMBDA l : [l EXCEPT !.session = session])
             \/ InSession(p, LAMBDA l : [l EXCEPT !.stale = l.handles])
             \/ helpers[p].run = "calling" /\ Become(p, "wedged")
             \/ Alive(p) /\ Become(p, "dead")
  /\ UNCHANGED <<mapped, pid, socket, pc, sampled>>

(* An unloaded driver has forgotten the sessions. *)
Restore ==
  /\ driver # "up" /\ driver' = "up"
  /\ helpers' = [p \in Pids |-> IF driver = "down" /\ helpers[p].library.initialized
                                THEN [helpers[p] EXCEPT !.library.session = "lost"] ELSE helpers[p]]
  /\ UNCHANGED <<budgets, mapped, pid, socket, pc, sampled>>

Reader == Ask \/ AskNothing \/ Receive \/ Reap \/ Kill \/ KeepPid \/ (GiveUp /\ budgets' = budgets)
Helper(p) == Take(p) \/ Answer(p) \/ Exit(p)

NvmlNext ==
  \/ Ask \/ AskNothing \/ Receive \/ GiveUp \/ Reap \/ Kill \/ KeepPid
  \/ \E p \in Pids : Take(p) \/ Answer(p) \/ Exit(p) \/ Die(p)
  \/ Map \/ Trouble \/ Restore

(* The sampler's loop and the processes go on; a killed process dies unless the
   driver holds it. *)
NvmlFairness ==
  /\ WF_nvmlVars(Reader)
  /\ \A p \in Pids : WF_nvmlVars(Helper(p)) /\ WF_nvmlVars(Die(p) /\ driver # "hangs")

NvmlSpec == NvmlInit /\ [][NvmlNext]_nvmlVars /\ NvmlFairness

-----------------------------------------------------------------------------
Libraries ==
  [initialized : BOOLEAN, reinitialize : BOOLEAN, handles : SUBSET NvidiaGpus,
   failures : [NvidiaGpus -> 0 .. 3], session : {"ok", "lost", "odd"}, stale : SUBSET NvidiaGpus]

Helpers ==
  [run : {"none", "idle", "calling", "wedged", "exiting", "dead"}, killed : BOOLEAN,
   asked : SUBSET NvidiaGpus, replies : SUBSET SUBSET NvidiaGpus, library : Libraries]

NvmlTypeOK ==
  /\ budgets \in [Budgets -> Nat] /\ mapped \subseteq NvidiaGpus /\ driver \in {"up", "down", "hangs"}
  /\ helpers \in [Pids -> Helpers] /\ pid \in Pids \cup {0} /\ socket \in BOOLEAN
  /\ pc \in {"idle", "waiting", "closing", "killing"} /\ sampled \subseteq NvidiaGpus

(* However the driver hangs and however often the sample is retried, there is one
   helper at most: hung ones do not accumulate. *)
OneHelper == Cardinality({p \in Pids : Alive(p)}) <= 1

(* Once the driver stays up, the GPUs that are mapped are read again and again, or
   the helper is gone if there are none, whatever state the session, the handles,
   the helper and the reader were in. *)
Recovers ==
  <>[](driver = "up") =>
    []<>(sampled = mapped /\ (mapped = {} => \A p \in Pids : ~Alive(p)))
=============================================================================
