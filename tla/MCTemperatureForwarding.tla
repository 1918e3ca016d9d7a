---- MODULE MCTemperatureForwarding ----
(* The constants of MCTemperatureForwarding.cfg. *)
EXTENDS TemperatureForwarding, TLC

ASSUME LongRuns == LongUptime

(* One group that is mapped to the GPU, or disabled. *)
OneGroup == [Groups -> Gpus \cup {None}]

(* One provider and a configuration that changes, two providers that may both know
   the GPU, and a Nano that restarts while nothing is sampled. *)
Worlds ==
  {[sources |-> {s}, configures |-> TRUE, restarts |-> FALSE] : s \in Sources} \cup
  {[sources |-> Sources, configures |-> FALSE, restarts |-> FALSE],
   [sources |-> {}, configures |-> FALSE, restarts |-> TRUE]}

(* The providers differ in nothing that is modelled. *)
AnyProvider == Permutations(Sources)
====
