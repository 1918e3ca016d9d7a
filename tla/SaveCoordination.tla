------------------------- MODULE SaveCoordination -------------------------
(***************************************************************************)
(* A save of the utility (SaveCoordinator) through the daemon, while       *)
(* another client of the daemon writes, answers are lost, the EEPROM fails *)
(* and the Nano restarts.                                                  *)
(*                                                                         *)
(* The daemon handles one request at a time (ApiServer's mutex), so that a *)
(* request is one step; the utility makes many, and anything may happen    *)
(* between them.                                                           *)
(***************************************************************************)
EXTENDS ConfigurationDraft

CONSTANTS
  MaxGeneration,   (* Bounds generations and revisions.                     *)
  Environments     (* Budgets: [foreign, lost, broken, restarts].           *)

ASSUME CoordinationAssumption ==
  /\ 0 \in Values /\ MaxGeneration \in Nat
  /\ Environments \subseteq [foreign : Nat, lost : Nat, broken : Nat, restarts : Nat]

VARIABLES
  env,
  host,        (* ConfigStore: the daemon's configuration.                 *)
  ram, stored, (* The Nano's configuration: [values, gen], in force and in *)
               (* the EEPROM ...                                           *)
  names,       (* ... and its label: [label, gen], in the EEPROM only.     *)
  draft, unconfirmed,   (* draft_, unconfirmed_                            *)
  pc,          (* What the utility does.                                   *)
  plan,        (* SavePlan: host, operations, blocked, and what is read.   *)
  wanted,      (* History: what the user has set, other than what was      *)
               (* read, until it is discarded or reported as saved.        *)
  written,     (* History: scopes whose write was sent and is not verified.*)
  trampled     (* History: a write replaced what had not been reviewed.    *)
vars == <<env, host, ram, stored, names, draft, unconfirmed, pc, plan, wanted, written,
          trampled>>

nano == <<ram, stored, names>>
user == <<draft, unconfirmed>>
past == <<wanted, written, trampled>>

NoPlan  == [host |-> Host(0, 0), reviewed |-> {}, ops |-> {}, blocked |-> FALSE,
            read |-> Snapshot([s \in ConfigScopes |-> 0], 0, 0, 0), op |-> Operation("none", 0, 0)]
Reading == Snapshot(ram.values, ram.gen, names.label, names.gen)

Init ==
  /\ env \in Environments
  /\ host = Host(0, 0)
  /\ ram = [values |-> [s \in ConfigScopes |-> 0], gen |-> 0] /\ stored = ram
  /\ names = [label |-> 0, gen |-> 0]
  /\ draft = NewDraft(host, Reading) /\ unconfirmed = {}
  /\ pc = "editing" /\ plan = NoPlan
  /\ wanted = [s \in Scopes |-> {}] /\ written = {} /\ trampled = FALSE

Spend(budget) == env[budget] > 0 /\ env' = [env EXCEPT ![budget] = @ - 1]

-----------------------------------------------------------------------------
(* The user. *)

Edit(scope, value) ==
  /\ pc = "editing" /\ Desired(draft, scope) # value
  /\ draft' = Edited(draft, scope, value)
  /\ wanted' = [wanted EXCEPT ![scope] =
                 IF scope \in DirtyScopes(Edited(draft, scope, value)) THEN {value} ELSE {}]
  /\ UNCHANGED <<env, host, nano, unconfirmed, pc, plan, written, trampled>>

(* Refresh: what is read becomes the draft, or only the latest of an edited one. *)
Observe ==
  /\ pc = "editing"
  /\ draft' = ObserveNano(ObserveHost(draft, host), Reading)
  /\ UNCHANGED <<env, host, nano, unconfirmed, pc, plan, past>>

Discard ==
  /\ pc = "editing"
  /\ draft' = DiscardAll(draft) /\ unconfirmed' = {}
  /\ wanted' = [s \in Scopes |-> {}] /\ written' = {}
  /\ UNCHANGED <<env, host, nano, pc, plan, trampled>>

-----------------------------------------------------------------------------
(* prepare(): reads, and shows for review.  The two reads are of things that are
   checked again before they are written. *)
Prepare ==
  /\ pc = "editing" /\ DirtyScopes(draft) \cup ScopesOf(unconfirmed) # {}
  /\ host.revision < MaxGeneration /\ ram.gen < MaxGeneration /\ names.gen < MaxGeneration
  /\ ~HostRefused(draft, host, unconfirmed)
  /\ \E readable \in BOOLEAN :
       LET read    == PrepareHost(draft, host, unconfirmed)
           open    == readable /\ Unblocked(read, Reading, unconfirmed)
           ready   == IF open THEN PrepareNano(read, Reading, unconfirmed) ELSE read
           base    == IF open THEN Reading ELSE ready.nano.baseline
           ops     == Operations(ready, base, host, unconfirmed)
       IN  /\ IF readable THEN UNCHANGED env ELSE Spend("lost")
           /\ \A s \in Conflicts(ready) : s # "host" /\ ~open
           /\ draft' = Staged(ready, ops)
           /\ plan' = IF ops = {} THEN NoPlan ELSE
                      [NoPlan EXCEPT !.host = host, !.reviewed = ops, !.ops = ops,
                                     !.blocked = ~open, !.read = base]
           /\ pc' = (IF ops = {} THEN "editing" ELSE "review")
  /\ UNCHANGED <<host, nano, unconfirmed, past>>

Cancel ==
  /\ pc = "review" /\ pc' = "editing" /\ plan' = NoPlan
  /\ UNCHANGED <<env, host, nano, user, past>>

-----------------------------------------------------------------------------
(* execute(): the Nano's scopes one after the other, then the daemon's. *)

Confirm ==
  /\ pc = "review"
  /\ IF host # plan.host THEN pc' = "editing" /\ plan' = NoPlan
     ELSE pc' = "execute" /\ UNCHANGED plan
  /\ UNCHANGED <<env, host, nano, user, past>>

(* The write of a scope is no longer in doubt. *)
Verified(scope) == {op \in unconfirmed : op.scope # scope}
Uncertain(op)   == Verified(op.scope) \cup {op}

(* The next scope of the Nano is read; what has changed since the review, or cannot
   be read, blocks it and what follows. *)
Look(op) ==
  /\ pc = "execute" /\ ~plan.blocked /\ op \in OfNano(plan.ops)
  /\ \/ /\ Reading = plan.read
        /\ pc' = "write" /\ plan' = [plan EXCEPT !.op = op] /\ UNCHANGED env
     \/ /\ Reading # plan.read
        /\ plan' = [plan EXCEPT !.blocked = TRUE] /\ UNCHANGED <<pc, env>>
     \/ /\ Spend("lost")
        /\ plan' = [plan EXCEPT !.blocked = TRUE] /\ UNCHANGED pc
  /\ UNCHANGED <<host, nano, user, past>>

(* The end of a write: the answer is the state that was expected, or an error. *)
Saved(op, read) ==
  /\ draft' = AcceptNano(draft, read, op.scope) /\ unconfirmed' = Verified(op.scope)
  /\ plan' = [plan EXCEPT !.ops = @ \ {op}, !.read = read]
  /\ wanted' = [wanted EXCEPT ![op.scope] = {}] /\ written' = written \ {op.scope}

Failed(op) ==
  /\ unconfirmed' = (IF op.scope \in ScopesOf(unconfirmed) THEN unconfirmed
                     ELSE Uncertain(op)) /\ UNCHANGED <<draft, wanted>>
  /\ plan' = [plan EXCEPT !.ops = @ \ {op}, !.blocked = TRUE]
  /\ written' = written \cup {op.scope}

AsReviewed_UncheckedFault == TRUE
(* The daemon refuses a request that was made for another generation. *)
AsReviewed == ram.gen = plan.read.gen

Acknowledged_AppliedFault(isStored, isAnswered) == isAnswered
(* updateGroup(), updateSupply(): an acknowledgement says that it was stored. *)
Acknowledged(isStored, isAnswered) == isStored /\ isAnswered

(* SetConfiguration: in force at once, and stored, if the EEPROM is good. *)
WriteConfiguration ==
  LET op   == plan.op
      next == [values |-> [ram.values EXCEPT ![op.scope] = op.after], gen |-> ram.gen + 1]
  IN  /\ pc = "write" /\ op.scope \in ConfigScopes
      /\ \/ ~AsReviewed /\ Failed(op) /\ UNCHANGED <<env, nano, trampled>>
         \/ Spend("lost") /\ Failed(op) /\ UNCHANGED <<nano, trampled>>
         \/ \E isStored, isAnswered \in BOOLEAN :
              /\ AsReviewed
              /\ CASE ~isStored -> Spend("broken") [] isStored /\ ~isAnswered -> Spend("lost")
                   [] OTHER -> UNCHANGED env
              /\ ram' = next /\ stored' = (IF isStored THEN next ELSE stored)
              /\ trampled' = (trampled \/ ram.values # plan.read.values)
              /\ IF Acknowledged(isStored, isAnswered) /\ Label(Reading) = Label(plan.read)
                   THEN Saved(op, Snapshot(next.values, next.gen, names.label, names.gen))
                   ELSE Failed(op)
              /\ UNCHANGED names
      /\ pc' = "execute"
  /\ UNCHANGED host

(* updateAdapterNames(): equal labels are stored already. *)
WriteNames ==
  LET op   == plan.op
      next == IF names.label = op.after THEN names
              ELSE [label |-> op.after, gen |-> names.gen + 1]
      asReviewed == names.gen = plan.read.labelGen
  IN  /\ pc = "write" /\ op.scope = "names"
      /\ \/ ~asReviewed /\ Failed(op) /\ UNCHANGED <<env, names, trampled>>
         \/ Spend("lost") /\ Failed(op) /\ UNCHANGED <<names, trampled>>
         \/ Spend("broken") /\ next # names /\ Failed(op) /\ UNCHANGED <<names, trampled>>
         \/ \E isAnswered \in BOOLEAN :
              /\ asReviewed
              /\ IF isAnswered THEN UNCHANGED env ELSE Spend("lost")
              /\ names' = next
              /\ trampled' = (trampled \/ names.label # plan.read.label)
              /\ IF isAnswered /\ Settings(Reading) = Settings(plan.read)
                   THEN Saved(op, Snapshot(ram.values, ram.gen, next.label, next.gen))
                   ELSE Failed(op)
      /\ pc' = "execute"
  /\ UNCHANGED <<host, ram, stored>>

HostMayBeSaved_EarlyFault == TRUE
HostMayBeSaved == ~plan.blocked

(* Host changes wait for the Nano's. *)
LookHost(op) ==
  /\ pc = "execute" /\ op \in plan.ops /\ op.scope = "host"
  /\ OfNano(plan.ops) = {} \/ plan.blocked
  /\ \/ /\ HostMayBeSaved /\ host = plan.host
        /\ pc' = "save" /\ plan' = [plan EXCEPT !.op = op] /\ UNCHANGED env
     \/ /\ \/ ~HostMayBeSaved /\ UNCHANGED env
           \/ HostMayBeSaved /\ host # plan.host /\ UNCHANGED env
           \/ HostMayBeSaved /\ Spend("lost")
        /\ plan' = [plan EXCEPT !.ops = {}] /\ UNCHANGED pc
  /\ UNCHANGED <<host, nano, user, past>>

(* PUT config: ConfigStore::save() compares the revision. *)
SaveHost ==
  LET op   == plan.op
      next == Host(op.after, host.revision + 1)
  IN  /\ pc = "save"
      /\ \/ /\ \/ host.revision # plan.host.revision /\ UNCHANGED env
               \/ Spend("lost") \/ Spend("broken")
            /\ Failed(op) /\ UNCHANGED <<host, trampled>>
            /\ pc' = "execute"
         \/ \E isAnswered \in BOOLEAN :
              /\ host.revision = plan.host.revision
              /\ IF isAnswered THEN UNCHANGED env ELSE Spend("lost")
              /\ host' = next
              /\ trampled' = (trampled \/ host # plan.host)
              /\ IF isAnswered
                   THEN /\ pc' = "verify" /\ UNCHANGED <<user, plan, wanted>>
                        /\ written' = written \cup {"host"}
                   ELSE Failed(op) /\ pc' = "execute"
  /\ UNCHANGED nano

(* The daemon is read once more. *)
VerifyHost ==
  LET expected == Host(plan.op.after, plan.host.revision + 1)
  IN  /\ pc = "verify" /\ pc' = "execute"
      /\ IF host = expected
           THEN /\ draft' = AcceptHost(draft, host) /\ unconfirmed' = Verified("host")
                /\ plan' = [plan EXCEPT !.ops = {}]
                /\ wanted' = [wanted EXCEPT !["host"] = {}] /\ written' = written \ {"host"}
           ELSE Failed(plan.op)
  /\ UNCHANGED <<env, host, nano, trampled>>

(* Nothing is left that may be attempted. *)
Done ==
  /\ pc = "execute" /\ (plan.ops = {} \/ (plan.blocked /\ "host" \notin ScopesOf(plan.ops)))
  /\ pc' = "editing" /\ plan' = NoPlan
  /\ UNCHANGED <<env, host, nano, user, past>>

-----------------------------------------------------------------------------
(* Another client, and the Nano. *)

ForeignWrite ==
  /\ Spend("foreign")
  /\ \/ \E s \in ConfigScopes, v \in Values :
          /\ v # ram.values[s] /\ ram.gen < MaxGeneration
          /\ ram' = [values |-> [ram.values EXCEPT ![s] = v], gen |-> ram.gen + 1]
          /\ stored' = ram' /\ UNCHANGED <<names, host>>
     \/ \E v \in Values : /\ v # names.label /\ names.gen < MaxGeneration
                          /\ names' = [label |-> v, gen |-> names.gen + 1]
                          /\ UNCHANGED <<ram, stored, host>>
     \/ \E v \in Values : /\ v # host.mapping /\ host.revision < MaxGeneration
                          /\ host' = Host(v, host.revision + 1)
                          /\ UNCHANGED nano
  /\ UNCHANGED <<user, pc, plan, past>>

Restart ==
  /\ Spend("restarts") /\ ram # stored /\ ram' = stored
  /\ UNCHANGED <<host, stored, names, user, pc, plan, past>>

Next ==
  \/ \E s \in Scopes \ {"names"}, v \in Values : Edit(s, v)
  \/ Observe \/ Discard \/ Prepare \/ Cancel \/ Confirm
  \/ \E op \in plan.ops : Look(op) \/ LookHost(op)
  \/ WriteConfiguration \/ WriteNames \/ SaveHost \/ VerifyHost \/ Done
  \/ ForeignWrite \/ Restart

Spec == Init /\ [][Next]_vars

-----------------------------------------------------------------------------
(* A scope that a step reports as saved is where it belongs. *)
IsStored(s) ==
  wanted[s] # {} /\ wanted'[s] = {} /\ pc \in {"write", "verify"} =>
    CASE s = "host"  -> wanted[s] = {host.mapping}
      [] s = "names" -> wanted[s] = {names'.label}
      [] OTHER       -> wanted[s] = {stored'.values[s]}

(* What is reported as saved is stored: the Nano keeps it when it restarts, and
   the daemon has it, unless a later client has written. *)
SavedIsStored == [][\A s \in Scopes : IsStored(s)]_vars

(* A write never replaces what another client has written since the user reviewed
   the settings, whenever in the save that was. *)
NothingTrampled == ~trampled

(* What is set of a scope and not yet saved. *)
IsKept(s) ==
  \A v \in wanted[s] :
    Desired(draft, s) = v \/ \E op \in unconfirmed : op.scope = s /\ op.after = v

(* What the user has set is never lost: until it is saved or discarded it stays in
   the draft, or in the unconfirmed write that will be repeated. *)
EditsAreKept == \A s \in Scopes : IsKept(s)

(* A write that was sent and is not verified is never forgotten: it is kept as
   unconfirmed, and the next save writes it again, whatever is read meanwhile. *)
DoubtIsKept ==
  /\ pc = "editing" => written \subseteq ScopesOf(unconfirmed)
  /\ pc = "review"  => written \subseteq ScopesOf(plan.reviewed)

(* The daemon's configuration is written only when the Nano has all that was
   reviewed with it, unless another client has written since the last readback. *)
NanoFirst ==
  [][pc = "save" /\ pc' # pc /\ host' # host
       /\ ram.gen = plan.read.gen /\ names.gen = plan.read.labelGen
       => \A op \in OfNano(plan.reviewed) : ValueIn(Reading, op.scope) = op.after]_vars
=============================================================================
