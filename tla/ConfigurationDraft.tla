------------------------ MODULE ConfigurationDraft ------------------------
(***************************************************************************)
(* The pending edits of the utility (ConfigurationDraft), as operators on  *)
(* a record, one operator per method, and the pure part of a save          *)
(* (SaveCoordinator::prepare).                                             *)
(*                                                                         *)
(* One Nano and the mapping of its GPU.  A scope of the configuration has  *)
(* one value, which stands for all of its settings; the label that is      *)
(* stored in the Nano for a mapping is the mapping itself.  The tables of  *)
(* calibration, which are only compared, are left out.                     *)
(***************************************************************************)
EXTENDS Naturals, Sequences, FiniteSets, SequencesExt

CONSTANTS
  ConfigScopes,    (* Scopes with one generation: groups and supply.        *)
  Values           (* Of a scope; also of the mapping and of its label.     *)

ASSUME DraftAssumption == {"names", "host"} \cap ConfigScopes = {}

Scopes == ConfigScopes \cup {"names", "host"}

(* What the Nano answers: configuration and label, each with a generation; what
   the daemon answers: its mapping and the revision. *)
Snapshot(values, gen, label, labelGen) ==
  [values |-> values, gen |-> gen, label |-> label, labelGen |-> labelGen]
Host(mapping, revision) == [mapping |-> mapping, revision |-> revision]

FromSnapshot(s) == [baseline |-> s, latest |-> s, values |-> s.values, label |-> s.label]

NewDraft(host, snapshot) ==
  [hostBaseline |-> host, hostLatest |-> host, hostDesired |-> host,
   nano |-> FromSnapshot(snapshot)]

Desired(d, scope) ==
  CASE scope = "host"  -> d.hostDesired.mapping
    [] scope = "names" -> d.nano.label
    [] OTHER           -> d.nano.values[scope]

Edited(d, scope, value) ==
  CASE scope = "host"  -> [d EXCEPT !.hostDesired.mapping = value]
    [] scope = "names" -> [d EXCEPT !.nano.label = value]
    [] OTHER           -> [d EXCEPT !.nano.values[scope] = value]

ValueIn(snapshot, scope) ==
  IF scope = "names" THEN snapshot.label ELSE snapshot.values[scope]

(* hostDirty(), nanoDirty(), changes() *)
HostDirty(d)   == d.hostDesired # d.hostBaseline
NanoChanges(d) ==
  {s \in Scopes \ {"host"} : Desired(d, s) # ValueIn(d.nano.baseline, s)}
DirtyScopes(d) == NanoChanges(d) \cup {s \in {"host"} : HostDirty(d)}

(* observeHost(), observeNano() *)
ObserveHost(d, host) ==
  IF HostDirty(d) THEN [d EXCEPT !.hostLatest = host]
  ELSE [d EXCEPT !.hostBaseline = host, !.hostLatest = host, !.hostDesired = host]

ObserveNano(d, s) ==
  IF NanoChanges(d) # {} THEN [d EXCEPT !.nano.latest = s]
  ELSE [d EXCEPT !.nano = FromSnapshot(s)]

Settings(s) == <<s.values, s.gen>>
Label(s)    == <<s.label, s.labelGen>>

(* conflicts() *)
Conflicts(d) ==
  {s \in DirtyScopes(d) :
     CASE s = "host"  -> d.hostLatest # d.hostBaseline
       [] s = "names" -> Label(d.nano.latest) # Label(d.nano.baseline)
       [] OTHER       -> Settings(d.nano.latest) # Settings(d.nano.baseline)}

(* rebaseHost(), acceptHost() *)
RebaseHost(d, host) ==
  [d EXCEPT !.hostBaseline = host, !.hostLatest = host, !.hostDesired.revision = host.revision]
AcceptHost(d, host) ==
  [d EXCEPT !.hostBaseline = host, !.hostLatest = host, !.hostDesired = host]

AcceptNano_ForgetsFault(d, s, scope) == [d EXCEPT !.nano = FromSnapshot(s)]

(* acceptNano(): what is pending in the other scopes stays pending. *)
AcceptNano(d, s, scope) ==
  LET pending == NanoChanges(d) \ {scope}
  IN  [d EXCEPT !.nano =
         [FromSnapshot(s) EXCEPT
            !.values = [c \in ConfigScopes |-> IF c \in pending THEN d.nano.values[c] ELSE @[c]],
            !.label  = IF "names" \in pending THEN d.nano.label ELSE @]]

RebaseNano(d, s) == AcceptNano(d, s, "host")

DiscardAll(d) ==
  [d EXCEPT !.hostBaseline = d.hostLatest, !.hostDesired = d.hostLatest,
            !.nano = FromSnapshot(d.nano.latest)]

-----------------------------------------------------------------------------
(* An operation: a change of one scope, from before to after. *)
Operation(scope, before, after) == [scope |-> scope, before |-> before, after |-> after]

ScopesOf(ops) == {op.scope : op \in ops}
OfNano(ops)   == {op \in ops : op.scope # "host"}

(* retryCompatible(): since the uncertain writes nothing has changed but what they
   may have changed themselves. *)
RetryCompatible(before, fresh, retry) ==
  \A s \in Scopes \ {"host"} :
    \/ ValueIn(fresh, s) = ValueIn(before, s)
    \/ \E op \in retry : op.scope = s /\ ValueIn(fresh, s) = op.after

(* prepare(): the daemon's and the Nano's part; a read that fails, or that shows
   what is not compatible, blocks the Nano. *)
PrepareHost(d, host, retry) ==
  IF "host" \in ScopesOf(retry) THEN RebaseHost(d, host) ELSE ObserveHost(d, host)

HostRefused(d, host, retry) ==
  \/ retry = {} /\ NanoChanges(d) # {} /\ host # d.hostLatest
  \/ \E op \in retry : op.scope = "host" /\ host.mapping \notin {op.before, op.after}

Unblocked(d, fresh, retry) ==
  OfNano(retry) = {} \/ RetryCompatible(d.nano.baseline, fresh, retry)

PrepareNano(d, fresh, retry) ==
  LET read == IF OfNano(retry) # {} THEN RebaseNano(d, fresh) ELSE ObserveNano(d, fresh)
  IN  Edited(read, "names", d.hostDesired.mapping)

Operations_UnforcedFault(d, base, host, retry) ==
  {Operation(s, IF s = "host" THEN host.mapping ELSE ValueIn(base, s), Desired(d, s)) :
     s \in DirtyScopes(d)}

(* What will be written: what is dirty, and again what was not confirmed, even when
   it can be read back already. *)
Operations(d, base, host, retry) ==
  LET After(s) == IF s \in DirtyScopes(d) \/ s = "host" THEN Desired(d, s)
                  ELSE (CHOOSE op \in retry : op.scope = s).after
  IN  {Operation(s, IF s = "host" THEN host.mapping ELSE ValueIn(base, s), After(s)) :
         s \in DirtyScopes(d) \cup ScopesOf(retry)}

(* stage() *)
Staged(d, ops) ==
  LET Of(s) == (CHOOSE op \in ops : op.scope = s).after
  IN  [d EXCEPT !.nano.values = [c \in ConfigScopes |-> IF c \in ScopesOf(ops) THEN Of(c) ELSE @[c]],
                !.nano.label = IF "names" \in ScopesOf(ops) THEN Of("names") ELSE @]
=============================================================================
