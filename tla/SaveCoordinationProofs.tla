---------------------- MODULE SaveCoordinationProofs ----------------------
(***************************************************************************)
(* A save of the utility, for any scopes and values, any budgets of other  *)
(* clients, lost messages, failures and restarts, and any number of saves. *)
(***************************************************************************)
EXTENDS SaveCoordination, TLAPS

Hosts     == [mapping : Values, revision : Nat]
Settled   == [values : [ConfigScopes -> Values], gen : Nat]
Snapshots == [values : [ConfigScopes -> Values], gen : Nat, label : Values, labelGen : Nat]
NanoDrafts ==
  [baseline : Snapshots, latest : Snapshots, values : [ConfigScopes -> Values],
   label : Values]
Drafts ==
  [hostBaseline : Hosts, hostLatest : Hosts, hostDesired : Hosts, nano : NanoDrafts]
Changes == [scope : Scopes, before : Values, after : Values]
Plans ==
  [host : Hosts, reviewed : SUBSET Changes, ops : SUBSET Changes, blocked : BOOLEAN,
   read : Snapshots, op : [scope : Scopes \cup {"none"}, before : Values, after : Values]]
Budgets == [foreign : Nat, lost : Nat, broken : Nat, restarts : Nat]
Phases  == {"editing", "review", "execute", "write", "save", "verify"}

TypeOK ==
  /\ env \in Budgets
  /\ host \in Hosts /\ ram \in Settled /\ stored \in Settled
  /\ names \in [label : Values, gen : Nat]
  /\ draft \in Drafts /\ unconfirmed \in SUBSET Changes
  /\ pc \in Phases /\ plan \in Plans
  /\ pc \in {"write", "save", "verify"} => plan.op \in Changes
  /\ wanted \in [Scopes -> SUBSET Values] /\ written \in SUBSET Scopes
  /\ trampled \in BOOLEAN

-----------------------------------------------------------------------------
(* What the methods of the draft return. *)

LEMMA ValueTypes ==
  ASSUME NEW d \in Drafts, NEW s \in Scopes
  PROVE  /\ Desired(d, s) \in Values
         /\ \A x \in Snapshots : s # "host" => ValueIn(x, s) \in Values
<1>1. s # "host" /\ s # "names" => s \in ConfigScopes
  BY DEF Scopes
<1>2. /\ d.hostDesired \in Hosts /\ d.nano \in NanoDrafts
  BY DEF Drafts
<1>3. Desired(d, s) \in Values
  BY <1>1, <1>2 DEF Desired, Hosts, NanoDrafts
<1>4. ASSUME NEW x \in Snapshots, s # "host" PROVE ValueIn(x, s) \in Values
  BY <1>1, <1>4 DEF ValueIn, Snapshots
<1>5. QED
  BY <1>3, <1>4

LEMMA EditedType ==
  ASSUME NEW d \in Drafts, NEW s \in Scopes, NEW v \in Values
  PROVE  Edited(d, s, v) \in Drafts
<1>1. /\ d.hostDesired \in Hosts /\ d.nano \in NanoDrafts
  BY DEF Drafts
<1>2. CASE s = "host"
  <2>1. [d.hostDesired EXCEPT !.mapping = v] \in Hosts
    BY <1>1 DEF Hosts
  <2>2. QED
    BY <1>2, <2>1 DEF Edited, Drafts
<1>3. CASE s = "names"
  <2>1. [d.nano EXCEPT !.label = v] \in NanoDrafts
    BY <1>1 DEF NanoDrafts
  <2>2. QED
    BY <1>3, <2>1 DEF Edited, Drafts
<1>4. CASE s # "host" /\ s # "names"
  <2>1. s \in ConfigScopes
    BY <1>4 DEF Scopes
  <2>2. [d.nano EXCEPT !.values[s] = v] \in NanoDrafts
    BY <1>1, <2>1 DEF NanoDrafts
  <2>3. Edited(d, s, v) = [d EXCEPT !.nano = [d.nano EXCEPT !.values[s] = v]]
    BY <1>1, <1>4 DEF Edited, Drafts
  <2>4. QED
    BY <2>2, <2>3 DEF Drafts
<1>5. QED
  BY <1>2, <1>3, <1>4

LEMMA HostReadType ==
  ASSUME NEW d \in Drafts, NEW h \in Hosts
  PROVE  /\ ObserveHost(d, h) \in Drafts /\ RebaseHost(d, h) \in Drafts
         /\ AcceptHost(d, h) \in Drafts
<1>1. [d.hostDesired EXCEPT !.revision = h.revision] \in Hosts
  BY DEF Drafts, Hosts
<1>2. RebaseHost(d, h) \in Drafts
  BY <1>1 DEF RebaseHost, Drafts
<1>3. ObserveHost(d, h) \in Drafts
  BY DEF ObserveHost, Drafts
<1>4. AcceptHost(d, h) \in Drafts
  BY DEF AcceptHost, Drafts
<1>5. QED
  BY <1>2, <1>3, <1>4

LEMMA FromSnapshotType ==
  ASSUME NEW x \in Snapshots
  PROVE  FromSnapshot(x) \in NanoDrafts
BY DEF FromSnapshot, Snapshots, NanoDrafts

LEMMA NanoReadType ==
  ASSUME NEW d \in Drafts, NEW x \in Snapshots
  PROVE  /\ ObserveNano(d, x) \in Drafts
         /\ \A s : AcceptNano(d, x, s) \in Drafts
         /\ RebaseNano(d, x) \in Drafts
<1>1. d.nano \in NanoDrafts /\ FromSnapshot(x) \in NanoDrafts
  BY FromSnapshotType DEF Drafts
<1>2. [d.nano EXCEPT !.latest = x] \in NanoDrafts
  BY <1>1 DEF NanoDrafts
<1>3. ObserveNano(d, x) \in Drafts
  BY <1>1, <1>2 DEF ObserveNano, Drafts
<1>4. ASSUME NEW s PROVE AcceptNano(d, x, s) \in Drafts
  <2> DEFINE pending == NanoChanges(d) \ {s}
             n == FromSnapshot(x)
             kept == [n EXCEPT
                        !.values = [c \in ConfigScopes |->
                                      IF c \in pending THEN d.nano.values[c] ELSE @[c]],
                        !.label  = IF "names" \in pending THEN d.nano.label ELSE @]
  <2> HIDE DEF pending, n
  <2>1. n \in NanoDrafts
    BY <1>1 DEF n
  <2>2. n.values \in [ConfigScopes -> Values] /\ n.label \in Values
        /\ d.nano.values \in [ConfigScopes -> Values] /\ d.nano.label \in Values
    BY <1>1, <2>1 DEF NanoDrafts
  <2>3. [c \in ConfigScopes |-> IF c \in pending THEN d.nano.values[c] ELSE n.values[c]]
          \in [ConfigScopes -> Values]
    BY <2>2
  <2>4. kept \in NanoDrafts
    BY <2>1, <2>2, <2>3 DEF NanoDrafts
  <2>5. AcceptNano(d, x, s) = [d EXCEPT !.nano = kept]
    BY DEF AcceptNano, n, pending
  <2> HIDE DEF kept
  <2>6. QED
    BY <2>4, <2>5 DEF Drafts
<1>5. QED
  BY <1>3, <1>4 DEF RebaseNano

LEMMA PreparedType ==
  ASSUME NEW d \in Drafts, NEW h \in Hosts, NEW x \in Snapshots, NEW retry
  PROVE  /\ PrepareHost(d, h, retry) \in Drafts /\ PrepareNano(d, x, retry) \in Drafts
         /\ DiscardAll(d) \in Drafts
<1>1. PrepareHost(d, h, retry) \in Drafts
  BY HostReadType DEF PrepareHost
<1>2. PrepareNano(d, x, retry) \in Drafts
  <2> DEFINE read == IF OfNano(retry) # {} THEN RebaseNano(d, x) ELSE ObserveNano(d, x)
  <2>1. read \in Drafts
    BY NanoReadType
  <2>2. d.hostDesired.mapping \in Values /\ "names" \in Scopes
    BY DEF Drafts, Hosts, Scopes
  <2> HIDE DEF read
  <2>3. Edited(read, "names", d.hostDesired.mapping) \in Drafts
    BY <2>1, <2>2, EditedType
  <2>4. QED
    BY <2>3 DEF PrepareNano, read
<1>3. DiscardAll(d) \in Drafts
  <2>1. d.hostLatest \in Hosts /\ d.nano.latest \in Snapshots
    BY DEF Drafts, NanoDrafts
  <2>2. FromSnapshot(d.nano.latest) \in NanoDrafts
    BY <2>1, FromSnapshotType
  <2>3. QED
    BY <2>1, <2>2 DEF DiscardAll, Drafts
<1>4. QED
  BY <1>1, <1>2, <1>3

(* One operation for each scope that is dirty or in doubt. *)
LEMMA OperationsType ==
  ASSUME NEW d \in Drafts, NEW base \in Snapshots, NEW h \in Hosts,
         NEW retry \in SUBSET Changes
  PROVE  LET ops == Operations(d, base, h, retry)
         IN  /\ ops \in SUBSET Changes
             /\ ScopesOf(ops) = DirtyScopes(d) \cup ScopesOf(retry)
             /\ \A a, b \in ops : a.scope = b.scope => a = b
<1> DEFINE After(s) == IF s \in DirtyScopes(d) \/ s = "host" THEN Desired(d, s)
                       ELSE (CHOOSE op \in retry : op.scope = s).after
           Before(s) == IF s = "host" THEN h.mapping ELSE ValueIn(base, s)
           scopes == DirtyScopes(d) \cup ScopesOf(retry)
           ops == {Operation(s, Before(s), After(s)) : s \in scopes}
<1>1. scopes \subseteq Scopes
  <2>1. DirtyScopes(d) \subseteq Scopes
    BY DEF DirtyScopes, NanoChanges, Scopes
  <2>2. ScopesOf(retry) \subseteq Scopes
    BY DEF ScopesOf, Changes
  <2>3. QED
    BY <2>1, <2>2
<1>2. ASSUME NEW s \in scopes PROVE After(s) \in Values /\ Before(s) \in Values
  <2>1. s \in Scopes
    BY <1>1
  <2>2. Desired(d, s) \in Values /\ Before(s) \in Values
    BY <2>1, ValueTypes DEF Hosts
  <2>3. CASE s \in DirtyScopes(d) \/ s = "host"
    BY <2>2, <2>3
  <2>4. CASE ~(s \in DirtyScopes(d) \/ s = "host")
    <3>1. \E op \in retry : op.scope = s
      BY <2>4 DEF ScopesOf
    <3>2. (CHOOSE op \in retry : op.scope = s) \in retry
      BY <3>1
    <3>3. (CHOOSE op \in retry : op.scope = s).after \in Values
      BY <3>2 DEF Changes
    <3>4. QED
      BY <2>2, <2>4, <3>3
  <2>5. QED
    BY <2>3, <2>4
<1>3. Operations(d, base, h, retry) = ops
  BY DEF Operations
<1> HIDE DEF After, Before, scopes
<1>4. ops \in SUBSET Changes
  BY <1>1, <1>2 DEF Operation, Changes
<1>5. ScopesOf(ops) = scopes
  <2>1. \A op \in ops : op.scope \in scopes
    BY DEF Operation
  <2>2. \A s \in scopes : Operation(s, Before(s), After(s)).scope = s
    BY DEF Operation
  <2>3. \A s \in scopes : \E op \in ops : op.scope = s
    BY <2>2
  <2>4. QED
    BY <2>1, <2>3 DEF ScopesOf
<1>6. \A a, b \in ops : a.scope = b.scope => a = b
  BY DEF Operation
<1>7. QED
  BY <1>3, <1>4, <1>5, <1>6 DEF scopes

LEMMA StagedType ==
  ASSUME NEW d \in Drafts, NEW ops \in SUBSET Changes
  PROVE  Staged(d, ops) \in Drafts
<1> DEFINE Of(s) == (CHOOSE op \in ops : op.scope = s).after
           vals == [c \in ConfigScopes |->
                      IF c \in ScopesOf(ops) THEN Of(c) ELSE d.nano.values[c]]
           lab == IF "names" \in ScopesOf(ops) THEN Of("names") ELSE d.nano.label
           n == [d.nano EXCEPT !.values = vals, !.label = lab]
<1>1. ASSUME NEW s \in ScopesOf(ops) PROVE Of(s) \in Values
  <2>1. \E op \in ops : op.scope = s
    BY DEF ScopesOf
  <2>2. (CHOOSE op \in ops : op.scope = s) \in ops
    BY <2>1
  <2>3. QED
    BY <2>2 DEF Changes
<1>2. d.nano \in NanoDrafts
  BY DEF Drafts
<1> HIDE DEF Of
<1>3. vals \in [ConfigScopes -> Values] /\ lab \in Values
  BY <1>1, <1>2 DEF NanoDrafts
<1> HIDE DEF vals, lab
<1>4. n \in NanoDrafts
  BY <1>2, <1>3 DEF NanoDrafts
<1>5. Staged(d, ops) =
        [d EXCEPT
           !.nano.values = [c \in ConfigScopes |-> IF c \in ScopesOf(ops) THEN Of(c) ELSE @[c]],
           !.nano.label = IF "names" \in ScopesOf(ops) THEN Of("names") ELSE @]
  BY DEF Staged, Of
<1>6. Staged(d, ops) = [d EXCEPT !.nano = n]
  BY <1>2, <1>5 DEF Drafts, NanoDrafts, vals, lab
<1> HIDE DEF n
<1>7. QED
  BY <1>4, <1>6 DEF Drafts

-----------------------------------------------------------------------------
(* Types. *)

LEMMA SpendType ==
  ASSUME env \in Budgets, NEW b \in {"foreign", "lost", "broken", "restarts"}, Spend(b)
  PROVE  /\ env' \in Budgets
         /\ env.foreign = 0 => env'.foreign = 0
         /\ env.restarts = 0 => env'.restarts = 0
         /\ env.broken = 0 => env'.broken = 0 /\ b # "broken"
         /\ b # "foreign" => env'.foreign = env.foreign
         /\ b = "foreign" => env.foreign > 0
         /\ b = "restarts" => env.restarts > 0
<1>1. env' = [env EXCEPT ![b] = @ - 1] /\ env[b] > 0
  BY DEF Spend
<1>2. CASE b = "foreign"
  <2>1. env' = [env EXCEPT !.foreign = @ - 1] /\ env.foreign > 0
    BY <1>1, <1>2
  <2>2. QED
    BY <1>2, <2>1 DEF Budgets
<1>3. CASE b = "lost"
  <2>1. env' = [env EXCEPT !.lost = @ - 1] /\ env.lost > 0
    BY <1>1, <1>3
  <2>2. QED
    BY <1>3, <2>1 DEF Budgets
<1>4. CASE b = "broken"
  <2>1. env' = [env EXCEPT !.broken = @ - 1] /\ env.broken > 0
    BY <1>1, <1>4
  <2>2. QED
    BY <1>4, <2>1 DEF Budgets
<1>5. CASE b = "restarts"
  <2>1. env' = [env EXCEPT !.restarts = @ - 1] /\ env.restarts > 0
    BY <1>1, <1>5
  <2>2. QED
    BY <1>5, <2>1 DEF Budgets
<1>6. QED
  BY <1>2, <1>3, <1>4, <1>5

LEMMA NoPlanType == NoPlan \in Plans
BY CoordinationAssumption DEF NoPlan, Host, Snapshot, Operation, Plans, Hosts, Snapshots

LEMMA ReadingType ==
  ASSUME TypeOK
  PROVE  Reading \in Snapshots
BY DEF TypeOK, Reading, Snapshot, Snapshots, Settled

LEMMA InitType == Init => TypeOK
<1> SUFFICES ASSUME Init PROVE TypeOK
  OBVIOUS
<1>1. /\ env \in Budgets /\ host \in Hosts /\ ram \in Settled /\ stored \in Settled
      /\ names \in [label : Values, gen : Nat]
  BY CoordinationAssumption DEF Init, Budgets, Host, Hosts, Settled
<1>2. Reading \in Snapshots
  BY <1>1 DEF Reading, Snapshot, Snapshots, Settled
<1>3. draft \in Drafts
  BY <1>1, <1>2, FromSnapshotType DEF Init, NewDraft, Drafts
<1>4. QED
  BY <1>1, <1>3, NoPlanType DEF Init, TypeOK, Phases

(* The ends of a write. *)
LEMMA SavedType ==
  ASSUME TypeOK, NEW op \in Changes, NEW read \in Snapshots, Saved(op, read)
  PROVE  /\ draft' \in Drafts /\ unconfirmed' \in SUBSET Changes /\ plan' \in Plans
         /\ wanted' \in [Scopes -> SUBSET Values] /\ written' \in SUBSET Scopes
<1>1. draft' \in Drafts
  BY NanoReadType DEF Saved, TypeOK
<1>2. plan' \in Plans
  BY DEF Saved, TypeOK, Plans
<1>3. QED
  BY <1>1, <1>2 DEF Saved, TypeOK, Verified

LEMMA FailedType ==
  ASSUME TypeOK, NEW op \in Changes, Failed(op)
  PROVE  /\ draft' \in Drafts /\ unconfirmed' \in SUBSET Changes /\ plan' \in Plans
         /\ wanted' \in [Scopes -> SUBSET Values] /\ written' \in SUBSET Scopes
<1>1. plan' \in Plans
  BY DEF Failed, TypeOK, Plans
<1>2. op.scope \in Scopes
  BY DEF Changes
<1>3. QED
  BY <1>1, <1>2 DEF Failed, TypeOK, Verified, Uncertain

LEMMA PrepareOutcome ==
  ASSUME TypeOK, Prepare
  PROVE  /\ pc = "editing" /\ env' \in Budgets /\ draft' \in Drafts
         /\ UNCHANGED <<host, nano, unconfirmed, past>>
         /\ env' = env \/ Spend("lost")
         /\ \E ops \in SUBSET Changes, base \in Snapshots, open \in BOOLEAN :
              /\ ScopesOf(unconfirmed) \subseteq ScopesOf(ops)
              /\ \A a, b \in ops : a.scope = b.scope => a = b
              /\ open => base = Reading
              /\ plan' = IF ops = {} THEN NoPlan ELSE
                         [NoPlan EXCEPT !.host = host, !.reviewed = ops, !.ops = ops,
                                        !.blocked = ~open, !.read = base]
              /\ pc' = (IF ops = {} THEN "editing" ELSE "review")
<1> PICK readable \in BOOLEAN :
       LET read    == PrepareHost(draft, host, unconfirmed)
           open    == readable /\ Unblocked(read, Reading, unconfirmed)
           ready   == IF open THEN PrepareNano(read, Reading, unconfirmed) ELSE read
           base    == IF open THEN Reading ELSE ready.nano.baseline
           ops     == Operations(ready, base, host, unconfirmed)
       IN  /\ IF readable THEN UNCHANGED env ELSE Spend("lost")
           /\ draft' = Staged(ready, ops)
           /\ plan' = IF ops = {} THEN NoPlan ELSE
                      [NoPlan EXCEPT !.host = host, !.reviewed = ops, !.ops = ops,
                                     !.blocked = ~open, !.read = base]
           /\ pc' = (IF ops = {} THEN "editing" ELSE "review")
  BY DEF Prepare
<1> DEFINE read  == PrepareHost(draft, host, unconfirmed)
           open  == readable /\ Unblocked(read, Reading, unconfirmed)
           ready == IF open THEN PrepareNano(read, Reading, unconfirmed) ELSE read
           base  == IF open THEN Reading ELSE ready.nano.baseline
           ops   == Operations(ready, base, host, unconfirmed)
<1>1. pc = "editing" /\ UNCHANGED <<host, nano, unconfirmed, past>>
  BY DEF Prepare
<1>2. env' \in Budgets /\ (env' = env \/ Spend("lost"))
  BY SpendType DEF TypeOK
<1>3. read \in Drafts /\ PrepareNano(read, Reading, unconfirmed) \in Drafts
  <2>1. read \in Drafts
    BY ReadingType, PreparedType DEF TypeOK
  <2> HIDE DEF read
  <2>2. PrepareNano(read, Reading, unconfirmed) \in Drafts
    BY <2>1, ReadingType, PreparedType DEF TypeOK
  <2>3. QED
    BY <2>1, <2>2
<1>4. open \in BOOLEAN
  BY DEF Unblocked, RetryCompatible
<1> HIDE DEF read, open
<1>5. ready \in Drafts
  BY <1>3
<1>6. ready.nano.baseline \in Snapshots
  BY <1>5 DEF Drafts, NanoDrafts
<1>7. base \in Snapshots /\ (open => base = Reading)
  BY <1>6, ReadingType
<1> HIDE DEF ready, base
<1>8. /\ ops \in SUBSET Changes /\ ScopesOf(unconfirmed) \subseteq ScopesOf(ops)
      /\ \A a, b \in ops : a.scope = b.scope => a = b
  BY <1>5, <1>7, OperationsType DEF TypeOK
<1> HIDE DEF ops
<1>9. draft' = Staged(ready, ops)
      /\ plan' = (IF ops = {} THEN NoPlan ELSE
                  [NoPlan EXCEPT !.host = host, !.reviewed = ops, !.ops = ops,
                                 !.blocked = ~open, !.read = base])
      /\ pc' = (IF ops = {} THEN "editing" ELSE "review")
  BY DEF ops, base, ready, open, read
<1>10. draft' \in Drafts
  BY <1>5, <1>8, <1>9, StagedType
<1>11. QED
  BY <1>1, <1>2, <1>4, <1>7, <1>8, <1>9, <1>10

LEMMA LookOutcome ==
  ASSUME TypeOK, NEW op \in plan.ops, Look(op)
  PROVE  /\ op \in OfNano(plan.ops) /\ ~plan.blocked /\ pc = "execute" /\ env' \in Budgets
         /\ env' = env \/ Spend("lost")
         /\ UNCHANGED <<host, nano, user, past>>
         /\ \/ /\ Reading = plan.read /\ pc' = "write"
               /\ plan' = [plan EXCEPT !.op = op] /\ plan' \in Plans /\ op \in Changes
            \/ /\ pc' = pc /\ plan' = [plan EXCEPT !.blocked = TRUE] /\ plan' \in Plans
<1>1. op \in Changes /\ plan \in Plans
  BY DEF TypeOK, Plans
<1>2. [plan EXCEPT !.op = op] \in Plans
  BY <1>1 DEF Plans, Changes
<1>3. [plan EXCEPT !.blocked = TRUE] \in Plans
  BY <1>1 DEF Plans
<1>4. env' = env \/ Spend("lost")
  BY DEF Look
<1>5. env' \in Budgets
  BY <1>4, SpendType DEF TypeOK
<1>6. QED
  BY <1>1, <1>2, <1>3, <1>4, <1>5 DEF Look

LEMMA LookHostSpends ==
  ASSUME TypeOK, NEW op \in plan.ops, LookHost(op)
  PROVE  env' \in Budgets /\ env'.foreign = env.foreign /\ (env' = env \/ Spend("lost"))
<1>1. env' = env \/ Spend("lost")
  BY DEF LookHost
<1>2. QED
  BY <1>1, SpendType DEF TypeOK

(* The Nano's part of a write: nothing, or what was asked for under the generation
   that was read, whoever is told. *)
LEMMA WriteConfigurationOutcome ==
  ASSUME TypeOK, WriteConfiguration
  PROVE  LET op   == plan.op
             next == [values |-> [ram.values EXCEPT ![op.scope] = op.after], gen |-> ram.gen + 1]
         IN  /\ pc = "write" /\ op \in Changes /\ op.scope \in ConfigScopes
             /\ pc' = "execute" /\ UNCHANGED <<host, names>>
             /\ next \in Settled /\ env' \in Budgets
             /\ env' = env \/ Spend("lost") \/ Spend("broken")
             /\ \/ UNCHANGED <<nano, trampled>> /\ Failed(op)
                \/ /\ ram.gen = plan.read.gen /\ ram' = next
                   /\ trampled' = (trampled \/ ram.values # plan.read.values)
                   /\ \/ /\ stored' = next /\ Label(Reading) = Label(plan.read)
                         /\ Saved(op, Snapshot(next.values, next.gen, names.label, names.gen))
                      \/ /\ stored' = next \/ (stored' = stored /\ Spend("broken"))
                         /\ Failed(op)
<1> DEFINE op   == plan.op
           next == [values |-> [ram.values EXCEPT ![op.scope] = op.after], gen |-> ram.gen + 1]
<1>1. pc = "write" /\ op \in Changes /\ op.scope \in ConfigScopes /\ pc' = "execute"
      /\ UNCHANGED host
  BY DEF WriteConfiguration, TypeOK
<1>2. next \in Settled
  BY <1>1 DEF TypeOK, Settled, Changes
<1> HIDE DEF next
<1>3. \/ UNCHANGED <<env, nano, trampled>> /\ Failed(op)
      \/ Spend("lost") /\ UNCHANGED <<nano, trampled>> /\ Failed(op)
      \/ \E isStored, isAnswered \in BOOLEAN :
           /\ ram.gen = plan.read.gen
           /\ IF ~isStored THEN Spend("broken")
              ELSE IF ~isAnswered THEN Spend("lost") ELSE UNCHANGED env
           /\ ram' = next /\ stored' = (IF isStored THEN next ELSE stored)
           /\ trampled' = (trampled \/ ram.values # plan.read.values)
           /\ IF (isStored /\ isAnswered) /\ Label(Reading) = Label(plan.read)
                THEN Saved(op, Snapshot(next.values, next.gen, names.label, names.gen))
                ELSE Failed(op)
           /\ UNCHANGED names
  BY DEF WriteConfiguration, next, AsReviewed, Acknowledged
<1>4. env' = env \/ Spend("lost") \/ Spend("broken")
  BY <1>3
<1>5. env' \in Budgets
  BY <1>4, SpendType DEF TypeOK
<1>6. \/ UNCHANGED <<nano, trampled>> /\ Failed(op)
      \/ /\ ram.gen = plan.read.gen /\ ram' = next /\ UNCHANGED names
         /\ trampled' = (trampled \/ ram.values # plan.read.values)
         /\ \/ /\ stored' = next /\ Label(Reading) = Label(plan.read)
               /\ Saved(op, Snapshot(next.values, next.gen, names.label, names.gen))
            \/ /\ stored' = next \/ (stored' = stored /\ Spend("broken"))
               /\ Failed(op)
  <2>1. CASE UNCHANGED <<nano, trampled>> /\ Failed(op)
    BY <2>1
  <2>2. ASSUME NEW isStored \in BOOLEAN, NEW isAnswered \in BOOLEAN,
               ram.gen = plan.read.gen, UNCHANGED names,
               IF ~isStored THEN Spend("broken")
               ELSE IF ~isAnswered THEN Spend("lost") ELSE UNCHANGED env,
               ram' = next, stored' = (IF isStored THEN next ELSE stored),
               trampled' = (trampled \/ ram.values # plan.read.values),
               IF (isStored /\ isAnswered) /\ Label(Reading) = Label(plan.read)
                 THEN Saved(op, Snapshot(next.values, next.gen, names.label, names.gen))
                 ELSE Failed(op)
        PROVE  <1>6!2
    <3>1. CASE isStored
      BY <2>2, <3>1
    <3>2. CASE ~isStored
      BY <2>2, <3>2
    <3>3. QED
      BY <3>1, <3>2
  <2>3. QED
    BY <1>3, <2>1, <2>2
<1>7. UNCHANGED names
  BY <1>6 DEF nano
<1>8. QED
  BY <1>1, <1>2, <1>4, <1>5, <1>6, <1>7 DEF next

LEMMA WriteNamesOutcome ==
  ASSUME TypeOK, WriteNames
  PROVE  LET op   == plan.op
             next == IF names.label = op.after THEN names
                     ELSE [label |-> op.after, gen |-> names.gen + 1]
         IN  /\ pc = "write" /\ op \in Changes /\ op.scope = "names"
             /\ pc' = "execute" /\ UNCHANGED <<host, ram, stored>>
             /\ next \in [label : Values, gen : Nat] /\ env' \in Budgets
             /\ env' = env \/ Spend("lost") \/ Spend("broken")
             /\ \/ UNCHANGED <<names, trampled>> /\ Failed(op)
                \/ /\ names.gen = plan.read.labelGen /\ names' = next
                   /\ trampled' = (trampled \/ names.label # plan.read.label)
                   /\ \/ /\ Settings(Reading) = Settings(plan.read)
                         /\ Saved(op, Snapshot(ram.values, ram.gen, next.label, next.gen))
                      \/ Failed(op)
<1> DEFINE op   == plan.op
           next == IF names.label = op.after THEN names
                   ELSE [label |-> op.after, gen |-> names.gen + 1]
<1>1. pc = "write" /\ op \in Changes /\ op.scope = "names" /\ pc' = "execute"
      /\ UNCHANGED <<host, ram, stored>>
  BY DEF WriteNames, TypeOK
<1>2. next \in [label : Values, gen : Nat]
  BY <1>1 DEF TypeOK, Changes
<1> HIDE DEF next
<1>3. \/ UNCHANGED <<env, names, trampled>> /\ Failed(op)
      \/ Spend("lost") /\ UNCHANGED <<names, trampled>> /\ Failed(op)
      \/ Spend("broken") /\ UNCHANGED <<names, trampled>> /\ Failed(op)
      \/ \E isAnswered \in BOOLEAN :
           /\ names.gen = plan.read.labelGen
           /\ IF isAnswered THEN UNCHANGED env ELSE Spend("lost")
           /\ names' = next
           /\ trampled' = (trampled \/ names.label # plan.read.label)
           /\ IF isAnswered /\ Settings(Reading) = Settings(plan.read)
                THEN Saved(op, Snapshot(ram.values, ram.gen, next.label, next.gen))
                ELSE Failed(op)
  BY DEF WriteNames, next
<1>4. env' = env \/ Spend("lost") \/ Spend("broken")
  BY <1>3
<1>5. env' \in Budgets
  BY <1>4, SpendType DEF TypeOK
<1>6. QED
  BY <1>1, <1>2, <1>3, <1>4, <1>5 DEF next

LEMMA SaveHostOutcome ==
  ASSUME TypeOK, SaveHost
  PROVE  LET op   == plan.op
             next == Host(op.after, host.revision + 1)
         IN  /\ pc = "save" /\ op \in Changes /\ UNCHANGED nano
             /\ next \in Hosts /\ env' \in Budgets
             /\ env' = env \/ Spend("lost") \/ Spend("broken")
             /\ \/ UNCHANGED <<host, trampled>> /\ Failed(op) /\ pc' = "execute"
                \/ /\ host.revision = plan.host.revision /\ host' = next
                   /\ trampled' = (trampled \/ host # plan.host)
                   /\ \/ /\ pc' = "verify" /\ UNCHANGED <<user, plan, wanted>>
                         /\ written' = written \cup {"host"}
                      \/ Failed(op) /\ pc' = "execute"
<1>1. pc = "save" /\ plan.op \in Changes /\ UNCHANGED nano
  BY DEF SaveHost, TypeOK
<1>2. Host(plan.op.after, host.revision + 1) \in Hosts
  BY <1>1 DEF TypeOK, Changes, Host, Hosts
<1>3. env' = env \/ Spend("lost") \/ Spend("broken")
  BY DEF SaveHost
<1>4. env' \in Budgets
  BY <1>3, SpendType DEF TypeOK
<1>5. QED
  BY <1>1, <1>2, <1>3, <1>4 DEF SaveHost

LEMMA StepType ==
  ASSUME TypeOK, [Next]_vars
  PROVE  TypeOK'
<1> USE DEF Phases
<1>1. Reading \in Snapshots /\ plan \in Plans
  BY ReadingType DEF TypeOK
<1>2. ASSUME NEW s \in Scopes \ {"names"}, NEW v \in Values, Edit(s, v) PROVE TypeOK'
  <2>1. draft' \in Drafts
    BY <1>2, EditedType DEF Edit, TypeOK
  <2>2. QED
    BY <1>2, <2>1 DEF Edit, TypeOK, nano
<1>3. CASE Observe
  <2>1. ObserveHost(draft, host) \in Drafts
    BY HostReadType DEF TypeOK
  <2>2. draft' \in Drafts
    BY <1>1, <1>3, <2>1, NanoReadType DEF Observe
  <2>3. QED
    BY <1>3, <2>2 DEF Observe, TypeOK, nano, past
<1>4. CASE Discard
  <2>1. draft' \in Drafts
    BY <1>1, <1>4, PreparedType DEF Discard, TypeOK
  <2>2. QED
    BY <1>4, <2>1 DEF Discard, TypeOK, nano
<1>5. CASE Prepare
  <2>1. PICK ops \in SUBSET Changes, base \in Snapshots, open \in BOOLEAN :
          /\ plan' = IF ops = {} THEN NoPlan ELSE
                     [NoPlan EXCEPT !.host = host, !.reviewed = ops, !.ops = ops,
                                    !.blocked = ~open, !.read = base]
          /\ pc' = (IF ops = {} THEN "editing" ELSE "review")
    BY <1>5, PrepareOutcome
  <2>2. plan' \in Plans
    BY <2>1, NoPlanType DEF Plans, TypeOK
  <2>3. QED
    BY <1>5, <2>1, <2>2, PrepareOutcome DEF TypeOK, nano, past
<1>6. CASE Cancel \/ Confirm \/ Done
  BY <1>6, NoPlanType DEF Cancel, Confirm, Done, TypeOK, nano, user, past
<1>7. ASSUME NEW op \in plan.ops, Look(op) PROVE TypeOK'
  <2>1. /\ env' \in Budgets /\ plan' \in Plans /\ pc = "execute"
        /\ UNCHANGED <<host, nano, user, past>>
    BY <1>7, LookOutcome
  <2>2. \/ pc' = "write" /\ plan'.op \in Changes
        \/ pc' = "execute"
    BY <1>1, <1>7, LookOutcome DEF Plans
  <2>3. QED
    BY <2>1, <2>2 DEF TypeOK, nano, user, past
<1>8. ASSUME NEW op \in plan.ops, LookHost(op) PROVE TypeOK'
  <2>1. op \in Changes
    BY <1>1 DEF Plans
  <2>2. [plan EXCEPT !.op = op] \in Plans /\ [plan EXCEPT !.ops = {}] \in Plans
        /\ [plan EXCEPT !.op = op].op = op
    BY <1>1, <2>1 DEF Plans, Changes
  <2>3. env' \in Budgets
    BY <1>8, LookHostSpends
  <2>4. QED
    BY <1>8, <2>1, <2>2, <2>3 DEF LookHost, TypeOK, nano, user, past
<1>9. CASE WriteConfiguration
  <2> DEFINE op   == plan.op
             next == [values |-> [ram.values EXCEPT ![op.scope] = op.after],
                      gen |-> ram.gen + 1]
             read == Snapshot(next.values, next.gen, names.label, names.gen)
  <2>1. /\ op \in Changes /\ pc' = "execute" /\ UNCHANGED <<host, names>>
        /\ next \in Settled /\ env' \in Budgets
        /\ ram' \in Settled /\ stored' \in Settled /\ trampled' \in BOOLEAN
        /\ Failed(op) \/ Saved(op, read)
    BY <1>9, WriteConfigurationOutcome DEF TypeOK, nano
  <2> HIDE DEF next
  <2>2. read \in Snapshots
    BY <2>1 DEF TypeOK, Snapshot, Snapshots, Settled
  <2>3. QED
    BY <2>1, <2>2, SavedType, FailedType DEF TypeOK
<1>10. CASE WriteNames
  <2> DEFINE op   == plan.op
             next == IF names.label = op.after THEN names
                     ELSE [label |-> op.after, gen |-> names.gen + 1]
             read == Snapshot(ram.values, ram.gen, next.label, next.gen)
  <2>1. /\ op \in Changes /\ pc' = "execute" /\ UNCHANGED <<host, ram, stored>>
        /\ next \in [label : Values, gen : Nat] /\ env' \in Budgets
        /\ names' \in [label : Values, gen : Nat] /\ trampled' \in BOOLEAN
        /\ Failed(op) \/ Saved(op, read)
    BY <1>10, WriteNamesOutcome DEF TypeOK
  <2> HIDE DEF next
  <2>2. read \in Snapshots
    BY <2>1 DEF TypeOK, Snapshot, Snapshots, Settled
  <2>3. QED
    BY <2>1, <2>2, SavedType, FailedType DEF TypeOK
<1>11. CASE SaveHost
  <2>1. /\ plan.op \in Changes /\ UNCHANGED nano /\ env' \in Budgets
        /\ host' \in Hosts /\ trampled' \in BOOLEAN
        /\ \/ Failed(plan.op) /\ pc' = "execute"
           \/ /\ pc' = "verify" /\ UNCHANGED <<user, plan, wanted>>
              /\ written' = written \cup {"host"}
    BY <1>11, SaveHostOutcome DEF TypeOK
  <2>2. QED
    BY <2>1, FailedType DEF TypeOK, nano, user, Scopes
<1>12. CASE VerifyHost
  <2>1. plan.op \in Changes
    BY <1>12 DEF VerifyHost, TypeOK
  <2>2. CASE Failed(plan.op)
    BY <1>12, <2>1, <2>2, FailedType DEF VerifyHost, TypeOK, nano
  <2>3. CASE ~Failed(plan.op)
    <3>1. /\ draft' = AcceptHost(draft, host) /\ unconfirmed' = Verified("host")
          /\ plan' = [plan EXCEPT !.ops = {}]
          /\ wanted' = [wanted EXCEPT !["host"] = {}] /\ written' = written \ {"host"}
          /\ pc' = "execute" /\ UNCHANGED <<env, host, nano, trampled>>
      BY <1>12, <2>3 DEF VerifyHost
    <3>2. draft' \in Drafts
      BY <3>1, HostReadType DEF TypeOK
    <3>3. plan' \in Plans
      BY <1>1, <3>1 DEF Plans
    <3>4. QED
      BY <3>1, <3>2, <3>3 DEF TypeOK, Verified, nano
  <2>4. QED
    BY <2>2, <2>3
<1>13. CASE ForeignWrite
  <2>1. env' \in Budgets
    BY <1>13, SpendType DEF ForeignWrite, TypeOK
  <2>2. /\ host' \in Hosts /\ ram' \in Settled /\ stored' \in Settled
        /\ names' \in [label : Values, gen : Nat]
    BY <1>13 DEF ForeignWrite, TypeOK, nano, Settled, Host, Hosts
  <2>3. QED
    BY <1>13, <2>1, <2>2 DEF ForeignWrite, TypeOK, user, past
<1>14. CASE Restart
  <2>1. env' \in Budgets
    BY <1>14, SpendType DEF Restart, TypeOK
  <2>2. QED
    BY <1>14, <2>1 DEF Restart, TypeOK, user, past
<1>15. CASE UNCHANGED vars
  BY <1>15 DEF vars, TypeOK
<1>16. QED
  BY <1>2, <1>3, <1>4, <1>5, <1>6, <1>7, <1>8, <1>9, <1>10, <1>11, <1>12, <1>13, <1>14,
     <1>15 DEF Next

(* Every variable keeps its type: in particular a change that is reviewed or in
   doubt is of a scope that exists, with values of that scope. *)
THEOREM TypeCorrect == Spec => []TypeOK
<1>1. Init => TypeOK
  BY InitType
<1>2. TypeOK /\ [Next]_vars => TypeOK'
  BY StepType
<1>3. QED
  BY <1>1, <1>2, PTL DEF Spec

-----------------------------------------------------------------------------
(* Writes in doubt. *)

(* What was sent and is not verified is among the unconfirmed writes, except while
   the daemon's own write is read back; what is to be written again is all of
   these. *)
Doubted ==
  /\ written \ (IF pc = "verify" THEN {"host"} ELSE {}) \subseteq ScopesOf(unconfirmed)
  /\ pc \in {"save", "verify"} => plan.op.scope = "host"
  /\ pc = "review" => written \subseteq ScopesOf(plan.reviewed)

LEMMA UnconfirmedScopes ==
  /\ \A s : ScopesOf(Verified(s)) = ScopesOf(unconfirmed) \ {s}
  /\ \A op : ScopesOf(Uncertain(op)) = ScopesOf(unconfirmed) \cup {op.scope}
<1>1. \A s : ScopesOf(Verified(s)) = ScopesOf(unconfirmed) \ {s}
  BY DEF ScopesOf, Verified
<1>2. ASSUME NEW op PROVE ScopesOf(Uncertain(op)) = ScopesOf(unconfirmed) \cup {op.scope}
  <2>1. ScopesOf(Uncertain(op)) = ScopesOf(Verified(op.scope)) \cup {op.scope}
    BY DEF ScopesOf, Uncertain
  <2>2. QED
    BY <1>1, <2>1
<1>3. QED
  BY <1>1, <1>2

LEMMA SavedDoubted ==
  ASSUME NEW op, NEW read, Saved(op, read),
         written \subseteq ScopesOf(unconfirmed)
  PROVE  written' \subseteq ScopesOf(unconfirmed')
<1>1. unconfirmed' = Verified(op.scope) /\ written' = written \ {op.scope}
  BY DEF Saved
<1>2. QED
  BY <1>1, UnconfirmedScopes

LEMMA FailedDoubted ==
  ASSUME NEW op, Failed(op),
         written \ {op.scope} \subseteq ScopesOf(unconfirmed)
  PROVE  written' \subseteq ScopesOf(unconfirmed')
<1>1. /\ unconfirmed' = IF op.scope \in ScopesOf(unconfirmed) THEN unconfirmed
                        ELSE Uncertain(op)
      /\ written' = written \cup {op.scope}
  BY DEF Failed
<1>2. QED
  BY <1>1, UnconfirmedScopes

LEMMA StepDoubted ==
  ASSUME TypeOK, Doubted, [Next]_vars
  PROVE  Doubted'
<1>1. ASSUME NEW s \in Scopes \ {"names"}, NEW v \in Values, Edit(s, v) PROVE Doubted'
  BY <1>1 DEF Edit, Doubted
<1>2. CASE Observe \/ Discard \/ Cancel \/ Confirm \/ Done
  BY <1>2 DEF Observe, Discard, Cancel, Confirm, Done, Doubted, ScopesOf, past, user
<1>3. CASE Prepare
  <2>1. PICK ops \in SUBSET Changes, base \in Snapshots, open \in BOOLEAN :
          /\ ScopesOf(unconfirmed) \subseteq ScopesOf(ops)
          /\ plan' = IF ops = {} THEN NoPlan ELSE
                     [NoPlan EXCEPT !.host = host, !.reviewed = ops, !.ops = ops,
                                    !.blocked = ~open, !.read = base]
          /\ pc' = (IF ops = {} THEN "editing" ELSE "review")
    BY <1>3, PrepareOutcome
  <2>2. pc = "editing" /\ UNCHANGED <<unconfirmed, past>>
    BY <1>3, PrepareOutcome
  <2>3. written \subseteq ScopesOf(unconfirmed)
    BY <2>2 DEF Doubted
  <2>4. ops # {} => plan'.reviewed = ops
    BY <2>1, NoPlanType DEF Plans
  <2>5. QED
    BY <2>1, <2>2, <2>3, <2>4 DEF Doubted, past
<1>4. ASSUME NEW op \in plan.ops, Look(op) PROVE Doubted'
  BY <1>4, LookOutcome DEF Doubted, user, past
<1>5. ASSUME NEW op \in plan.ops, LookHost(op) PROVE Doubted'
  BY <1>5 DEF LookHost, Doubted, user, past, TypeOK, Plans
<1>6. CASE WriteConfiguration
  <2>1. /\ pc = "write" /\ pc' = "execute"
        /\ Failed(plan.op) \/ \E read : Saved(plan.op, read)
    BY <1>6, WriteConfigurationOutcome
  <2>2. written' \subseteq ScopesOf(unconfirmed')
    BY <2>1, SavedDoubted, FailedDoubted DEF Doubted
  <2>3. QED
    BY <2>1, <2>2 DEF Doubted
<1>7. CASE WriteNames
  <2>1. /\ pc = "write" /\ pc' = "execute"
        /\ Failed(plan.op) \/ \E read : Saved(plan.op, read)
    BY <1>7, WriteNamesOutcome
  <2>2. written' \subseteq ScopesOf(unconfirmed')
    BY <2>1, SavedDoubted, FailedDoubted DEF Doubted
  <2>3. QED
    BY <2>1, <2>2 DEF Doubted
<1>8. CASE SaveHost
  <2>1. /\ pc = "save"
        /\ \/ Failed(plan.op) /\ pc' = "execute"
           \/ pc' = "verify" /\ UNCHANGED <<user, plan>> /\ written' = written \cup {"host"}
    BY <1>8, SaveHostOutcome
  <2>2. CASE Failed(plan.op) /\ pc' = "execute"
    <3>1. written' \subseteq ScopesOf(unconfirmed')
      BY <2>1, <2>2, FailedDoubted DEF Doubted
    <3>2. QED
      BY <2>2, <3>1 DEF Doubted
  <2>3. CASE pc' = "verify" /\ UNCHANGED <<user, plan>> /\ written' = written \cup {"host"}
    BY <2>1, <2>3 DEF Doubted, user
  <2>4. QED
    BY <2>1, <2>2, <2>3
<1>9. CASE VerifyHost
  <2>1. pc = "verify" /\ pc' = "execute" /\ plan.op.scope = "host"
    BY <1>9 DEF VerifyHost, Doubted
  <2>2. written \ {"host"} \subseteq ScopesOf(unconfirmed)
    BY <2>1 DEF Doubted
  <2>3. \/ Failed(plan.op)
        \/ unconfirmed' = Verified("host") /\ written' = written \ {"host"}
    BY <1>9 DEF VerifyHost
  <2>4. written' \subseteq ScopesOf(unconfirmed')
    BY <2>1, <2>2, <2>3, FailedDoubted, UnconfirmedScopes
  <2>5. QED
    BY <2>1, <2>4 DEF Doubted
<1>10. CASE ForeignWrite \/ Restart
  BY <1>10 DEF ForeignWrite, Restart, Doubted, user, past
<1>11. CASE UNCHANGED vars
  BY <1>11 DEF vars, Doubted
<1>12. QED
  BY <1>1, <1>2, <1>3, <1>4, <1>5, <1>6, <1>7, <1>8, <1>9, <1>10, <1>11 DEF Next

(* A write that was sent and is not verified is among the unconfirmed ones, and
   each review includes it. *)
THEOREM DoubtIsAlwaysKept == Spec => []DoubtIsKept
<1>1. Init => Doubted
  BY DEF Init, Doubted
<1>2. TypeOK /\ Doubted /\ [Next]_vars => Doubted'
  BY StepDoubted
<1>3. Doubted => DoubtIsKept
  BY DEF Doubted, DoubtIsKept
<1>4. QED
  BY <1>1, <1>2, <1>3, TypeCorrect, PTL DEF Spec

-----------------------------------------------------------------------------
(* What has been reviewed.  A generation tells what it is the generation of, as
   long as it is not used again for something else.  It is, when a write that was in
   force but not stored is followed by a restart and by another client's write:
   the theorems below are about any number of such troubles, but not of all three
   kinds in one behavior. *)
TroublesApart ==
  \A e \in Environments : e.foreign = 0 \/ e.broken = 0 \/ e.restarts = 0

(* What is stored is what is in force, or older. *)
Rising == stored.gen <= ram.gen /\ (stored.gen = ram.gen => stored = ram)

(* While another client may write no restart takes a generation back. *)
Apart == \/ env.foreign = 0 \/ env.restarts = 0
         \/ env.broken = 0 /\ stored = ram

NanoAsSeen ==
  pc # "editing" /\ ~plan.blocked =>
    /\ ram.gen = plan.read.gen => ram.values = plan.read.values
    /\ stored.gen = plan.read.gen => stored.values = plan.read.values
    /\ env.foreign > 0 => ram.gen >= plan.read.gen
    /\ names.gen >= plan.read.labelGen
    /\ names.gen = plan.read.labelGen => names.label = plan.read.label

HostAsSeen ==
  pc # "editing" =>
    /\ host.revision >= plan.host.revision
    /\ host.revision = plan.host.revision => host = plan.host

Seen ==
  /\ Rising /\ Apart /\ NanoAsSeen /\ HostAsSeen
  /\ pc \in {"write", "save"} => ~plan.blocked

LEMMA InitSeen == TroublesApart /\ Init => Seen
BY CoordinationAssumption
   DEF TroublesApart, Init, Seen, Rising, Apart, NanoAsSeen, HostAsSeen

(* The end of a write, for the plan. *)
LEMMA SavedPlan ==
  ASSUME TypeOK, NEW op, NEW read \in Snapshots, Saved(op, read)
  PROVE  /\ plan'.read = read /\ plan'.blocked = plan.blocked /\ plan'.host = plan.host
         /\ plan'.ops = plan.ops \ {op} /\ plan'.reviewed = plan.reviewed
         /\ plan'.op = plan.op
BY DEF Saved, TypeOK, Plans

LEMMA FailedPlan ==
  ASSUME TypeOK, NEW op, Failed(op)
  PROVE  /\ plan'.read = plan.read /\ plan'.blocked /\ plan'.host = plan.host
         /\ plan'.ops = plan.ops \ {op} /\ plan'.reviewed = plan.reviewed
         /\ plan'.op = plan.op
BY DEF Failed, TypeOK, Plans

LEMMA SnapshotFields ==
  ASSUME NEW v, NEW g, NEW l, NEW k
  PROVE  LET x == Snapshot(v, g, l, k)
         IN  x.values = v /\ x.gen = g /\ x.label = l /\ x.labelGen = k
BY DEF Snapshot

LEMMA ApartKept ==
  ASSUME TypeOK, Apart, UNCHANGED <<ram, stored>>,
         env' = env \/ Spend("lost") \/ Spend("broken")
  PROVE  Apart'
<1>1. /\ env.foreign = 0 => env'.foreign = 0
      /\ env.restarts = 0 => env'.restarts = 0
      /\ env.broken = 0 => env'.broken = 0
  BY SpendType DEF TypeOK
<1>2. QED
  BY <1>1 DEF Apart

LEMMA ForeignLeft ==
  ASSUME TypeOK, env' = env \/ Spend("lost") \/ Spend("broken")
  PROVE  env'.foreign = env.foreign
BY SpendType DEF TypeOK

LEMMA StepSeen ==
  ASSUME TypeOK, Seen, [Next]_vars
  PROVE  Seen'
<1>1. /\ plan \in Plans /\ ram \in Settled /\ stored \in Settled /\ host \in Hosts
      /\ names \in [label : Values, gen : Nat] /\ env \in Budgets
      /\ Reading \in Snapshots /\ plan.read \in Snapshots
  BY ReadingType DEF TypeOK, Plans
<1>2. /\ Reading.values = ram.values /\ Reading.gen = ram.gen
      /\ Reading.label = names.label /\ Reading.labelGen = names.gen
  BY DEF Reading, Snapshot
<1>3. ASSUME NEW s \in Scopes \ {"names"}, NEW v \in Values, Edit(s, v) PROVE Seen'
  BY <1>3 DEF Edit, Seen, Rising, Apart, NanoAsSeen, HostAsSeen, nano
<1>4. CASE Observe \/ Discard \/ Cancel \/ Done
  BY <1>4 DEF Observe, Discard, Cancel, Done, Seen, Rising, Apart, NanoAsSeen,
              HostAsSeen, nano
<1>5. CASE Confirm
  BY <1>5 DEF Confirm, Seen, Rising, Apart, NanoAsSeen, HostAsSeen, nano
<1>6. CASE Prepare
  <2>1. PICK ops \in SUBSET Changes, base \in Snapshots, open \in BOOLEAN :
          /\ open => base = Reading
          /\ plan' = IF ops = {} THEN NoPlan ELSE
                     [NoPlan EXCEPT !.host = host, !.reviewed = ops, !.ops = ops,
                                    !.blocked = ~open, !.read = base]
          /\ pc' = (IF ops = {} THEN "editing" ELSE "review")
    BY <1>6, PrepareOutcome
  <2>2. UNCHANGED <<host, nano>> /\ (env' = env \/ Spend("lost"))
    BY <1>6, PrepareOutcome
  <2>3. ops # {} => /\ plan'.host = host /\ plan'.blocked = ~open
                    /\ (open => plan'.read = Reading)
    BY <2>1, NoPlanType DEF Plans
  <2>4. UNCHANGED <<ram, stored, names>> /\ Apart' /\ Rising'
    BY <2>2, ApartKept DEF nano, Seen, Rising
  <2>5. NanoAsSeen'
    <3>1. CASE ops = {} \/ ~open
      BY <2>1, <2>3, <3>1 DEF NanoAsSeen
    <3>2. CASE ops # {} /\ open
      BY <1>1, <1>2, <2>3, <2>4, <3>2 DEF NanoAsSeen, Seen, Rising, Settled
    <3>3. QED
      BY <3>1, <3>2
  <2>6. HostAsSeen'
    BY <1>1, <2>1, <2>2, <2>3 DEF HostAsSeen, Hosts
  <2>7. QED
    BY <2>1, <2>4, <2>5, <2>6 DEF Seen
<1>7. ASSUME NEW op \in plan.ops, Look(op) PROVE Seen'
  <2>1. /\ ~plan.blocked /\ pc = "execute" /\ UNCHANGED <<host, ram, stored, names>>
        /\ env' = env \/ Spend("lost")
        /\ \/ plan' = [plan EXCEPT !.op = op]
           \/ plan' = [plan EXCEPT !.blocked = TRUE] /\ pc' = pc
    BY <1>7, LookOutcome DEF nano
  <2>2. /\ plan'.read = plan.read /\ plan'.host = plan.host
        /\ plan'.blocked = plan.blocked \/ (plan'.blocked /\ pc' = pc)
    BY <1>1, <2>1 DEF Plans
  <2>3. Apart' /\ env'.foreign = env.foreign
    BY <2>1, ApartKept, ForeignLeft DEF Seen
  <2>4. QED
    BY <2>1, <2>2, <2>3 DEF Seen, Rising, NanoAsSeen, HostAsSeen
<1>8. ASSUME NEW op \in plan.ops, LookHost(op) PROVE Seen'
  <2>1. /\ pc = "execute" /\ UNCHANGED <<host, ram, stored, names>>
        /\ \/ plan' = [plan EXCEPT !.op = op] /\ pc' = "save" /\ ~plan.blocked
           \/ plan' = [plan EXCEPT !.ops = {}] /\ pc' = pc
    BY <1>8 DEF LookHost, HostMayBeSaved, nano
  <2>2. /\ plan'.read = plan.read /\ plan'.host = plan.host /\ plan'.blocked = plan.blocked
    BY <1>1, <2>1 DEF Plans
  <2>3. Apart' /\ env'.foreign = env.foreign
    <3>1. env' = env \/ Spend("lost")
      BY <1>8, LookHostSpends
    <3>2. QED
      BY <2>1, <3>1, ApartKept, ForeignLeft DEF Seen
  <2>4. QED
    BY <2>1, <2>2, <2>3 DEF Seen, Rising, NanoAsSeen, HostAsSeen
<1>9. CASE WriteConfiguration
  <2> DEFINE op   == plan.op
             next == [values |-> [ram.values EXCEPT ![op.scope] = op.after],
                      gen |-> ram.gen + 1]
             read == Snapshot(next.values, next.gen, names.label, names.gen)
  <2>1. /\ pc = "write" /\ pc' = "execute" /\ UNCHANGED <<host, names>>
        /\ next \in Settled
        /\ env' = env \/ Spend("lost") \/ Spend("broken")
        /\ \/ UNCHANGED nano /\ Failed(op)
           \/ /\ ram.gen = plan.read.gen /\ ram' = next
              /\ \/ /\ stored' = next /\ Saved(op, read)
                 \/ /\ stored' = next \/ (stored' = stored /\ Spend("broken"))
                    /\ Failed(op)
    BY <1>9, WriteConfigurationOutcome
  <2>2. next.gen = ram.gen + 1
    OBVIOUS
  <2> HIDE DEF next
  <2>3. read \in Snapshots
    BY <1>1, <2>1 DEF Snapshot, Snapshots, Settled
  <2>4. /\ read.values = next.values /\ read.gen = next.gen
        /\ read.label = names.label /\ read.labelGen = names.gen
    BY SnapshotFields
  <2> HIDE DEF read
  <2>5. Rising' /\ Apart'
    <3>1. CASE UNCHANGED nano
      BY <2>1, <3>1, ApartKept DEF Seen, nano, Rising
    <3>2. CASE ram' = next /\ stored' = next
      <4>1. /\ env.foreign = 0 => env'.foreign = 0
            /\ env.restarts = 0 => env'.restarts = 0
            /\ env.broken = 0 => env'.broken = 0
        BY <1>1, <2>1, SpendType
      <4>2. QED
        BY <2>1, <3>2, <4>1 DEF Seen, Rising, Apart, Settled
    <3>3. CASE ram' = next /\ stored' = stored /\ Spend("broken")
      <4>1. /\ env.foreign = 0 => env'.foreign = 0
            /\ env.restarts = 0 => env'.restarts = 0
            /\ env.broken # 0
        BY <1>1, <3>3, SpendType
      <4>2. QED
        BY <1>1, <2>2, <3>3, <4>1 DEF Seen, Rising, Apart, Settled
    <3>4. QED
      BY <2>1, <3>1, <3>2, <3>3
  <2>6. HostAsSeen'
    BY <2>1, <2>3, SavedPlan, FailedPlan DEF Seen, HostAsSeen
  <2>7. NanoAsSeen'
    <3>1. CASE Failed(op)
      BY <3>1, FailedPlan DEF NanoAsSeen
    <3>2. CASE Saved(op, read) /\ ram' = next /\ stored' = next
      <4>1. plan'.read = read /\ ram'.gen = read.gen /\ ram'.values = read.values
            /\ stored'.values = read.values /\ names'.gen = read.labelGen
            /\ names'.label = read.label
        BY <2>1, <2>3, <2>4, <3>2, SavedPlan
      <4>2. QED
        BY <2>3, <4>1 DEF NanoAsSeen, Snapshots
    <3>3. QED
      BY <2>1, <3>1, <3>2
  <2>8. QED
    BY <2>1, <2>5, <2>6, <2>7 DEF Seen
<1>10. CASE WriteNames
  <2> DEFINE op   == plan.op
             next == IF names.label = op.after THEN names
                     ELSE [label |-> op.after, gen |-> names.gen + 1]
             read == Snapshot(ram.values, ram.gen, next.label, next.gen)
  <2>1. /\ pc = "write" /\ pc' = "execute" /\ UNCHANGED <<host, ram, stored>>
        /\ next \in [label : Values, gen : Nat]
        /\ env' = env \/ Spend("lost") \/ Spend("broken")
        /\ \/ UNCHANGED names /\ Failed(op)
           \/ /\ names' = next
              /\ \/ Settings(Reading) = Settings(plan.read) /\ Saved(op, read)
                 \/ Failed(op)
    BY <1>10, WriteNamesOutcome
  <2> HIDE DEF next
  <2>2. read \in Snapshots
    BY <1>1, <2>1 DEF Snapshot, Snapshots, Settled
  <2>3. /\ read.values = ram.values /\ read.gen = ram.gen
        /\ read.label = next.label /\ read.labelGen = next.gen
    BY SnapshotFields
  <2> HIDE DEF read
  <2>4. Rising' /\ Apart' /\ env'.foreign = env.foreign
    BY <2>1, ApartKept, ForeignLeft DEF Seen, Rising
  <2>5. HostAsSeen'
    BY <2>1, <2>2, SavedPlan, FailedPlan DEF Seen, HostAsSeen
  <2>6. NanoAsSeen'
    <3>1. CASE Failed(op)
      BY <3>1, FailedPlan DEF NanoAsSeen
    <3>2. CASE Saved(op, read) /\ names' = next /\ Settings(Reading) = Settings(plan.read)
      <4>1. /\ plan'.read = read /\ plan'.blocked = plan.blocked
            /\ ram.gen = plan.read.gen /\ ram.values = plan.read.values
        BY <1>2, <2>2, <3>2, SavedPlan DEF Settings
      <4>2. ~plan.blocked
        BY <2>1 DEF Seen
      <4>3. stored.gen = plan.read.gen => stored.values = plan.read.values
        BY <2>1, <4>2 DEF Seen, NanoAsSeen
      <4>4. QED
        BY <2>1, <2>2, <2>3, <3>2, <4>1, <4>3 DEF NanoAsSeen, Snapshots
    <3>3. QED
      BY <2>1, <3>1, <3>2
  <2>7. QED
    BY <2>1, <2>4, <2>5, <2>6 DEF Seen
<1>11. CASE SaveHost
  <2>1. /\ pc = "save" /\ UNCHANGED <<ram, stored, names>>
        /\ env' = env \/ Spend("lost") \/ Spend("broken")
        /\ \/ UNCHANGED host
           \/ host' = Host(plan.op.after, host.revision + 1)
        /\ \/ Failed(plan.op) /\ pc' = "execute"
           \/ pc' = "verify" /\ UNCHANGED plan
    BY <1>11, SaveHostOutcome DEF nano
  <2>2. Rising' /\ Apart' /\ env'.foreign = env.foreign
    BY <2>1, ApartKept, ForeignLeft DEF Seen, Rising
  <2>3. plan'.host = plan.host /\ (Failed(plan.op) => plan'.blocked)
    BY <2>1, FailedPlan
  <2>4. HostAsSeen'
    BY <1>1, <2>1, <2>3 DEF Seen, HostAsSeen, Host, Hosts, Plans
  <2>5. NanoAsSeen'
    BY <2>1, <2>2, <2>3 DEF Seen, NanoAsSeen
  <2>6. QED
    BY <2>1, <2>2, <2>4, <2>5 DEF Seen
<1>12. CASE VerifyHost
  <2>1. /\ pc = "verify" /\ pc' = "execute" /\ UNCHANGED <<env, host, ram, stored, names>>
        /\ Failed(plan.op) \/ plan' = [plan EXCEPT !.ops = {}]
    BY <1>12 DEF VerifyHost, nano
  <2>2. /\ plan'.host = plan.host /\ plan'.read = plan.read
        /\ plan'.blocked \/ plan'.blocked = plan.blocked
    BY <1>1, <2>1, FailedPlan DEF Plans
  <2>3. QED
    BY <2>1, <2>2 DEF Seen, Rising, Apart, NanoAsSeen, HostAsSeen
<1>13. CASE ForeignWrite
  <2>1. /\ env' \in Budgets /\ env.foreign > 0 /\ UNCHANGED <<pc, plan>>
        /\ env.restarts = 0 => env'.restarts = 0
        /\ env.broken = 0 => env'.broken = 0
    BY <1>1, <1>13, SpendType DEF ForeignWrite
  <2>2. \/ /\ ram'.gen = ram.gen + 1 /\ stored' = ram' /\ UNCHANGED <<names, host>>
        \/ /\ names'.gen = names.gen + 1 /\ UNCHANGED <<ram, stored, host>>
        \/ /\ host'.revision = host.revision + 1 /\ UNCHANGED <<ram, stored, names>>
    BY <1>13 DEF ForeignWrite, nano, Host
  <2>3. Apart'
    BY <2>1, <2>2 DEF Seen, Apart, Budgets
  <2>4. Rising'
    BY <1>1, <2>2 DEF Seen, Rising, Settled
  <2>5. NanoAsSeen'
    BY <1>1, <2>1, <2>2 DEF Seen, NanoAsSeen, Settled, Snapshots, Budgets
  <2>6. HostAsSeen'
    BY <1>1, <2>1, <2>2 DEF Seen, HostAsSeen, Hosts, Plans
  <2>7. QED
    BY <2>1, <2>3, <2>4, <2>5, <2>6 DEF Seen
<1>14. CASE Restart
  <2>1. /\ env' \in Budgets /\ env.restarts > 0 /\ env'.foreign = env.foreign
        /\ ram # stored /\ ram' = stored /\ UNCHANGED <<host, stored, names, pc, plan>>
    BY <1>1, <1>14, SpendType DEF Restart
  <2>2. env.foreign = 0
    BY <1>1, <2>1 DEF Seen, Apart, Budgets
  <2>3. QED
    BY <1>1, <2>1, <2>2 DEF Seen, Rising, Apart, NanoAsSeen, HostAsSeen, Settled, Budgets
<1>15. CASE UNCHANGED vars
  BY <1>15 DEF vars, Seen, Rising, Apart, NanoAsSeen, HostAsSeen
<1>16. QED
  BY <1>3, <1>4, <1>5, <1>6, <1>7, <1>8, <1>9, <1>10, <1>11, <1>12, <1>13, <1>14,
     <1>15 DEF Next

LEMMA AlwaysSeen ==
  ASSUME TroublesApart
  PROVE  Spec => []Seen
<1>1. Init => Seen
  BY InitSeen
<1>2. TypeOK /\ Seen /\ [Next]_vars => Seen'
  BY StepSeen
<1>3. QED
  BY <1>1, <1>2, TypeCorrect, PTL DEF Spec

(* No write of a save replaces what another client has written since the review:
   the generation or revision with which it is made is that of what was read. *)
THEOREM NothingIsTrampled ==
  ASSUME TroublesApart
  PROVE  Spec => []NothingTrampled
<1>1. Init => NothingTrampled
  BY DEF Init, NothingTrampled
<1>2. ASSUME TypeOK, Seen, NothingTrampled, [Next]_vars PROVE NothingTrampled'
  <2>1. CASE WriteConfiguration
    <3>1. \/ UNCHANGED trampled
          \/ /\ pc = "write" /\ ram.gen = plan.read.gen
             /\ trampled' = (trampled \/ ram.values # plan.read.values)
      BY <1>2, <2>1, WriteConfigurationOutcome
    <3>2. QED
      BY <1>2, <3>1 DEF Seen, NanoAsSeen, NothingTrampled
  <2>2. CASE WriteNames
    <3>1. \/ UNCHANGED trampled
          \/ /\ pc = "write" /\ names.gen = plan.read.labelGen
             /\ trampled' = (trampled \/ names.label # plan.read.label)
      BY <1>2, <2>2, WriteNamesOutcome
    <3>2. QED
      BY <1>2, <3>1 DEF Seen, NanoAsSeen, NothingTrampled
  <2>3. CASE SaveHost
    <3>1. \/ UNCHANGED trampled
          \/ /\ pc = "save" /\ host.revision = plan.host.revision
             /\ trampled' = (trampled \/ host # plan.host)
      BY <1>2, <2>3, SaveHostOutcome
    <3>2. QED
      BY <1>2, <3>1 DEF Seen, HostAsSeen, NothingTrampled
  <2>4. CASE UNCHANGED trampled
    BY <1>2, <2>4 DEF NothingTrampled
  <2>5. QED
    BY <1>2, <2>1, <2>2, <2>3, <2>4 DEF Next, vars, past, Edit, Observe, Discard, Prepare,
       Cancel, Confirm, Look, LookHost, VerifyHost, Done, ForeignWrite, Restart
<1>3. QED
  BY <1>1, <1>2, TypeCorrect, AlwaysSeen, PTL DEF Spec

-----------------------------------------------------------------------------
(* The order of a save. *)

(* What is done with the reviewed changes: one that is no longer to be written is
   what the last readback has shown, or the save is blocked. *)
Planned ==
  /\ plan.ops \subseteq plan.reviewed
  /\ \A a, b \in plan.reviewed : a.scope = b.scope => a = b
  /\ pc = "write" => plan.op \in OfNano(plan.ops)
  /\ pc \in {"save", "verify"} => OfNano(plan.ops) = {}
  /\ pc # "editing" /\ ~plan.blocked =>
       \A op \in OfNano(plan.reviewed) \ plan.ops : ValueIn(plan.read, op.scope) = op.after

LEMMA InitPlanned == Init => Planned
BY DEF Init, Planned, NoPlan

(* The end of a write that was answered. *)
LEMMA SavedPlanned ==
  ASSUME TypeOK, Planned, NEW op, NEW read \in Snapshots, Saved(op, read),
         pc = "write", pc' = "execute", ~plan.blocked,
         ValueIn(read, op.scope) = op.after,
         \A s \in Scopes \ {"host", op.scope} : ValueIn(read, s) = ValueIn(plan.read, s),
         op = plan.op
  PROVE  Planned'
<1>1. /\ plan'.read = read /\ plan'.ops = plan.ops \ {op} /\ plan'.reviewed = plan.reviewed
  BY SavedPlan
<1>2. op \in plan.reviewed /\ plan.reviewed \subseteq Changes
  BY DEF Planned, OfNano, TypeOK, Plans
<1>3. ASSUME NEW o \in OfNano(plan.reviewed), o \notin plan.ops \ {op}
      PROVE  ValueIn(read, o.scope) = o.after
  <2>1. CASE o = op
    BY <2>1
  <2>2. CASE o # op
    <3>1. o \in plan.reviewed /\ o.scope # "host" /\ o \notin plan.ops
      BY <1>3, <2>2 DEF OfNano
    <3>2. o.scope # op.scope /\ o.scope \in Scopes
      BY <1>2, <2>2, <3>1 DEF Planned, Changes
    <3>3. ValueIn(plan.read, o.scope) = o.after
      BY <1>3, <3>1 DEF Planned
    <3>4. QED
      BY <3>1, <3>2, <3>3
  <2>3. QED
    BY <2>1, <2>2
<1>4. QED
  BY <1>1, <1>3 DEF Planned

LEMMA FailedPlanned ==
  ASSUME TypeOK, Planned, NEW op, Failed(op), pc' = "execute"
  PROVE  Planned'
BY FailedPlan DEF Planned

LEMMA StepPlanned ==
  ASSUME TypeOK, Seen, Planned, [Next]_vars
  PROVE  Planned'
<1>1. /\ plan \in Plans /\ ram \in Settled /\ names \in [label : Values, gen : Nat]
      /\ plan.read \in Snapshots
  BY DEF TypeOK, Plans
<1>2. /\ Reading.values = ram.values /\ Reading.gen = ram.gen
      /\ Reading.label = names.label /\ Reading.labelGen = names.gen
  BY DEF Reading, Snapshot
<1>3. ASSUME NEW s \in Scopes \ {"names"}, NEW v \in Values, Edit(s, v) PROVE Planned'
  BY <1>3 DEF Edit, Planned
<1>4. CASE Observe \/ Discard \/ Cancel \/ Confirm \/ Done
  <2>1. \/ UNCHANGED <<pc, plan>>
        \/ pc' = "editing" /\ plan' = NoPlan
        \/ pc = "review" /\ pc' = "execute" /\ UNCHANGED plan
    BY <1>4 DEF Observe, Discard, Cancel, Confirm, Done
  <2>2. QED
    BY <2>1 DEF Planned, NoPlan
<1>5. CASE Prepare
  <2>1. PICK ops \in SUBSET Changes, base \in Snapshots, open \in BOOLEAN :
          /\ \A a, b \in ops : a.scope = b.scope => a = b
          /\ plan' = IF ops = {} THEN NoPlan ELSE
                     [NoPlan EXCEPT !.host = host, !.reviewed = ops, !.ops = ops,
                                    !.blocked = ~open, !.read = base]
          /\ pc' = (IF ops = {} THEN "editing" ELSE "review")
    BY <1>5, PrepareOutcome
  <2>2. plan'.reviewed = ops /\ plan'.ops = ops
    BY <2>1, NoPlanType DEF Plans, NoPlan
  <2>3. QED
    BY <2>1, <2>2 DEF Planned, OfNano
<1>6. ASSUME NEW op \in plan.ops, Look(op) PROVE Planned'
  <2>1. /\ ~plan.blocked /\ pc = "execute" /\ op \in OfNano(plan.ops)
        /\ \/ plan' = [plan EXCEPT !.op = op] /\ pc' = "write"
           \/ plan' = [plan EXCEPT !.blocked = TRUE] /\ pc' = pc
    BY <1>6, LookOutcome
  <2>2. /\ plan'.read = plan.read /\ plan'.ops = plan.ops /\ plan'.reviewed = plan.reviewed
        /\ \/ plan'.op = op /\ plan'.blocked = plan.blocked /\ pc' = "write"
           \/ plan'.blocked /\ pc' = "execute"
    BY <1>1, <2>1 DEF Plans
  <2>3. QED
    BY <2>1, <2>2 DEF Planned
<1>7. ASSUME NEW op \in plan.ops, LookHost(op) PROVE Planned'
  <2>1. /\ pc = "execute" /\ (OfNano(plan.ops) = {} \/ plan.blocked)
        /\ \/ plan' = [plan EXCEPT !.op = op] /\ pc' = "save" /\ ~plan.blocked
           \/ plan' = [plan EXCEPT !.ops = {}] /\ pc' = pc
    BY <1>7 DEF LookHost, HostMayBeSaved
  <2>2. /\ plan'.read = plan.read /\ plan'.blocked = plan.blocked
        /\ plan'.reviewed = plan.reviewed
    BY <1>1, <2>1 DEF Plans
  <2>3. CASE plan' = [plan EXCEPT !.op = op] /\ pc' = "save" /\ ~plan.blocked
    <3>1. plan'.ops = plan.ops
      BY <1>1, <2>3 DEF Plans
    <3>2. QED
      BY <2>1, <2>2, <2>3, <3>1 DEF Planned
  <2>4. CASE plan' = [plan EXCEPT !.ops = {}] /\ pc' = pc
    <3>1. plan'.ops = {}
      BY <1>1, <2>4 DEF Plans
    <3>2. ~plan.blocked => OfNano(plan.reviewed) \ plan.ops = OfNano(plan.reviewed)
      BY <2>1 DEF OfNano
    <3>3. QED
      BY <2>1, <2>2, <2>4, <3>1, <3>2 DEF Planned
  <2>5. QED
    BY <2>1, <2>3, <2>4
<1>8. CASE WriteConfiguration
  <2> DEFINE op   == plan.op
             next == [values |-> [ram.values EXCEPT ![op.scope] = op.after],
                      gen |-> ram.gen + 1]
             read == Snapshot(next.values, next.gen, names.label, names.gen)
  <2>1. /\ pc = "write" /\ pc' = "execute" /\ op \in Changes /\ op.scope \in ConfigScopes
        /\ next \in Settled
        /\ \/ Failed(op)
           \/ /\ ram.gen = plan.read.gen /\ Label(Reading) = Label(plan.read)
              /\ Saved(op, read)
    BY <1>8, WriteConfigurationOutcome
  <2>2. CASE Failed(op)
    BY <2>1, <2>2, FailedPlanned
  <2>3. CASE ~Failed(op)
    <3>1. read.values = [ram.values EXCEPT ![op.scope] = op.after] /\ read.label = names.label
      BY SnapshotFields
    <3>2. read \in Snapshots
      BY <1>1, <2>1 DEF Snapshot, Snapshots, Settled
    <3>3. ram.values = plan.read.values /\ names.label = plan.read.label
      BY <1>2, <2>1, <2>3 DEF Seen, NanoAsSeen, Label
    <3>4. ram.values \in [ConfigScopes -> Values] /\ op.scope # "names"
      BY <1>1, <2>1, DraftAssumption DEF Settled
    <3> HIDE DEF read, next
    <3>5. ValueIn(read, op.scope) = op.after
      BY <2>1, <3>1, <3>4 DEF ValueIn
    <3>6. ASSUME NEW s \in Scopes \ {"host", op.scope}
          PROVE  ValueIn(read, s) = ValueIn(plan.read, s)
      BY <3>1, <3>3, <3>4 DEF ValueIn, Scopes
    <3>7. ~plan.blocked
      BY <2>1 DEF Seen
    <3>8. QED
      BY <2>1, <2>3, <3>2, <3>5, <3>6, <3>7, SavedPlanned
  <2>4. QED
    BY <2>2, <2>3
<1>9. CASE WriteNames
  <2> DEFINE op   == plan.op
             next == IF names.label = op.after THEN names
                     ELSE [label |-> op.after, gen |-> names.gen + 1]
             read == Snapshot(ram.values, ram.gen, next.label, next.gen)
  <2>1. /\ pc = "write" /\ pc' = "execute" /\ op \in Changes /\ op.scope = "names"
        /\ next \in [label : Values, gen : Nat]
        /\ \/ Failed(op)
           \/ Settings(Reading) = Settings(plan.read) /\ Saved(op, read)
    BY <1>9, WriteNamesOutcome
  <2>2. CASE Failed(op)
    BY <2>1, <2>2, FailedPlanned
  <2>3. CASE ~Failed(op)
    <3>1. read.values = ram.values /\ read.label = next.label /\ next.label = op.after
      BY SnapshotFields
    <3>2. read \in Snapshots
      BY <1>1, <2>1 DEF Snapshot, Snapshots, Settled
    <3>3. ram.values = plan.read.values
      BY <1>2, <2>1, <2>3 DEF Settings
    <3> HIDE DEF read, next
    <3>4. ValueIn(read, op.scope) = op.after
      BY <2>1, <3>1 DEF ValueIn
    <3>5. ASSUME NEW s \in Scopes \ {"host", op.scope}
          PROVE  ValueIn(read, s) = ValueIn(plan.read, s)
      BY <2>1, <3>1, <3>3 DEF ValueIn
    <3>6. ~plan.blocked
      BY <2>1 DEF Seen
    <3>7. QED
      BY <2>1, <2>3, <3>2, <3>4, <3>5, <3>6, SavedPlanned
  <2>4. QED
    BY <2>2, <2>3
<1>10. CASE SaveHost
  <2>1. /\ pc = "save"
        /\ \/ Failed(plan.op) /\ pc' = "execute"
           \/ pc' = "verify" /\ UNCHANGED plan
    BY <1>10, SaveHostOutcome
  <2>2. QED
    BY <2>1, FailedPlanned DEF Planned
<1>11. CASE VerifyHost
  <2>1. /\ pc = "verify" /\ pc' = "execute"
        /\ Failed(plan.op) \/ plan' = [plan EXCEPT !.ops = {}]
    BY <1>11 DEF VerifyHost
  <2>2. CASE Failed(plan.op)
    BY <2>1, <2>2, FailedPlanned
  <2>3. CASE plan' = [plan EXCEPT !.ops = {}]
    <3>1. /\ plan'.read = plan.read /\ plan'.blocked = plan.blocked
          /\ plan'.reviewed = plan.reviewed /\ plan'.ops = {}
      BY <1>1, <2>3 DEF Plans
    <3>2. OfNano(plan.reviewed) \ plan.ops = OfNano(plan.reviewed)
      BY <2>1 DEF Planned, OfNano
    <3>3. QED
      BY <2>1, <3>1, <3>2 DEF Planned
  <2>4. QED
    BY <2>1, <2>2, <2>3
<1>12. CASE ForeignWrite \/ Restart
  BY <1>12 DEF ForeignWrite, Restart, Planned
<1>13. CASE UNCHANGED vars
  BY <1>13 DEF vars, Planned
<1>14. QED
  BY <1>3, <1>4, <1>5, <1>6, <1>7, <1>8, <1>9, <1>10, <1>11, <1>12, <1>13 DEF Next

(* The daemon's configuration is written when the Nano has all that was reviewed
   with it, and not before: what the last readback has shown and nobody has
   changed since. *)
THEOREM NanoGoesFirst ==
  ASSUME TroublesApart
  PROVE  Spec => NanoFirst
<1> DEFINE Reviewed ==
             pc = "save" /\ ram.gen = plan.read.gen /\ names.gen = plan.read.labelGen =>
               \A op \in OfNano(plan.reviewed) : ValueIn(Reading, op.scope) = op.after
<1>1. TypeOK /\ Seen /\ Planned /\ [Next]_vars => Planned'
  BY StepPlanned
<1>2. ASSUME TypeOK, Seen, Planned PROVE Reviewed
  <2>1. SUFFICES ASSUME pc = "save", ram.gen = plan.read.gen,
                        names.gen = plan.read.labelGen,
                        NEW op \in OfNano(plan.reviewed)
                 PROVE  ValueIn(Reading, op.scope) = op.after
    OBVIOUS
  <2>2. ~plan.blocked /\ ram.values = plan.read.values /\ names.label = plan.read.label
    BY <1>2, <2>1 DEF Seen, NanoAsSeen
  <2>3. op \notin plan.ops
    BY <1>2, <2>1 DEF Planned, OfNano
  <2>4. ValueIn(plan.read, op.scope) = op.after
    BY <1>2, <2>1, <2>2, <2>3 DEF Planned
  <2>5. Reading.values = ram.values /\ Reading.label = names.label
    BY DEF Reading, Snapshot
  <2>6. QED
    BY <2>2, <2>4, <2>5 DEF ValueIn
<1>3. Reviewed =>
        [pc = "save" /\ pc' # pc /\ host' # host
           /\ ram.gen = plan.read.gen /\ names.gen = plan.read.labelGen
           => \A op \in OfNano(plan.reviewed) : ValueIn(Reading, op.scope) = op.after]_vars
  OBVIOUS
<1> HIDE DEF Reviewed
<1>4. QED
  BY <1>1, <1>2, <1>3, InitPlanned, TypeCorrect, AlwaysSeen, PTL DEF Spec, NanoFirst

-----------------------------------------------------------------------------
(* What the user has set. *)

(* The setting of a group or of the supply is not what it was read as. *)
Pending(d, c) == d.nano.values[c] # d.nano.baseline.values[c]

LEMMA SettingIsPending ==
  ASSUME NEW d, NEW c \in ConfigScopes
  PROVE  /\ c \in Scopes /\ c # "host" /\ c # "names" /\ Desired(d, c) = d.nano.values[c]
         /\ c \in NanoChanges(d) <=> Pending(d, c)
         /\ c \in DirtyScopes(d) <=> Pending(d, c)
<1>1. c \in Scopes /\ c # "host" /\ c # "names"
  BY DraftAssumption DEF Scopes
<1>2. Desired(d, c) = d.nano.values[c] /\ ValueIn(d.nano.baseline, c) = d.nano.baseline.values[c]
  BY <1>1 DEF Desired, ValueIn
<1>3. c \in NanoChanges(d) <=> Pending(d, c)
  BY <1>1, <1>2 DEF NanoChanges, Pending
<1>4. QED
  BY <1>1, <1>2, <1>3 DEF DirtyScopes

(* What an edit, a read and an accepted write change of it. *)
LEMMA EditedFields ==
  ASSUME NEW d \in Drafts, NEW s \in Scopes, NEW v
  PROVE  LET e == Edited(d, s, v)
         IN  /\ e.nano.baseline = d.nano.baseline /\ e.nano.latest = d.nano.latest
             /\ s = "host" => e.nano = d.nano
             /\ \A c \in ConfigScopes : e.nano.values[c] = IF c = s THEN v ELSE d.nano.values[c]
             /\ e.hostBaseline = d.hostBaseline
             /\ e.hostDesired.mapping = IF s = "host" THEN v ELSE d.hostDesired.mapping
             /\ s # "host" => e.hostDesired = d.hostDesired
<1>1. d.nano \in NanoDrafts /\ d.hostDesired \in Hosts
  BY DEF Drafts
<1>2. CASE s = "host"
  <2>1. Edited(d, s, v) = [d EXCEPT !.hostDesired.mapping = v]
    BY <1>2 DEF Edited
  <2>2. \A c \in ConfigScopes : c # s
    BY <1>2, DraftAssumption
  <2>3. QED
    BY <1>1, <1>2, <2>1, <2>2 DEF Drafts, Hosts
<1>3. CASE s = "names"
  <2>1. Edited(d, s, v) = [d EXCEPT !.nano.label = v]
    BY <1>3 DEF Edited
  <2>2. \A c \in ConfigScopes : c # s
    BY <1>3, DraftAssumption
  <2>3. QED
    BY <1>1, <1>3, <2>1, <2>2 DEF Drafts, NanoDrafts
<1>4. CASE s # "host" /\ s # "names"
  <2>1. Edited(d, s, v) = [d EXCEPT !.nano.values[s] = v]
    BY <1>4 DEF Edited
  <2>2. s \in ConfigScopes
    BY <1>4 DEF Scopes
  <2>3. QED
    BY <1>1, <1>4, <2>1, <2>2 DEF Drafts, NanoDrafts
<1>5. QED
  BY <1>2, <1>3, <1>4

LEMMA ObservedFields ==
  ASSUME NEW d \in Drafts, NEW x \in Snapshots
  PROVE  LET o == ObserveNano(d, x)
         IN  /\ o.hostBaseline = d.hostBaseline /\ o.hostDesired = d.hostDesired
             /\ o.nano.latest = x
             /\ IF NanoChanges(d) # {}
                  THEN o.nano.values = d.nano.values /\ o.nano.baseline = d.nano.baseline
                  ELSE o.nano.values = x.values /\ o.nano.baseline = x
<1>1. d.nano \in NanoDrafts
  BY DEF Drafts
<1>2. CASE NanoChanges(d) # {}
  <2>1. ObserveNano(d, x) = [d EXCEPT !.nano.latest = x]
    BY <1>2 DEF ObserveNano
  <2>2. QED
    BY <1>1, <1>2, <2>1 DEF Drafts, NanoDrafts
<1>3. CASE NanoChanges(d) = {}
  BY <1>3 DEF ObserveNano, Drafts, FromSnapshot
<1>4. QED
  BY <1>2, <1>3

LEMMA AcceptedFields ==
  ASSUME NEW d \in Drafts, NEW x \in Snapshots, NEW s
  PROVE  LET a == AcceptNano(d, x, s)
         IN  /\ a.hostBaseline = d.hostBaseline /\ a.hostDesired = d.hostDesired
             /\ a.nano.baseline = x
             /\ \A c \in ConfigScopes :
                  a.nano.values[c] = IF Pending(d, c) /\ c # s THEN d.nano.values[c]
                                     ELSE x.values[c]
<1> DEFINE pending == NanoChanges(d) \ {s}
           n == FromSnapshot(x)
           vals == [c \in ConfigScopes |-> IF c \in pending THEN d.nano.values[c] ELSE x.values[c]]
           lab == IF "names" \in pending THEN d.nano.label ELSE x.label
           kept == [n EXCEPT !.values = vals, !.label = lab]
<1>1. AcceptNano(d, x, s) = [d EXCEPT !.nano = kept]
  BY DEF AcceptNano, FromSnapshot
<1>2. \A c \in ConfigScopes :
        vals[c] = IF Pending(d, c) /\ c # s THEN d.nano.values[c] ELSE x.values[c]
  BY SettingIsPending
<1> HIDE DEF vals, lab
<1>3. kept.baseline = x /\ kept.values = vals
  BY DEF FromSnapshot
<1> HIDE DEF kept
<1>4. QED
  BY <1>1, <1>2, <1>3 DEF Drafts

LEMMA HostReadFields ==
  ASSUME NEW d \in Drafts, NEW h \in Hosts, NEW retry
  PROVE  /\ ObserveHost(d, h).nano = d.nano /\ RebaseHost(d, h).nano = d.nano
         /\ AcceptHost(d, h).nano = d.nano /\ PrepareHost(d, h, retry).nano = d.nano
<1>1. /\ ObserveHost(d, h).nano = d.nano /\ RebaseHost(d, h).nano = d.nano
      /\ AcceptHost(d, h).nano = d.nano
  BY DEF Drafts, ObserveHost, RebaseHost, AcceptHost
<1>2. QED
  BY <1>1 DEF PrepareHost

LEMMA StagedFields ==
  ASSUME NEW d \in Drafts, NEW ops
  PROVE  LET g == Staged(d, ops)
         IN  /\ g.hostBaseline = d.hostBaseline /\ g.hostDesired = d.hostDesired
             /\ g.nano.baseline = d.nano.baseline
             /\ \A c \in ConfigScopes :
                  g.nano.values[c] = IF c \in ScopesOf(ops)
                                       THEN (CHOOSE op \in ops : op.scope = c).after
                                       ELSE d.nano.values[c]
<1> DEFINE Of(s) == (CHOOSE op \in ops : op.scope = s).after
           vals == [c \in ConfigScopes |->
                      IF c \in ScopesOf(ops) THEN Of(c) ELSE d.nano.values[c]]
           lab == IF "names" \in ScopesOf(ops) THEN Of("names") ELSE d.nano.label
<1>1. d.nano \in NanoDrafts
  BY DEF Drafts
<1>2. Staged(d, ops) =
        [d EXCEPT
           !.nano.values = [c \in ConfigScopes |-> IF c \in ScopesOf(ops) THEN Of(c) ELSE @[c]],
           !.nano.label = IF "names" \in ScopesOf(ops) THEN Of("names") ELSE @]
  BY DEF Staged
<1>3. \A c \in ConfigScopes :
        vals[c] = IF c \in ScopesOf(ops) THEN Of(c) ELSE d.nano.values[c]
  OBVIOUS
<1> HIDE DEF Of
<1>4. Staged(d, ops) = [d EXCEPT !.nano.values = vals, !.nano.label = lab]
  BY <1>1, <1>2 DEF Drafts, NanoDrafts
<1> HIDE DEF vals, lab
<1>5. /\ Staged(d, ops).hostBaseline = d.hostBaseline /\ Staged(d, ops).hostDesired = d.hostDesired
      /\ Staged(d, ops).nano.baseline = d.nano.baseline /\ Staged(d, ops).nano.values = vals
  BY <1>1, <1>4 DEF Drafts, NanoDrafts
<1>6. QED
  BY <1>3, <1>5 DEF Of

(* The operation of a setting: what is pending, or what was not confirmed. *)
LEMMA OperationOfSetting ==
  ASSUME NEW d, NEW base, NEW h, NEW retry, NEW c \in ConfigScopes,
         NEW op \in Operations(d, base, h, retry), op.scope = c
  PROVE  /\ Pending(d, c) \/ c \in ScopesOf(retry)
         /\ Pending(d, c) => op.after = d.nano.values[c]
         /\ ~Pending(d, c) => op.after = (CHOOSE o \in retry : o.scope = c).after
<1> DEFINE After(s) == IF s \in DirtyScopes(d) \/ s = "host" THEN Desired(d, s)
                       ELSE (CHOOSE o \in retry : o.scope = s).after
<1>1. PICK s \in DirtyScopes(d) \cup ScopesOf(retry) :
        op = Operation(s, IF s = "host" THEN h.mapping ELSE ValueIn(base, s), After(s))
  BY DEF Operations
<1>2. s = c /\ op.after = After(s)
  BY <1>1 DEF Operation
<1>3. /\ s # "host" /\ Desired(d, s) = d.nano.values[c]
      /\ s \in DirtyScopes(d) <=> Pending(d, c)
  BY <1>2, SettingIsPending
<1>4. op.after = IF Pending(d, c) THEN d.nano.values[c]
                 ELSE (CHOOSE o \in retry : o.scope = c).after
  BY <1>2, <1>3
<1>5. QED
  BY <1>1, <1>2, <1>3, <1>4

LEMMA OperationOfHost ==
  ASSUME NEW d, NEW base, NEW h, NEW retry,
         NEW op \in Operations(d, base, h, retry), op.scope = "host"
  PROVE  op.after = d.hostDesired.mapping
BY DEF Operations, Operation, Desired

(* What the user has set is pending, or it is what an unconfirmed write was to write. *)
KeptIn(d, retry, c, v) ==
  IF Pending(d, c) THEN d.nano.values[c] = v ELSE \E op \in retry : op.scope = c /\ op.after = v

(* Of each scope at most one write is unconfirmed.  What is pending is pending on top
   of what a save has read, and what the save is to write of a scope is what the user
   has set. *)
SettingsKept ==
  /\ wanted["names"] = {}
  /\ \A a, b \in unconfirmed : a.scope = b.scope => a = b
  /\ \A c \in ConfigScopes : \A v \in wanted[c] : KeptIn(draft, unconfirmed, c, v)
  /\ pc # "editing" /\ ~plan.blocked =>
       \A c \in ConfigScopes :
         Pending(draft, c) => plan.read.values[c] = draft.nano.baseline.values[c]
  /\ \A op \in OfNano(plan.ops) : wanted[op.scope] \subseteq {op.after}
  /\ pc = "editing" => plan.ops = {}

LEMMA InitSettings == Init => SettingsKept
BY DEF Init, SettingsKept, NoPlan, OfNano, Scopes

(* A read of the Nano that blocks nothing keeps what is pending: what it shows in its
   place is what was pending on, or what an unconfirmed write has written. *)
LEMMA ReadSettings ==
  ASSUME NEW d \in Drafts, NEW x \in Snapshots, NEW retry \in SUBSET Changes,
         NEW c \in ConfigScopes,
         Unblocked(d, x, retry), Conflicts(PrepareNano(d, x, retry)) = {}
  PROVE  LET ready == PrepareNano(d, x, retry)
         IN  /\ Pending(ready, c) \/ c \in ScopesOf(retry)
                  => x.values[c] = ready.nano.baseline.values[c]
             /\ \A v : KeptIn(d, retry, c, v) => KeptIn(ready, retry, c, v)
<1> DEFINE read  == IF OfNano(retry) # {} THEN RebaseNano(d, x) ELSE ObserveNano(d, x)
           ready == PrepareNano(d, x, retry)
<1>1. read \in Drafts /\ "names" \in Scopes /\ c # "names" /\ c # "host" /\ c \in Scopes
  BY NanoReadType, SettingIsPending DEF Scopes
<1> HIDE DEF read
<1>2. ready = Edited(read, "names", d.hostDesired.mapping)
  BY DEF PrepareNano, read
<1> HIDE DEF ready
<1>3. /\ ready.nano.baseline = read.nano.baseline /\ ready.nano.latest = read.nano.latest
      /\ ready.nano.values[c] = read.nano.values[c]
  <2> DEFINE m == d.hostDesired.mapping
             e == Edited(read, "names", m)
  <2> HIDE DEF m
  <2>1. /\ e.nano.baseline = read.nano.baseline /\ e.nano.latest = read.nano.latest
        /\ e.nano.values[c] = read.nano.values[c]
    BY <1>1, EditedFields
  <2> HIDE DEF e
  <2>2. ready = e
    BY <1>2 DEF e, m
  <2>3. QED
    BY <1>1, <2>1, <2>2
<1>4. CASE OfNano(retry) # {}
  <2>1. /\ ready.nano.baseline = x
        /\ ready.nano.values[c] = IF Pending(d, c) THEN d.nano.values[c] ELSE x.values[c]
    BY <1>1, <1>3, <1>4, AcceptedFields DEF read, RebaseNano
  <2>2. x.values[c] = d.nano.baseline.values[c]
        \/ \E op \in retry : op.scope = c /\ x.values[c] = op.after
    BY <1>1, <1>4 DEF Unblocked, RetryCompatible, ValueIn
  <2>3. QED
    BY <2>1, <2>2 DEF KeptIn, Pending, ready
<1>5. CASE OfNano(retry) = {}
  <2>1. c \notin ScopesOf(retry) /\ ~ \E op \in retry : op.scope = c
    BY <1>1, <1>5 DEF ScopesOf, OfNano
  <2>2. read = ObserveNano(d, x)
    BY <1>5 DEF read
  <2>3. CASE NanoChanges(d) # {}
    <3>1. /\ ready.nano.latest = x /\ ready.nano.baseline = d.nano.baseline
          /\ ready.nano.values[c] = d.nano.values[c]
      BY <1>3, <2>2, <2>3, ObservedFields
    <3>2. ASSUME Pending(ready, c) PROVE x.values[c] = ready.nano.baseline.values[c]
      <4>1. c \in DirtyScopes(ready)
        BY <3>2, SettingIsPending
      <4>2. c \notin Conflicts(ready)
        BY DEF ready
      <4>3. Settings(ready.nano.latest) = Settings(ready.nano.baseline)
        BY <1>1, <4>1, <4>2 DEF Conflicts
      <4>4. QED
        BY <3>1, <4>3 DEF Settings
    <3>3. QED
      BY <2>1, <3>1, <3>2 DEF KeptIn, Pending, ready
  <2>4. CASE NanoChanges(d) = {}
    <3>1. ready.nano.baseline = x /\ ready.nano.values[c] = x.values[c]
      BY <1>3, <2>2, <2>4, ObservedFields
    <3>2. ~Pending(d, c)
      BY <2>4, SettingIsPending
    <3>3. QED
      BY <2>1, <3>1, <3>2 DEF KeptIn, Pending, ready
  <2>5. QED
    BY <2>3, <2>4
<1>6. QED
  BY <1>4, <1>5

(* What is staged for the review is what the user has set, or what was to be written
   before: so is what the save is to write. *)
LEMMA StagedSettings ==
  ASSUME NEW d \in Drafts, NEW base, NEW h, NEW retry, NEW c \in ConfigScopes,
         \A a, b \in retry : a.scope = b.scope => a = b,
         \A a, b \in Operations(d, base, h, retry) : a.scope = b.scope => a = b
  PROVE  LET ops    == Operations(d, base, h, retry)
             staged == Staged(d, ops)
         IN  /\ Pending(staged, c) => Pending(d, c) \/ c \in ScopesOf(retry)
             /\ staged.nano.baseline = d.nano.baseline
             /\ \A v : KeptIn(d, retry, c, v) =>
                  /\ KeptIn(staged, retry, c, v)
                  /\ \A op \in ops : op.scope = c => op.after = v
<1> DEFINE ops    == Operations(d, base, h, retry)
           staged == Staged(d, ops)
<1>1. /\ staged.nano.baseline = d.nano.baseline
      /\ staged.nano.values[c] = IF c \in ScopesOf(ops)
                                   THEN (CHOOSE op \in ops : op.scope = c).after
                                   ELSE d.nano.values[c]
  BY StagedFields
<1>2. ASSUME NEW op \in ops, op.scope = c
      PROVE  /\ Pending(d, c) \/ c \in ScopesOf(retry)
             /\ Pending(d, c) => op.after = d.nano.values[c]
             /\ \A v : KeptIn(d, retry, c, v) => op.after = v
  <2>1. /\ Pending(d, c) \/ c \in ScopesOf(retry)
        /\ Pending(d, c) => op.after = d.nano.values[c]
        /\ ~Pending(d, c) => op.after = (CHOOSE o \in retry : o.scope = c).after
    BY <1>2, OperationOfSetting
  <2>2. ASSUME NEW v, NEW o \in retry, o.scope = c, o.after = v
        PROVE  (CHOOSE a \in retry : a.scope = c).after = v
    <3>1. (CHOOSE a \in retry : a.scope = c) = o
      BY <2>2
    <3>2. QED
      BY <2>2, <3>1
  <2>3. QED
    BY <2>1, <2>2 DEF KeptIn
<1>3. CASE c \in ScopesOf(ops)
  <2>1. PICK op \in ops : op.scope = c
    BY <1>3 DEF ScopesOf
  <2>2. (CHOOSE o \in ops : o.scope = c) = op
    BY <2>1
  <2>3. staged.nano.values[c] = op.after
    BY <1>1, <1>3, <2>2
  <2> HIDE DEF ops, staged
  <2>4. ASSUME NEW v, KeptIn(d, retry, c, v) PROVE KeptIn(staged, retry, c, v)
    <3>1. op.after = v
      BY <1>2, <2>1, <2>4
    <3>2. CASE Pending(staged, c)
      BY <2>3, <3>1, <3>2 DEF KeptIn
    <3>3. CASE ~Pending(staged, c)
      <4>1. ~Pending(d, c)
        BY <1>1, <1>2, <2>1, <2>3, <3>3 DEF Pending
      <4>2. QED
        BY <2>4, <3>3, <4>1 DEF KeptIn
    <3>4. QED
      BY <3>2, <3>3
  <2>5. QED
    BY <1>1, <1>2, <2>1, <2>4 DEF ops, staged
<1>4. CASE c \notin ScopesOf(ops)
  <2>1. staged.nano.values[c] = d.nano.values[c] /\ ~ \E op \in ops : op.scope = c
    BY <1>1, <1>4 DEF ScopesOf
  <2> HIDE DEF ops, staged
  <2>2. QED
    BY <1>1, <2>1 DEF Pending, KeptIn, ops, staged
<1>5. QED
  BY <1>3, <1>4

LEMMA PrepareDetail ==
  ASSUME TypeOK, Prepare
  PROVE  LET read == PrepareHost(draft, host, unconfirmed)
         IN  /\ pc = "editing" /\ UNCHANGED <<host, nano, unconfirmed, past>> /\ read \in Drafts
             /\ \E open \in BOOLEAN, ready \in Drafts, base \in Snapshots :
                  LET ops == Operations(ready, base, host, unconfirmed)
                  IN  /\ IF open THEN /\ Unblocked(read, Reading, unconfirmed) /\ base = Reading
                                      /\ ready = PrepareNano(read, Reading, unconfirmed)
                                      /\ Conflicts(ready) = {}
                                 ELSE ready = read
                      /\ ops \in SUBSET Changes
                      /\ \A a, b \in ops : a.scope = b.scope => a = b
                      /\ draft' = Staged(ready, ops) /\ plan'.ops = ops
                      /\ ops # {} => plan'.blocked = ~open /\ plan'.read = base
                      /\ pc' = (IF ops = {} THEN "editing" ELSE "review")
<1> PICK readable \in BOOLEAN :
       LET read    == PrepareHost(draft, host, unconfirmed)
           open    == readable /\ Unblocked(read, Reading, unconfirmed)
           ready   == IF open THEN PrepareNano(read, Reading, unconfirmed) ELSE read
           base    == IF open THEN Reading ELSE ready.nano.baseline
           ops     == Operations(ready, base, host, unconfirmed)
       IN  /\ \A s \in Conflicts(ready) : s # "host" /\ ~open
           /\ draft' = Staged(ready, ops)
           /\ plan' = IF ops = {} THEN NoPlan ELSE
                      [NoPlan EXCEPT !.host = host, !.reviewed = ops, !.ops = ops,
                                     !.blocked = ~open, !.read = base]
           /\ pc' = (IF ops = {} THEN "editing" ELSE "review")
  BY DEF Prepare
<1> DEFINE read  == PrepareHost(draft, host, unconfirmed)
           open  == readable /\ Unblocked(read, Reading, unconfirmed)
           ready == IF open THEN PrepareNano(read, Reading, unconfirmed) ELSE read
           base  == IF open THEN Reading ELSE ready.nano.baseline
           ops   == Operations(ready, base, host, unconfirmed)
<1>1. pc = "editing" /\ UNCHANGED <<host, nano, unconfirmed, past>>
  BY DEF Prepare
<1>2. read \in Drafts
  BY ReadingType, PreparedType DEF TypeOK
<1>3. PrepareNano(read, Reading, unconfirmed) \in Drafts
  BY <1>2, ReadingType, PreparedType DEF TypeOK
<1>4. open \in BOOLEAN
  BY DEF Unblocked, RetryCompatible
<1>5. /\ draft' = Staged(ready, ops)
      /\ plan' = (IF ops = {} THEN NoPlan ELSE
                  [NoPlan EXCEPT !.host = host, !.reviewed = ops, !.ops = ops,
                                 !.blocked = ~open, !.read = base])
      /\ pc' = (IF ops = {} THEN "editing" ELSE "review")
      /\ open => Conflicts(ready) = {}
  OBVIOUS
<1>6. /\ open => /\ Unblocked(read, Reading, unconfirmed) /\ base = Reading
                 /\ ready = PrepareNano(read, Reading, unconfirmed)
      /\ ~open => ready = read
  OBVIOUS
<1> HIDE DEF read, open
<1>7. ready \in Drafts
  BY <1>2, <1>3
<1>8. base \in Snapshots
  BY <1>7, ReadingType DEF Drafts, NanoDrafts
<1> HIDE DEF ready, base
<1>9. ops \in SUBSET Changes /\ \A a, b \in ops : a.scope = b.scope => a = b
  BY <1>7, <1>8, OperationsType DEF TypeOK
<1>10. plan'.ops = ops /\ (ops # {} => plan'.blocked = ~open /\ plan'.read = base)
  <2> HIDE DEF ops
  <2>1. CASE ops = {}
    BY <1>5, <2>1 DEF NoPlan
  <2>2. CASE ops # {}
    <3> DEFINE blocked == ~open
    <3>1. plan' = [NoPlan EXCEPT !.host = host, !.reviewed = ops, !.ops = ops,
                                 !.blocked = blocked, !.read = base]
      BY <1>5, <2>2
    <3> HIDE DEF blocked
    <3>2. plan'.ops = ops /\ plan'.blocked = blocked /\ plan'.read = base
      BY <3>1, NoPlanType DEF Plans
    <3>3. QED
      BY <3>2 DEF blocked
  <2>3. QED
    BY <2>1, <2>2
<1>11. QED
  BY <1>1, <1>2, <1>4, <1>5, <1>6, <1>7, <1>8, <1>9, <1>10 DEF read

LEMMA PrepareSettings ==
  ASSUME TypeOK, SettingsKept, Prepare
  PROVE  SettingsKept'
<1> DEFINE read == PrepareHost(draft, host, unconfirmed)
<1>1. /\ pc = "editing" /\ UNCHANGED <<unconfirmed, wanted>> /\ read \in Drafts
      /\ read.nano = draft.nano
  BY PrepareDetail, HostReadFields DEF TypeOK, past
<1>2. PICK open \in BOOLEAN, ready \in Drafts, base \in Snapshots :
        LET ops == Operations(ready, base, host, unconfirmed)
        IN  /\ IF open THEN /\ Unblocked(read, Reading, unconfirmed) /\ base = Reading
                            /\ ready = PrepareNano(read, Reading, unconfirmed)
                            /\ Conflicts(ready) = {}
                       ELSE ready = read
            /\ ops \in SUBSET Changes
            /\ \A a, b \in ops : a.scope = b.scope => a = b
            /\ draft' = Staged(ready, ops) /\ plan'.ops = ops
            /\ ops # {} => plan'.blocked = ~open /\ plan'.read = base
            /\ pc' = (IF ops = {} THEN "editing" ELSE "review")
  BY PrepareDetail
<1> DEFINE ops == Operations(ready, base, host, unconfirmed)
<1>3. \A a, b \in unconfirmed : a.scope = b.scope => a = b
  BY DEF SettingsKept
<1> HIDE DEF read
<1>4. ASSUME NEW c \in ConfigScopes
      PROVE  /\ open /\ (Pending(ready, c) \/ c \in ScopesOf(unconfirmed))
                  => Reading.values[c] = ready.nano.baseline.values[c]
             /\ \A v \in wanted[c] : KeptIn(ready, unconfirmed, c, v)
  <2>1. \A v \in wanted[c] : KeptIn(read, unconfirmed, c, v)
    BY <1>1 DEF SettingsKept, KeptIn, Pending
  <2>2. CASE open
    <3>1. LET r == PrepareNano(read, Reading, unconfirmed)
          IN  /\ Pending(r, c) \/ c \in ScopesOf(unconfirmed)
                   => Reading.values[c] = r.nano.baseline.values[c]
              /\ \A v : KeptIn(read, unconfirmed, c, v) => KeptIn(r, unconfirmed, c, v)
      BY <1>1, <1>2, <2>2, ReadSettings, ReadingType DEF TypeOK
    <3>2. QED
      BY <1>2, <2>1, <2>2, <3>1
  <2>3. CASE ~open
    BY <1>2, <2>1, <2>3
  <2>4. QED
    BY <2>2, <2>3
<1>5. ASSUME NEW c \in ConfigScopes
      PROVE  /\ Pending(draft', c) => Pending(ready, c) \/ c \in ScopesOf(unconfirmed)
             /\ draft'.nano.baseline = ready.nano.baseline
             /\ \A v \in wanted[c] :
                  /\ KeptIn(draft', unconfirmed, c, v)
                  /\ \A op \in ops : op.scope = c => op.after = v
  <2>1. LET staged == Staged(ready, ops)
        IN  /\ Pending(staged, c) => Pending(ready, c) \/ c \in ScopesOf(unconfirmed)
            /\ staged.nano.baseline = ready.nano.baseline
            /\ \A v : KeptIn(ready, unconfirmed, c, v) =>
                 /\ KeptIn(staged, unconfirmed, c, v)
                 /\ \A op \in ops : op.scope = c => op.after = v
    BY <1>2, <1>3, StagedSettings
  <2>2. draft' = Staged(ready, ops)
    BY <1>2
  <2> HIDE DEF ops
  <2>3. QED
    BY <1>4, <2>1, <2>2
<1>6. /\ plan'.ops = ops /\ ops \in SUBSET Changes
      /\ pc' # "editing" /\ ~plan'.blocked => open /\ plan'.read = Reading
      /\ pc' = "editing" => ops = {}
  BY <1>2
<1> HIDE DEF ops
<1>7. ASSUME NEW op \in OfNano(ops) PROVE wanted[op.scope] \subseteq {op.after}
  <2>1. op \in ops /\ op.scope \in ConfigScopes \cup {"names"}
    BY <1>6 DEF OfNano, Changes, Scopes
  <2>2. QED
    BY <1>5, <2>1 DEF SettingsKept
<1>8. ASSUME pc' # "editing", ~plan'.blocked, NEW c \in ConfigScopes, Pending(draft', c)
      PROVE  plan'.read.values[c] = draft'.nano.baseline.values[c]
  BY <1>4, <1>5, <1>6, <1>8
<1>9. QED
  BY <1>1, <1>3, <1>5, <1>6, <1>7, <1>8 DEF SettingsKept

(* The end of a write: what is pending in other scopes is still so. *)
LEMMA SavedSettings ==
  ASSUME TypeOK, SettingsKept, NEW op \in Changes, NEW read \in Snapshots, Saved(op, read),
         pc # "editing", pc' # "editing", ~plan.blocked,
         \A c \in ConfigScopes \ {op.scope} : read.values[c] = plan.read.values[c]
  PROVE  SettingsKept'
<1>1. /\ plan'.read = read /\ plan'.ops = plan.ops \ {op}
      /\ draft' = AcceptNano(draft, read, op.scope)
      /\ unconfirmed' = {o \in unconfirmed : o.scope # op.scope}
      /\ wanted' = [wanted EXCEPT ![op.scope] = {}]
  <2>1. plan'.read = read /\ plan'.ops = plan.ops \ {op}
    BY SavedPlan
  <2>2. QED
    BY <2>1 DEF Saved, Verified
<1>2. /\ draft'.nano.baseline = read
      /\ \A c \in ConfigScopes :
           draft'.nano.values[c] = IF Pending(draft, c) /\ c # op.scope
                                     THEN draft.nano.values[c] ELSE read.values[c]
  BY <1>1, AcceptedFields DEF TypeOK
<1>3. \A s \in Scopes : wanted'[s] = IF s = op.scope THEN {} ELSE wanted[s]
  BY <1>1 DEF TypeOK, Changes
<1>4. ASSUME NEW c \in ConfigScopes, NEW v \in wanted'[c]
      PROVE  KeptIn(draft', unconfirmed', c, v)
  <2>1. c # op.scope /\ v \in wanted[c]
    BY <1>3, <1>4, SettingIsPending
  <2>2. KeptIn(draft, unconfirmed, c, v)
    BY <2>1 DEF SettingsKept
  <2>3. CASE Pending(draft, c)
    <3>1. draft'.nano.values[c] = v /\ v # draft.nano.baseline.values[c]
      BY <1>2, <2>1, <2>2, <2>3 DEF KeptIn, Pending
    <3>2. draft.nano.baseline.values[c] = read.values[c]
      BY <2>1, <2>3 DEF SettingsKept
    <3>3. QED
      BY <1>2, <3>1, <3>2 DEF KeptIn, Pending
  <2>4. CASE ~Pending(draft, c)
    <3>1. \E o \in unconfirmed : o.scope = c /\ o.after = v
      BY <2>2, <2>4 DEF KeptIn
    <3>2. \E o \in unconfirmed' : o.scope = c /\ o.after = v
      BY <1>1, <2>1, <3>1
    <3>3. ~Pending(draft', c)
      BY <1>2, <2>4 DEF Pending
    <3>4. QED
      BY <3>2, <3>3 DEF KeptIn
  <2>5. QED
    BY <2>3, <2>4
<1>5. ASSUME NEW o \in OfNano(plan'.ops) PROVE wanted'[o.scope] \subseteq {o.after}
  <2>1. o \in OfNano(plan.ops) /\ o.scope \in Scopes
    BY <1>1 DEF OfNano, TypeOK, Plans, Changes
  <2>2. QED
    BY <1>3, <2>1 DEF SettingsKept
<1>6. wanted'["names"] = {}
  BY <1>3 DEF SettingsKept, Scopes
<1>7. \A a, b \in unconfirmed' : a.scope = b.scope => a = b
  BY <1>1 DEF SettingsKept
<1>8. QED
  BY <1>1, <1>2, <1>4, <1>5, <1>6, <1>7 DEF SettingsKept

LEMMA FailedSettings ==
  ASSUME TypeOK, SettingsKept, NEW op, Failed(op), pc' # "editing"
  PROVE  SettingsKept'
<1>1. /\ plan'.blocked /\ plan'.ops = plan.ops \ {op} /\ UNCHANGED <<draft, wanted>>
      /\ \/ unconfirmed' = unconfirmed
         \/ op.scope \notin ScopesOf(unconfirmed) /\ unconfirmed' = Uncertain(op)
  BY FailedPlan DEF Failed
<1>2. /\ unconfirmed \subseteq unconfirmed'
      /\ \A a, b \in unconfirmed' : a.scope = b.scope => a = b
  BY <1>1 DEF SettingsKept, Uncertain, Verified, ScopesOf
<1>3. \A c \in ConfigScopes : \A v \in wanted'[c] : KeptIn(draft', unconfirmed', c, v)
  BY <1>1, <1>2 DEF SettingsKept, KeptIn
<1>4. \A o \in OfNano(plan'.ops) : wanted'[o.scope] \subseteq {o.after}
  BY <1>1 DEF SettingsKept, OfNano
<1>5. QED
  BY <1>1, <1>2, <1>3, <1>4 DEF SettingsKept

LEMMA StepSettings ==
  ASSUME TypeOK, Seen, Doubted, SettingsKept, [Next]_vars
  PROVE  SettingsKept'
<1>1. /\ draft \in Drafts /\ plan \in Plans /\ ram \in Settled /\ Reading \in Snapshots
      /\ names \in [label : Values, gen : Nat] /\ host \in Hosts
      /\ wanted \in [Scopes -> SUBSET Values]
  BY ReadingType DEF TypeOK
<1>2. ASSUME NEW s \in Scopes \ {"names"}, NEW v \in Values, Edit(s, v) PROVE SettingsKept'
  <2> DEFINE e == Edited(draft, s, v)
  <2>1. /\ pc = "editing" /\ draft' = e /\ UNCHANGED <<unconfirmed, pc, plan>>
        /\ wanted' = [wanted EXCEPT ![s] = IF s \in DirtyScopes(e) THEN {v} ELSE {}]
    BY <1>2 DEF Edit
  <2>2. /\ e.nano.baseline = draft.nano.baseline
        /\ \A c \in ConfigScopes : e.nano.values[c] = IF c = s THEN v ELSE draft.nano.values[c]
    BY <1>1, EditedFields
  <2> HIDE DEF e
  <2>3. ASSUME NEW c \in ConfigScopes, NEW u \in wanted'[c]
        PROVE  KeptIn(draft', unconfirmed', c, u)
    <3>1. CASE c = s
      <4>1. c \in Scopes /\ (c \in DirtyScopes(e) <=> Pending(e, c))
        BY SettingIsPending
      <4>2. u = v /\ Pending(e, c)
        BY <1>1, <2>1, <2>3, <3>1, <4>1
      <4>3. QED
        BY <2>1, <2>2, <3>1, <4>2 DEF KeptIn
    <3>2. CASE c # s
      <4>1. u \in wanted[c]
        BY <1>1, <2>1, <2>3, <3>2, SettingIsPending
      <4>2. QED
        BY <2>1, <2>2, <3>2, <4>1 DEF SettingsKept, KeptIn, Pending
    <3>3. QED
      BY <3>1, <3>2
  <2>4. wanted'["names"] = {}
    BY <1>1, <1>2, <2>1 DEF SettingsKept, Scopes
  <2>5. plan.ops = {}
    BY <2>1 DEF SettingsKept
  <2>6. QED
    BY <2>1, <2>3, <2>4, <2>5 DEF SettingsKept, OfNano
<1>3. CASE Observe
  <2> DEFINE seen == ObserveHost(draft, host)
  <2>1. /\ pc = "editing" /\ draft' = ObserveNano(seen, Reading)
        /\ UNCHANGED <<unconfirmed, pc, plan, wanted>>
    BY <1>3 DEF Observe, past
  <2>2. seen \in Drafts /\ seen.nano = draft.nano
    BY <1>1, HostReadType, HostReadFields
  <2> HIDE DEF seen
  <2>3. IF NanoChanges(seen) # {}
          THEN draft'.nano.values = draft.nano.values /\ draft'.nano.baseline = draft.nano.baseline
          ELSE draft'.nano.values = Reading.values /\ draft'.nano.baseline = Reading
    BY <1>1, <2>1, <2>2, ObservedFields
  <2>4. ASSUME NEW c \in ConfigScopes, NEW v \in wanted[c]
        PROVE  KeptIn(draft', unconfirmed, c, v)
    <3>1. KeptIn(draft, unconfirmed, c, v)
      BY DEF SettingsKept
    <3>2. Pending(draft, c) => NanoChanges(seen) # {}
      BY <2>2, SettingIsPending DEF Pending
    <3>3. QED
      BY <2>3, <3>1, <3>2 DEF KeptIn, Pending
  <2>5. QED
    BY <2>1, <2>4 DEF SettingsKept, OfNano
<1>4. CASE Discard
  <2>1. /\ pc = "editing" /\ unconfirmed' = {} /\ wanted' = [s \in Scopes |-> {}]
        /\ UNCHANGED <<pc, plan>>
    BY <1>4 DEF Discard
  <2>2. QED
    BY <2>1, SettingIsPending DEF SettingsKept, OfNano, Scopes
<1>5. CASE Prepare
  BY <1>5, PrepareSettings
<1>6. CASE Cancel \/ Confirm \/ Done
  <2>1. /\ UNCHANGED <<draft, unconfirmed, wanted>>
        /\ \/ pc' = "editing" /\ plan' = NoPlan
           \/ pc # "editing" /\ pc' # "editing" /\ UNCHANGED plan
    BY <1>6 DEF Cancel, Confirm, Done, user, past
  <2>2. CASE pc' = "editing" /\ plan' = NoPlan
    <3>1. plan'.ops = {}
      BY <2>2 DEF NoPlan
    <3>2. QED
      BY <2>1, <2>2, <3>1 DEF SettingsKept, OfNano
  <2>3. CASE pc # "editing" /\ pc' # "editing" /\ UNCHANGED plan
    BY <2>1, <2>3 DEF SettingsKept
  <2>4. QED
    BY <2>1, <2>2, <2>3
<1>7. ASSUME NEW op \in plan.ops, Look(op) \/ LookHost(op) PROVE SettingsKept'
  <2>1. /\ UNCHANGED <<draft, unconfirmed, wanted>> /\ pc # "editing" /\ pc' # "editing"
        /\ \/ plan' = [plan EXCEPT !.op = op]
           \/ plan' = [plan EXCEPT !.blocked = TRUE]
           \/ plan' = [plan EXCEPT !.ops = {}]
    BY <1>7, LookOutcome DEF LookHost, user, past
  <2>2. /\ plan'.read = plan.read /\ plan'.ops \subseteq plan.ops
        /\ ~plan'.blocked => ~plan.blocked
    BY <1>1, <2>1 DEF Plans
  <2>3. QED
    BY <2>1, <2>2 DEF SettingsKept, OfNano
<1>8. CASE WriteConfiguration
  <2> DEFINE op   == plan.op
             next == [values |-> [ram.values EXCEPT ![op.scope] = op.after],
                      gen |-> ram.gen + 1]
             read == Snapshot(next.values, next.gen, names.label, names.gen)
  <2>1. /\ pc = "write" /\ pc' = "execute" /\ op \in Changes /\ op.scope \in ConfigScopes
        /\ next \in Settled
        /\ \/ Failed(op)
           \/ ram.gen = plan.read.gen /\ Saved(op, read)
    BY <1>8, WriteConfigurationOutcome
  <2>2. CASE Failed(op)
    BY <2>1, <2>2, FailedSettings
  <2>3. CASE ram.gen = plan.read.gen /\ Saved(op, read)
    <3>1. read.values = [ram.values EXCEPT ![op.scope] = op.after]
      BY SnapshotFields
    <3>2. read \in Snapshots
      BY <1>1, <2>1 DEF Snapshot, Snapshots, Settled
    <3>3. ram.values = plan.read.values /\ ~plan.blocked
      BY <2>1, <2>3 DEF Seen, NanoAsSeen
    <3> HIDE DEF read, next
    <3>4. \A c \in ConfigScopes \ {op.scope} : read.values[c] = plan.read.values[c]
      BY <1>1, <3>1, <3>3 DEF Settled
    <3>5. QED
      BY <2>1, <2>3, <3>2, <3>3, <3>4, SavedSettings
  <2>4. QED
    BY <2>1, <2>2, <2>3
<1>9. CASE WriteNames
  <2> DEFINE op   == plan.op
             next == IF names.label = op.after THEN names
                     ELSE [label |-> op.after, gen |-> names.gen + 1]
             read == Snapshot(ram.values, ram.gen, next.label, next.gen)
  <2>1. /\ pc = "write" /\ pc' = "execute" /\ op \in Changes
        /\ next \in [label : Values, gen : Nat]
        /\ \/ Failed(op)
           \/ Settings(Reading) = Settings(plan.read) /\ Saved(op, read)
    BY <1>9, WriteNamesOutcome
  <2>2. CASE Failed(op)
    BY <2>1, <2>2, FailedSettings
  <2>3. CASE Settings(Reading) = Settings(plan.read) /\ Saved(op, read)
    <3>1. read.values = ram.values /\ Reading.values = ram.values
      BY SnapshotFields DEF Reading
    <3>2. read \in Snapshots
      BY <1>1, <2>1 DEF Snapshot, Snapshots, Settled
    <3>3. read.values = plan.read.values /\ ~plan.blocked
      BY <2>1, <2>3, <3>1 DEF Settings, Seen
    <3> HIDE DEF read, next
    <3>4. QED
      BY <2>1, <2>3, <3>2, <3>3, SavedSettings
  <2>4. QED
    BY <2>1, <2>2, <2>3
<1>10. CASE SaveHost
  <2>1. /\ pc = "save"
        /\ \/ Failed(plan.op) /\ pc' = "execute"
           \/ pc' = "verify" /\ UNCHANGED <<user, plan, wanted>>
    BY <1>10, SaveHostOutcome
  <2>2. QED
    BY <2>1, FailedSettings DEF SettingsKept, user
<1>11. CASE VerifyHost
  <2>1. /\ pc = "verify" /\ pc' = "execute" /\ plan.op.scope = "host"
        /\ \/ Failed(plan.op)
           \/ /\ draft' = AcceptHost(draft, host) /\ unconfirmed' = Verified("host")
              /\ plan' = [plan EXCEPT !.ops = {}]
              /\ wanted' = [wanted EXCEPT !["host"] = {}]
    BY <1>11 DEF VerifyHost, Doubted
  <2>2. CASE Failed(plan.op)
    BY <2>1, <2>2, FailedSettings
  <2>3. CASE ~Failed(plan.op)
    <3>1. /\ plan'.read = plan.read /\ plan'.blocked = plan.blocked /\ plan'.ops = {}
          /\ draft'.nano = draft.nano
          /\ unconfirmed' = {o \in unconfirmed : o.scope # "host"}
      BY <1>1, <2>1, <2>3, HostReadFields DEF Plans, Verified
    <3>2. ASSUME NEW c \in ConfigScopes, NEW v \in wanted'[c]
          PROVE  KeptIn(draft', unconfirmed', c, v)
      <4>1. c # "host" /\ v \in wanted[c]
        BY <1>1, <2>1, <2>3, <3>2, SettingIsPending
      <4>2. KeptIn(draft, unconfirmed, c, v)
        BY <4>1 DEF SettingsKept
      <4>3. QED
        BY <3>1, <4>1, <4>2 DEF KeptIn, Pending
    <3>3. wanted'["names"] = {}
      BY <1>1, <2>1, <2>3 DEF SettingsKept, Scopes
    <3>4. \A c \in ConfigScopes : Pending(draft', c) = Pending(draft, c)
      BY <3>1 DEF Pending
    <3>5. QED
      BY <2>1, <3>1, <3>2, <3>3, <3>4 DEF SettingsKept, OfNano
  <2>4. QED
    BY <2>2, <2>3
<1>12. CASE ForeignWrite \/ Restart
  BY <1>12 DEF ForeignWrite, Restart, SettingsKept, user, past
<1>13. CASE UNCHANGED vars
  BY <1>13 DEF vars, SettingsKept
<1>14. QED
  BY <1>2, <1>3, <1>4, <1>5, <1>6, <1>7, <1>8, <1>9, <1>10, <1>11, <1>12, <1>13 DEF Next

LEMMA AlwaysSettings ==
  ASSUME TroublesApart
  PROVE  Spec => []SettingsKept
<1>1. Init => Doubted
  BY DEF Init, Doubted
<1>2. TypeOK /\ Doubted /\ [Next]_vars => Doubted'
  BY StepDoubted
<1>3. TypeOK /\ Seen /\ Doubted /\ SettingsKept /\ [Next]_vars => SettingsKept'
  BY StepSettings
<1>4. QED
  BY <1>1, <1>2, <1>3, InitSettings, TypeCorrect, AlwaysSeen, PTL DEF Spec

LEMMA SettingsKeptSo ==
  ASSUME SettingsKept
  PROVE  \A s \in Scopes \ {"host"} : IsKept(s)
<1>1. IsKept("names")
  BY DEF SettingsKept, IsKept
<1>2. ASSUME NEW c \in ConfigScopes PROVE IsKept(c)
  BY SettingIsPending DEF SettingsKept, IsKept, KeptIn
<1>3. QED
  BY <1>1, <1>2 DEF Scopes

(* What the user has set for the Nano is never lost, whatever another client writes,
   whatever is lost, and whether or not the Nano stores and remembers it. *)
THEOREM SettingsAreKept ==
  ASSUME TroublesApart
  PROVE  Spec => [](\A s \in Scopes \ {"host"} : IsKept(s))
BY AlwaysSettings, SettingsKeptSo, PTL

LEMMA StepStored ==
  ASSUME TypeOK, Doubted, Planned, SettingsKept, [Next]_vars, NEW s \in Scopes \ {"host"}
  PROVE  IsStored(s)
<1>1. wanted \in [Scopes -> SUBSET Values] /\ plan \in Plans /\ ram \in Settled
  BY DEF TypeOK
<1> SUFFICES ASSUME wanted[s] # {}, wanted'[s] = {}, pc \in {"write", "verify"}
             PROVE  s # "names" /\ wanted[s] = {stored'.values[s]}
  BY DEF IsStored
<1>2. s # "names" /\ s \in ConfigScopes
  BY DEF SettingsKept, Scopes
<1>3. CASE WriteConfiguration
  <2> DEFINE op   == plan.op
             next == [values |-> [ram.values EXCEPT ![op.scope] = op.after],
                      gen |-> ram.gen + 1]
  <2>1. /\ pc = "write" /\ op \in Changes /\ op.scope \in ConfigScopes
        /\ \/ UNCHANGED wanted
           \/ stored' = next /\ wanted' = [wanted EXCEPT ![op.scope] = {}]
    BY <1>3, WriteConfigurationOutcome DEF Saved, Failed
  <2>2. s = op.scope /\ stored' = next
    BY <1>1, <2>1
  <2>3. next.values[op.scope] = op.after
    BY <1>1, <2>1 DEF Settled
  <2> HIDE DEF next
  <2>4. wanted[op.scope] \subseteq {op.after}
    BY <2>1 DEF Planned, SettingsKept
  <2>5. QED
    BY <1>2, <2>2, <2>3, <2>4
<1>4. CASE WriteNames
  <2>1. /\ plan.op \in Changes /\ plan.op.scope = "names"
        /\ UNCHANGED wanted \/ wanted' = [wanted EXCEPT ![plan.op.scope] = {}]
    BY <1>4, WriteNamesOutcome DEF Saved, Failed
  <2>2. QED
    BY <1>1, <1>2, <2>1
<1>5. CASE VerifyHost
  <2>1. UNCHANGED wanted \/ wanted' = [wanted EXCEPT !["host"] = {}]
    BY <1>5 DEF VerifyHost, Failed
  <2>2. QED
    BY <1>1, <2>1
<1>6. CASE ForeignWrite \/ Restart \/ UNCHANGED vars
  BY <1>6 DEF ForeignWrite, Restart, vars, past
<1>7. QED
  BY <1>3, <1>4, <1>5, <1>6 DEF Next, Edit, Observe, Discard, Prepare, Cancel, Confirm, Look,
     LookHost, SaveHost, Done

(* What is reported as saved in the Nano was set by the user, and its EEPROM has it. *)
THEOREM SettingsAreStored ==
  ASSUME TroublesApart
  PROVE  Spec => [][\A s \in Scopes \ {"host"} : IsStored(s)]_vars
<1>1. Init => Doubted
  BY DEF Init, Doubted
<1>2. TypeOK /\ Doubted /\ [Next]_vars => Doubted'
  BY StepDoubted
<1>3. TypeOK /\ Seen /\ Planned /\ [Next]_vars => Planned'
  BY StepPlanned
<1>4. TypeOK /\ Doubted /\ Planned /\ SettingsKept /\ [Next]_vars
        => [\A s \in Scopes \ {"host"} : IsStored(s)]_vars
  BY StepStored
<1>5. QED
  BY <1>1, <1>2, <1>3, <1>4, InitPlanned, AlwaysSettings, TypeCorrect, AlwaysSeen, PTL DEF Spec

-----------------------------------------------------------------------------
(* The daemon's configuration.  It has no record of what was reviewed but the write
   itself, which a later retry repeats: what another client has written between the
   two may be taken for it.  The theorems below are about a user who is alone. *)
NobodyElseWrites == \A e \in Environments : e.foreign = 0

(* What is set is pending, or the daemon has it. *)
MappingKeptIn(d, h, v) == d.hostDesired.mapping = v /\ (HostDirty(d) \/ h.mapping = v)

MappingKept ==
  /\ env.foreign = 0
  /\ \A v \in wanted["host"] : MappingKeptIn(draft, host, v)
  /\ \A op \in plan.ops : op.scope = "host" => wanted["host"] \subseteq {op.after}
  /\ pc \in {"save", "verify"} => wanted["host"] \subseteq {plan.op.after}

LEMMA InitMapping == NobodyElseWrites /\ Init => MappingKept
BY DEF NobodyElseWrites, Init, MappingKept, NoPlan, Scopes

LEMMA HostReadMapping ==
  ASSUME NEW d \in Drafts, NEW h \in Hosts, NEW retry, NEW v, MappingKeptIn(d, h, v)
  PROVE  MappingKeptIn(ObserveHost(d, h), h, v) /\ MappingKeptIn(PrepareHost(d, h, retry), h, v)
<1>1. MappingKeptIn(ObserveHost(d, h), h, v)
  <2>1. CASE HostDirty(d)
    <3>1. /\ ObserveHost(d, h).hostDesired = d.hostDesired
          /\ ObserveHost(d, h).hostBaseline = d.hostBaseline
      BY <2>1 DEF ObserveHost, Drafts
    <3>2. QED
      BY <2>1, <3>1 DEF MappingKeptIn, HostDirty
  <2>2. CASE ~HostDirty(d)
    <3>1. ObserveHost(d, h).hostDesired = h
      BY <2>2 DEF ObserveHost, Drafts
    <3>2. QED
      BY <2>2, <3>1 DEF MappingKeptIn
  <2>3. QED
    BY <2>1, <2>2
<1>2. MappingKeptIn(RebaseHost(d, h), h, v)
  <2> DEFINE w == [d.hostDesired EXCEPT !.revision = h.revision]
  <2>1. w.mapping = d.hostDesired.mapping
    BY DEF Drafts, Hosts
  <2> HIDE DEF w
  <2>2. RebaseHost(d, h) = [d EXCEPT !.hostBaseline = h, !.hostLatest = h, !.hostDesired = w]
    BY DEF RebaseHost, w, Drafts
  <2>3. RebaseHost(d, h).hostDesired = w /\ RebaseHost(d, h).hostBaseline = h
    BY <2>2 DEF Drafts
  <2>4. QED
    BY <2>1, <2>3 DEF MappingKeptIn, HostDirty
<1>3. QED
  BY <1>1, <1>2 DEF PrepareHost

(* What is read from the Nano, staged or accepted changes none of it. *)
LEMMA NanoReadMapping ==
  ASSUME NEW d \in Drafts, NEW x \in Snapshots, NEW retry, NEW ops, NEW s
  PROVE  \A e \in {ObserveNano(d, x), AcceptNano(d, x, s), PrepareNano(d, x, retry),
                   Staged(d, ops)} :
           e.hostBaseline = d.hostBaseline /\ e.hostDesired = d.hostDesired
<1>1. ASSUME NEW r
      PROVE  /\ AcceptNano(d, x, r).hostBaseline = d.hostBaseline
             /\ AcceptNano(d, x, r).hostDesired = d.hostDesired
  BY AcceptedFields
<1>2. /\ ObserveNano(d, x).hostBaseline = d.hostBaseline
      /\ ObserveNano(d, x).hostDesired = d.hostDesired
  BY ObservedFields
<1>3. /\ PrepareNano(d, x, retry).hostBaseline = d.hostBaseline
      /\ PrepareNano(d, x, retry).hostDesired = d.hostDesired
  <2> DEFINE read == IF OfNano(retry) # {} THEN RebaseNano(d, x) ELSE ObserveNano(d, x)
             m    == d.hostDesired.mapping
  <2>1. read \in Drafts /\ "names" \in Scopes
    BY NanoReadType DEF Scopes
  <2>2. read.hostBaseline = d.hostBaseline /\ read.hostDesired = d.hostDesired
    BY <1>1, <1>2 DEF RebaseNano
  <2>3. PrepareNano(d, x, retry) = Edited(read, "names", m)
    BY DEF PrepareNano
  <2> HIDE DEF read, m
  <2>4. /\ Edited(read, "names", m).hostBaseline = read.hostBaseline
        /\ Edited(read, "names", m).hostDesired = read.hostDesired
    BY <2>1, EditedFields
  <2>5. QED
    BY <2>2, <2>3, <2>4
<1>4. /\ Staged(d, ops).hostBaseline = d.hostBaseline
      /\ Staged(d, ops).hostDesired = d.hostDesired
  BY StagedFields
<1>5. QED
  BY <1>1, <1>2, <1>3, <1>4

LEMMA PrepareMapping ==
  ASSUME TypeOK, MappingKept, Prepare, env'.foreign = 0
  PROVE  MappingKept'
<1> DEFINE read == PrepareHost(draft, host, unconfirmed)
<1>1. /\ UNCHANGED <<host, wanted>> /\ read \in Drafts /\ "host" \in Scopes
      /\ Reading \in Snapshots
  BY PrepareDetail, ReadingType DEF past, Scopes
<1>2. PICK open \in BOOLEAN, ready \in Drafts, base \in Snapshots :
        LET ops == Operations(ready, base, host, unconfirmed)
        IN  /\ IF open THEN ready = PrepareNano(read, Reading, unconfirmed) ELSE ready = read
            /\ draft' = Staged(ready, ops) /\ plan'.ops = ops
            /\ pc' = (IF ops = {} THEN "editing" ELSE "review")
  BY PrepareDetail
<1> DEFINE ops == Operations(ready, base, host, unconfirmed)
<1>3. \A v \in wanted["host"] : MappingKeptIn(read, host, v)
  BY HostReadMapping DEF MappingKept, TypeOK
<1> HIDE DEF read
<1>4. ready.hostBaseline = read.hostBaseline /\ ready.hostDesired = read.hostDesired
  BY <1>1, <1>2, NanoReadMapping
<1>5. \A op \in ops : op.scope = "host" => op.after = ready.hostDesired.mapping
  BY OperationOfHost
<1>6. draft' = Staged(ready, ops) /\ plan'.ops = ops /\ pc' \in {"editing", "review"}
  BY <1>2
<1> HIDE DEF ops
<1>7. draft'.hostBaseline = ready.hostBaseline /\ draft'.hostDesired = ready.hostDesired
  BY <1>1, <1>6, NanoReadMapping
<1>8. QED
  BY <1>1, <1>3, <1>4, <1>5, <1>6, <1>7 DEF MappingKept, MappingKeptIn, HostDirty

(* The end of a write of the Nano, and of one that failed. *)
LEMMA SavedMapping ==
  ASSUME TypeOK, MappingKept, NEW op \in Changes, NEW read \in Snapshots, Saved(op, read),
         op.scope # "host", pc' = "execute", UNCHANGED host, env'.foreign = 0
  PROVE  MappingKept'
<1>1. /\ draft' = AcceptNano(draft, read, op.scope) /\ plan'.ops = plan.ops \ {op}
      /\ wanted' = [wanted EXCEPT ![op.scope] = {}]
  BY SavedPlan DEF Saved
<1>2. wanted'["host"] = wanted["host"]
  BY <1>1 DEF TypeOK, Scopes
<1>3. draft'.hostBaseline = draft.hostBaseline /\ draft'.hostDesired = draft.hostDesired
  BY <1>1, NanoReadMapping DEF TypeOK
<1>4. QED
  BY <1>1, <1>2, <1>3 DEF MappingKept, MappingKeptIn, HostDirty

LEMMA FailedMapping ==
  ASSUME TypeOK, MappingKept, NEW op, Failed(op), pc' = "execute", env'.foreign = 0,
         UNCHANGED host \/ wanted["host"] \subseteq {host'.mapping}
  PROVE  MappingKept'
<1>1. plan'.ops = plan.ops \ {op} /\ UNCHANGED <<draft, wanted>>
  BY FailedPlan DEF Failed
<1>2. QED
  BY <1>1 DEF MappingKept, MappingKeptIn

LEMMA StepMapping ==
  ASSUME TypeOK, Doubted, SettingsKept, MappingKept, [Next]_vars
  PROVE  MappingKept'
<1>1. /\ draft \in Drafts /\ plan \in Plans /\ ram \in Settled /\ Reading \in Snapshots
      /\ names \in [label : Values, gen : Nat] /\ host \in Hosts
      /\ wanted \in [Scopes -> SUBSET Values] /\ "host" \in Scopes
  BY ReadingType DEF TypeOK, Scopes
<1>2. ASSUME NEW b \in {"lost", "broken", "restarts"}, Spend(b) PROVE env'.foreign = 0
  BY <1>2, SpendType DEF TypeOK, MappingKept
<1>3. env' = env => env'.foreign = 0
  BY DEF MappingKept
<1>4. ASSUME NEW s \in Scopes \ {"names"}, NEW v \in Values, Edit(s, v) PROVE MappingKept'
  <2> DEFINE e == Edited(draft, s, v)
  <2>1. /\ pc = "editing" /\ draft' = e /\ UNCHANGED <<env, host, pc, plan>>
        /\ wanted' = [wanted EXCEPT ![s] = IF s \in DirtyScopes(e) THEN {v} ELSE {}]
    BY <1>4 DEF Edit
  <2>2. /\ e.hostBaseline = draft.hostBaseline
        /\ e.hostDesired.mapping = IF s = "host" THEN v ELSE draft.hostDesired.mapping
        /\ s # "host" => e.hostDesired = draft.hostDesired
    BY <1>1, EditedFields
  <2>3. "host" \in DirtyScopes(e) <=> HostDirty(e)
    BY DEF DirtyScopes, NanoChanges
  <2> HIDE DEF e
  <2>4. ASSUME NEW u \in wanted'["host"] PROVE MappingKeptIn(draft', host', u)
    <3>1. CASE s = "host"
      BY <1>1, <2>1, <2>2, <2>3, <2>4, <3>1 DEF MappingKeptIn
    <3>2. CASE s # "host"
      <4>1. u \in wanted["host"]
        BY <1>1, <2>1, <2>4, <3>2
      <4>2. QED
        BY <2>1, <2>2, <3>2, <4>1 DEF MappingKept, MappingKeptIn, HostDirty
    <3>3. QED
      BY <3>1, <3>2
  <2>5. plan.ops = {}
    BY <2>1 DEF SettingsKept
  <2>6. QED
    BY <1>3, <2>1, <2>4, <2>5 DEF MappingKept
<1>5. CASE Observe
  <2> DEFINE seen == ObserveHost(draft, host)
  <2>1. /\ draft' = ObserveNano(seen, Reading) /\ UNCHANGED <<env, host, pc, plan, wanted>>
    BY <1>5 DEF Observe, past
  <2>2. seen \in Drafts /\ \A v \in wanted["host"] : MappingKeptIn(seen, host, v)
    BY <1>1, HostReadType, HostReadMapping DEF MappingKept
  <2> HIDE DEF seen
  <2>3. draft'.hostBaseline = seen.hostBaseline /\ draft'.hostDesired = seen.hostDesired
    BY <1>1, <2>1, <2>2, NanoReadMapping
  <2>4. QED
    BY <1>3, <2>1, <2>2, <2>3 DEF MappingKept, MappingKeptIn, HostDirty
<1>6. CASE Discard
  <2>1. /\ pc = "editing" /\ wanted' = [s \in Scopes |-> {}] /\ UNCHANGED <<env, pc, plan>>
    BY <1>6 DEF Discard
  <2>2. QED
    BY <1>1, <1>3, <2>1 DEF MappingKept
<1>7. CASE Prepare
  BY <1>2, <1>3, <1>7, PrepareMapping, PrepareOutcome
<1>8. CASE Cancel \/ Confirm \/ Done
  <2>1. /\ UNCHANGED <<env, draft, host, wanted>> /\ pc' \notin {"save", "verify"}
        /\ plan' = NoPlan \/ UNCHANGED plan
    BY <1>8 DEF Cancel, Confirm, Done, user, past
  <2>2. NoPlan.ops = {}
    BY DEF NoPlan
  <2>3. QED
    BY <1>3, <2>1, <2>2 DEF MappingKept
<1>9. ASSUME NEW op \in plan.ops, Look(op) PROVE MappingKept'
  <2>1. /\ UNCHANGED <<draft, host, wanted>> /\ pc = "execute" /\ pc' \in {"execute", "write"}
        /\ env' = env \/ Spend("lost")
        /\ plan' = [plan EXCEPT !.op = op] \/ plan' = [plan EXCEPT !.blocked = TRUE]
    BY <1>9, LookOutcome DEF user, past
  <2>2. plan'.ops = plan.ops /\ env'.foreign = 0
    BY <1>1, <1>2, <1>3, <2>1 DEF Plans
  <2>3. QED
    BY <2>1, <2>2 DEF MappingKept
<1>10. ASSUME NEW op \in plan.ops, LookHost(op) PROVE MappingKept'
  <2>1. /\ UNCHANGED <<draft, host, wanted>> /\ pc = "execute" /\ op.scope = "host"
        /\ \/ plan' = [plan EXCEPT !.op = op] /\ pc' = "save"
           \/ plan' = [plan EXCEPT !.ops = {}] /\ pc' = pc
    BY <1>10 DEF LookHost, user, past
  <2>2. env'.foreign = 0
    BY <1>2, <1>3, <1>10, LookHostSpends
  <2>3. \/ plan'.op = op /\ plan'.ops = plan.ops
        \/ plan'.ops = {} /\ pc' = "execute"
    BY <1>1, <2>1 DEF Plans
  <2>4. QED
    BY <2>1, <2>2, <2>3 DEF MappingKept
<1>11. CASE WriteConfiguration \/ WriteNames
  <2>1. /\ plan.op \in Changes /\ plan.op.scope # "host" /\ pc' = "execute" /\ UNCHANGED host
        /\ env' = env \/ Spend("lost") \/ Spend("broken")
        /\ Failed(plan.op) \/ \E read \in Snapshots : Saved(plan.op, read)
    <3>1. CASE WriteConfiguration
      <4> DEFINE next == [values |-> [ram.values EXCEPT ![plan.op.scope] = plan.op.after],
                          gen |-> ram.gen + 1]
                 read == Snapshot(next.values, next.gen, names.label, names.gen)
      <4>1. /\ plan.op \in Changes /\ plan.op.scope \in ConfigScopes /\ pc' = "execute"
            /\ UNCHANGED host /\ next \in Settled
            /\ env' = env \/ Spend("lost") \/ Spend("broken")
            /\ Failed(plan.op) \/ Saved(plan.op, read)
        BY <3>1, WriteConfigurationOutcome
      <4> HIDE DEF next
      <4>2. read \in Snapshots
        BY <1>1, <4>1 DEF Snapshot, Snapshots, Settled
      <4> HIDE DEF read
      <4>3. QED
        BY <4>1, <4>2, SettingIsPending
    <3>2. CASE WriteNames
      <4> DEFINE next == IF names.label = plan.op.after THEN names
                         ELSE [label |-> plan.op.after, gen |-> names.gen + 1]
                 read == Snapshot(ram.values, ram.gen, next.label, next.gen)
      <4>1. /\ plan.op \in Changes /\ plan.op.scope = "names" /\ pc' = "execute"
            /\ UNCHANGED host /\ next \in [label : Values, gen : Nat]
            /\ env' = env \/ Spend("lost") \/ Spend("broken")
            /\ Failed(plan.op) \/ Saved(plan.op, read)
        BY <3>2, WriteNamesOutcome
      <4> HIDE DEF next
      <4>2. read \in Snapshots
        BY <1>1, <4>1 DEF Snapshot, Snapshots, Settled
      <4> HIDE DEF read
      <4>3. QED
        BY <4>1, <4>2
    <3>3. QED
      BY <1>11, <3>1, <3>2
  <2>2. env'.foreign = 0
    BY <1>2, <1>3, <2>1
  <2>3. QED
    BY <2>1, <2>2, SavedMapping, FailedMapping
<1>12. CASE SaveHost
  <2>1. /\ pc = "save" /\ (env' = env \/ Spend("lost") \/ Spend("broken"))
        /\ \/ UNCHANGED host /\ Failed(plan.op) /\ pc' = "execute"
           \/ /\ host' = Host(plan.op.after, host.revision + 1)
              /\ \/ pc' = "verify" /\ UNCHANGED <<user, plan, wanted>>
                 \/ Failed(plan.op) /\ pc' = "execute"
    BY <1>12, SaveHostOutcome
  <2>2. env'.foreign = 0 /\ wanted["host"] \subseteq {plan.op.after}
    BY <1>2, <1>3, <2>1 DEF MappingKept
  <2>3. CASE Failed(plan.op) /\ pc' = "execute"
    <3>1. UNCHANGED host \/ wanted["host"] \subseteq {host'.mapping}
      BY <2>1, <2>2 DEF Host
    <3>2. QED
      BY <2>2, <2>3, <3>1, FailedMapping
  <2>4. CASE /\ pc' = "verify" /\ UNCHANGED <<user, plan, wanted>>
             /\ host' = Host(plan.op.after, host.revision + 1)
    <3>1. wanted["host"] \subseteq {host'.mapping} /\ UNCHANGED draft
      BY <2>2, <2>4 DEF Host, user
    <3>2. \A v \in wanted["host"] : MappingKeptIn(draft, host', v)
      BY <3>1 DEF MappingKept, MappingKeptIn
    <3>3. QED
      BY <2>2, <2>4, <3>1, <3>2 DEF MappingKept
  <2>5. QED
    BY <2>1, <2>3, <2>4
<1>13. CASE VerifyHost
  <2>1. /\ pc' = "execute" /\ UNCHANGED <<env, host>>
        /\ \/ Failed(plan.op)
           \/ /\ plan' = [plan EXCEPT !.ops = {}]
              /\ wanted' = [wanted EXCEPT !["host"] = {}]
    BY <1>13 DEF VerifyHost
  <2>2. CASE Failed(plan.op)
    BY <1>3, <2>1, <2>2, FailedMapping
  <2>3. CASE ~Failed(plan.op)
    <3>1. plan'.ops = {} /\ wanted'["host"] = {}
      BY <1>1, <2>1, <2>3 DEF Plans
    <3>2. QED
      BY <1>3, <2>1, <3>1 DEF MappingKept
  <2>4. QED
    BY <2>2, <2>3
<1>14. CASE ForeignWrite
  <2>1. env.foreign > 0
    BY <1>14, SpendType DEF ForeignWrite, TypeOK
  <2>2. QED
    BY <2>1 DEF MappingKept
<1>15. CASE Restart
  BY <1>2, <1>15 DEF Restart, MappingKept, user, past
<1>16. CASE UNCHANGED vars
  BY <1>16 DEF vars, MappingKept
<1>17. QED
  BY <1>4, <1>5, <1>6, <1>7, <1>8, <1>9, <1>10, <1>11, <1>12, <1>13, <1>14, <1>15,
     <1>16 DEF Next

LEMMA AlwaysMapping ==
  ASSUME NobodyElseWrites
  PROVE  TroublesApart /\ (Spec => [](SettingsKept /\ MappingKept))
<1>1. TroublesApart
  BY DEF NobodyElseWrites, TroublesApart
<1>2. Init => Doubted /\ MappingKept
  BY InitMapping DEF Init, Doubted
<1>3. TypeOK /\ Doubted /\ [Next]_vars => Doubted'
  BY StepDoubted
<1>4. TypeOK /\ Doubted /\ SettingsKept /\ MappingKept /\ [Next]_vars => MappingKept'
  BY StepMapping
<1>5. Spec => []SettingsKept
  BY <1>1, AlwaysSettings
<1>6. Spec => [](SettingsKept /\ MappingKept)
  BY <1>2, <1>3, <1>4, <1>5, TypeCorrect, PTL DEF Spec
<1>7. QED
  BY <1>1, <1>6

(* Nothing that a user who is alone has set is ever lost, in the Nano or the daemon. *)
THEOREM EditsAreAlwaysKept ==
  ASSUME NobodyElseWrites
  PROVE  Spec => []EditsAreKept
<1>1. ASSUME SettingsKept, MappingKept PROVE EditsAreKept
  <2>1. IsKept("host")
    BY <1>1 DEF MappingKept, MappingKeptIn, IsKept, Desired
  <2>2. QED
    BY <1>1, <2>1, SettingsKeptSo DEF EditsAreKept
<1>2. QED
  BY <1>1, AlwaysMapping, PTL

(* What is reported to a user who is alone as saved is in the EEPROM or the daemon. *)
THEOREM SavedIsAlwaysStored ==
  ASSUME NobodyElseWrites
  PROVE  Spec => SavedIsStored
<1>1. Init => Doubted
  BY DEF Init, Doubted
<1>2. TypeOK /\ Doubted /\ [Next]_vars => Doubted'
  BY StepDoubted
<1>3. ASSUME TypeOK, Doubted, MappingKept, [Next]_vars PROVE IsStored("host")
  <2> SUFFICES ASSUME wanted["host"] # {}, wanted'["host"] = {}, pc \in {"write", "verify"}
               PROVE  wanted["host"] = {host.mapping}
    BY DEF IsStored
  <2>1. wanted \in [Scopes -> SUBSET Values]
    BY <1>3 DEF TypeOK
  <2>2. CASE VerifyHost
    <3>1. /\ pc = "verify"
          /\ host = Host(plan.op.after, plan.host.revision + 1) \/ UNCHANGED wanted
      BY <2>2 DEF VerifyHost, Failed
    <3>2. host.mapping = plan.op.after
      BY <3>1 DEF Host
    <3>3. wanted["host"] \subseteq {plan.op.after}
      BY <1>3, <3>1 DEF MappingKept
    <3>4. QED
      BY <3>2, <3>3
  <2>3. CASE WriteConfiguration
    <3>1. /\ plan.op.scope \in ConfigScopes
          /\ UNCHANGED wanted \/ wanted' = [wanted EXCEPT ![plan.op.scope] = {}]
      BY <1>3, <2>3, WriteConfigurationOutcome DEF Saved, Failed
    <3>2. QED
      BY <2>1, <3>1, SettingIsPending DEF Scopes
  <2>4. CASE WriteNames
    <3>1. /\ plan.op.scope = "names"
          /\ UNCHANGED wanted \/ wanted' = [wanted EXCEPT ![plan.op.scope] = {}]
      BY <1>3, <2>4, WriteNamesOutcome DEF Saved, Failed
    <3>2. QED
      BY <2>1, <3>1 DEF Scopes
  <2>5. CASE UNCHANGED wanted \/ pc \notin {"write", "verify"}
    BY <2>5
  <2>6. QED
    BY <1>3, <2>2, <2>3, <2>4, <2>5 DEF Next, vars, past, Edit, Observe, Discard, Prepare, Cancel,
       Confirm, Look, LookHost, SaveHost, Done, ForeignWrite, Restart
<1>4. ASSUME TypeOK, Doubted, MappingKept, [Next]_vars,
             [\A s \in Scopes \ {"host"} : IsStored(s)]_vars
      PROVE  [\A s \in Scopes : IsStored(s)]_vars
  BY <1>3, <1>4
<1>5. Spec => [][\A s \in Scopes \ {"host"} : IsStored(s)]_vars
  BY AlwaysMapping, SettingsAreStored
<1>6. QED
  BY <1>1, <1>2, <1>4, <1>5, AlwaysMapping, TypeCorrect, PTL DEF Spec, SavedIsStored

=============================================================================
