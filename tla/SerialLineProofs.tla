-------------------------- MODULE SerialLineProofs --------------------------
(***************************************************************************)
(* Theorems about the serial line.                                         *)
(*                                                                         *)
(* The exchange: none takes a late answer for its own, a queue that        *)
(* overflowed says so, and the worker does not sleep through what it waits *)
(* for; for any number of clients, any length of the queue and any budget  *)
(* of losses and delays that does not take the sequence number around.     *)
(*                                                                         *)
(* The framing: what either parser delivers was sent, once and in order,   *)
(* and damage is overcome; for any frames, and any damage and pauses.      *)
(***************************************************************************)
EXTENDS SerialExchange, SerialFraming, SequenceTheorems, TLAPS

-----------------------------------------------------------------------------
(* The exchange. *)

(* The state and its type; of events and masks nothing is needed. *)
Threads      == Clients \cup {Worker}
RequestTypes == {"hello", "status", "command", "temperatures"}
Places == {"idle", "waiting", "exchanging", "closed", "snapshot", "loop", "receive",
           "ingest", "clear", "watch", "pending", "asleep", "failed"}
Sequences  == 0 .. SeqModulus - 1
NanoFrames == [type : RequestTypes, seq : Sequences, own : BOOLEAN]
HostFrames == [kind : {"hello", "status", "ack", "heartbeat", "alert"}, seq : Sequences,
               masks : SUBSET Faults, own : BOOLEAN]
Budgets    == [losses : Nat, delays : Nat, changes : Nat, clients : BOOLEAN,
               beeper : BOOLEAN]
TypeOK ==
  /\ env \in Budgets
  /\ pc \in [Threads -> Places] /\ asked \in [Threads -> RequestTypes]
  /\ holder \in Threads \cup {None} /\ sequence \in Sequences
  /\ toNano \in Seq(NanoFrames) /\ toHost \in Seq(HostFrames)
  /\ faults \in SUBSET Faults

(* Who has the line is in its exchange. *)
Holding == holder # None => pc[holder] = "exchanging"

(* The request of the exchange that goes on is the last one under way, and behind
   its answer there are alerts only. *)
OwnIsLast ==
  /\ \A i \in DOMAIN toNano :
       toNano[i].own =>
         /\ holder # None /\ toNano[i].seq = sequence /\ toNano[i].type = asked[holder]
         /\ i = Len(toNano)
  /\ \A i \in DOMAIN toHost :
       toHost[i].own =>
         /\ holder # None /\ toHost[i].seq = sequence
         /\ toHost[i].kind = Reply(asked[holder])
         /\ toNano = <<>>
         /\ \A j \in DOMAIN toHost : j > i => toHost[j].kind = "alert"

Budget == env.losses + env.delays

(* How far the sequence has gone on since number n, when that is less than a turn. *)
Distance(n) == IF n <= sequence THEN sequence - n ELSE sequence - n + SeqModulus

(* What is left of an exchange that failed is behind the sequence, and what may
   still go wrong cannot take the sequence around to it. *)
Behind(n) ==
  IF holder = None THEN Distance(n) + Budget + 1 < SeqModulus
  ELSE /\ Distance(n) >= 1 /\ Distance(n) + Budget < SeqModulus
       /\ ~Underway => Distance(n) + Budget + 1 < SeqModulus

IsStale(n) ==
  \/ \E i \in DOMAIN toNano : ~toNano[i].own /\ toNano[i].seq = n
  \/ \E i \in DOMAIN toHost :
       ~toHost[i].own /\ toHost[i].kind # "alert" /\ toHost[i].seq = n

StaleIsBehind ==
  /\ Budget + 1 < SeqModulus
  /\ \A n \in Sequences : IsStale(n) => Behind(n)

(* From its last looks at the line and the queue to its sleep, the worker hears of
   what comes: of bytes, or from who has the line, or it is notified already. *)
Wakeful ==
  /\ pc[Worker] \in {"pending", "asleep"} => watching \/ notified \/ holder # None
  /\ pc[Worker] = "asleep" => (events # <<>> \/ dropped => notified)

Inv == TypeOK /\ Holding /\ OwnIsLast /\ StaleIsBehind

(* What the daemon knows of the queue, and that it hears of what was dropped. *)
CentersOf(M) == [masks : M, known : BOOLEAN, connected : BOOLEAN,
                 transportFault : BOOLEAN, historyLost : BOOLEAN]
IsCenter(c)  == \E M : c \in CentersOf(M)

Confessing == IsCenter(center) /\ dropped \in BOOLEAN /\ OverflowConfessed

-----------------------------------------------------------------------------
(* Sequences of frames. *)

LEMMA RemoveAtProperties ==
  ASSUME NEW S, NEW s \in Seq(S), NEW k \in DOMAIN s
  PROVE  LET x == RemoveAt(s, k)
         IN  /\ x \in Seq(S) /\ Len(x) = Len(s) - 1 /\ DOMAIN x = 1 .. Len(s) - 1
             /\ \A i \in DOMAIN x : x[i] = IF i < k THEN s[i] ELSE s[i + 1]
<1> DEFINE a == SubSeq(s, 1, k - 1)
           b == SubSeq(s, k + 1, Len(s))
<1>1. Len(s) \in Nat /\ k \in 1 .. Len(s)
  OBVIOUS
<1>2. a \in Seq(S) /\ Len(a) = k - 1 /\ \A i \in 1 .. k - 1 : a[i] = s[i]
  BY <1>1
<1>3. /\ b \in Seq(S) /\ Len(b) = Len(s) - k
      /\ \A i \in 1 .. Len(s) - k : b[i] = s[i + k]
  BY <1>1
<1> HIDE DEF a, b
<1>4. RemoveAt(s, k) = a \o b
  BY DEF RemoveAt, a, b
<1>5. /\ a \o b \in Seq(S) /\ Len(a \o b) = Len(s) - 1
      /\ \A i \in 1 .. Len(s) - 1 :
           (a \o b)[i] = IF i <= k - 1 THEN a[i] ELSE b[i - (k - 1)]
  BY <1>1, <1>2, <1>3, ConcatProperties, SMTT(60)
<1>6. ASSUME NEW i \in 1 .. Len(s) - 1
      PROVE  (a \o b)[i] = IF i < k THEN s[i] ELSE s[i + 1]
  <2>1. CASE i < k
    BY <1>1, <1>2, <1>5, <2>1
  <2>2. CASE ~(i < k)
    <3>1. i - (k - 1) \in 1 .. Len(s) - k /\ i - (k - 1) + k = i + 1
      BY <1>1, <2>2
    <3>2. b[i - (k - 1)] = s[i + 1]
      BY <1>3, <3>1
    <3>3. ~(i <= k - 1)
      BY <1>1, <2>2
    <3>4. (a \o b)[i] = b[i - (k - 1)]
      BY <1>5, <3>3, Zenon
    <3>5. QED
      BY <2>2, <3>2, <3>4, Zenon
  <2>3. QED
    BY <2>1, <2>2, Zenon
<1>7. QED
  BY <1>4, <1>5, <1>6, SMTT(60)

LEMMA RestProperties ==
  ASSUME NEW S, NEW s \in Seq(S), NEW n \in 1 .. Len(s)
  PROVE  LET x == SubSeq(s, n + 1, Len(s))
         IN  /\ x \in Seq(S) /\ Len(x) = Len(s) - n /\ DOMAIN x = 1 .. Len(s) - n
             /\ \A i \in DOMAIN x : i + n \in DOMAIN s /\ x[i] = s[i + n]
OBVIOUS

LEMMA ReadProperties ==
  ASSUME NEW S, NEW s \in Seq(S), NEW n \in 1 .. Len(s)
  PROVE  /\ DOMAIN SubSeq(s, 1, n) = 1 .. n
         /\ \A i \in 1 .. n : i \in DOMAIN s /\ SubSeq(s, 1, n)[i] = s[i]
OBVIOUS

LEMMA ShortSequences ==
  ASSUME NEW S, NEW a \in S, NEW b \in S
  PROVE  /\ <<>> \o <<>> \o <<a>> = <<a>> /\ <<a>> \o <<>> \o <<>> = <<a>>
         /\ <<a>> \o <<b>> \o <<>> = <<a, b>> /\ <<>> \o <<a>> \o <<b>> = <<a, b>>
         /\ <<>> \o <<a>> \o <<>> = <<a>> /\ <<>> \o <<>> \o <<>> = <<>>
<1>1. <<>> \in Seq(S) /\ <<a>> \in Seq(S) /\ <<b>> \in Seq(S)
  OBVIOUS
<1>2. \A s \in Seq(S) : <<>> \o s = s /\ s \o <<>> = s
  BY ConcatEmptySeq
<1>3. <<a>> \o <<b>> = <<a, b>>
  <2> DEFINE x == <<a>> \o <<b>>
  <2>1. x \in Seq(S) /\ Len(x) = 2 /\ x[1] = a /\ x[2] = b
    BY <1>1, ConcatProperties
  <2> HIDE DEF x
  <2>2. <<a, b>> \in Seq(S) /\ Len(<<a, b>>) = 2
    OBVIOUS
  <2>3. \A i \in 1 .. 2 : x[i] = <<a, b>>[i]
    BY <2>1
  <2>4. x = <<a, b>>
    BY <2>1, <2>2, <2>3, SeqEqual
  <2>5. QED
    BY <2>4 DEF x
<1>4. <<a, b>> \in Seq(S)
  OBVIOUS
<1>5. QED
  BY <1>1, <1>2, <1>3, <1>4

LEMMA DisownedHost ==
  ASSUME NEW s \in Seq(HostFrames)
  PROVE  LET x == Disowned(s)
         IN  /\ x \in Seq(HostFrames) /\ DOMAIN x = DOMAIN s
             /\ \A i \in DOMAIN s : /\ ~x[i].own /\ x[i].seq = s[i].seq
                                    /\ x[i].kind = s[i].kind
<1>1. ASSUME NEW i \in DOMAIN s PROVE [s[i] EXCEPT !.own = FALSE] \in HostFrames
  <2>1. s[i] \in HostFrames
    OBVIOUS
  <2>2. QED
    BY <2>1 DEF HostFrames
<1>2. DOMAIN s = 1 .. Len(s) /\ Len(s) \in Nat
  OBVIOUS
<1>3. Disowned(s) \in Seq(HostFrames)
  BY <1>1, <1>2, IsASeq DEF Disowned
<1>4. \A i \in DOMAIN s : s[i] \in HostFrames
  OBVIOUS
<1>5. QED
  BY <1>1, <1>3, <1>4 DEF Disowned, HostFrames

LEMMA DisownedNano ==
  ASSUME NEW s \in Seq(NanoFrames)
  PROVE  LET x == Disowned(s)
         IN  /\ x \in Seq(NanoFrames) /\ DOMAIN x = DOMAIN s
             /\ \A i \in DOMAIN s : /\ ~x[i].own /\ x[i].seq = s[i].seq
                                    /\ x[i].type = s[i].type
<1>1. ASSUME NEW i \in DOMAIN s PROVE [s[i] EXCEPT !.own = FALSE] \in NanoFrames
  <2>1. s[i] \in NanoFrames
    OBVIOUS
  <2>2. QED
    BY <2>1 DEF NanoFrames
<1>2. DOMAIN s = 1 .. Len(s) /\ Len(s) \in Nat
  OBVIOUS
<1>3. Disowned(s) \in Seq(NanoFrames)
  BY <1>1, <1>2, IsASeq DEF Disowned
<1>4. \A i \in DOMAIN s : s[i] \in NanoFrames
  OBVIOUS
<1>5. QED
  BY <1>1, <1>3, <1>4 DEF Disowned, NanoFrames

-----------------------------------------------------------------------------
(* The sequence number. *)

LEMMA DistanceType ==
  ASSUME sequence \in Sequences, NEW n \in Sequences
  PROVE  Distance(n) \in 0 .. SeqModulus - 1 /\ (Distance(n) = 0 <=> n = sequence)
BY ExchangeAssumption DEF Distance, Sequences

(* The next number is one further from each that is not a turn behind. *)
LEMMA NextSequence ==
  ASSUME sequence \in Sequences, sequence' = (sequence + 1) % SeqModulus,
         NEW n \in Sequences, Distance(n) + 1 < SeqModulus
  PROVE  Distance(n)' = Distance(n) + 1
<1>1. SeqModulus \in Nat \ {0}
  BY ExchangeAssumption DEF Sequences
<1>2. sequence' = IF sequence + 1 < SeqModulus THEN sequence + 1 ELSE 0
  BY <1>1 DEF Sequences
<1>3. QED
  BY <1>1, <1>2 DEF Distance, Sequences

-----------------------------------------------------------------------------
(* The line, action by action. *)

(* What the other threads do leaves it alone. *)
Quiet ==
  /\ UNCHANGED <<holder, line>> /\ Budget' = Budget
  /\ holder # None => asked'[holder] = asked[holder]

LEMMA QuietStep ==
  ASSUME Inv, Quiet
  PROVE  OwnIsLast' /\ StaleIsBehind'
<1>1. UNCHANGED <<holder, sequence, toNano, toHost>> /\ Budget' = Budget
  BY DEF Quiet, line
<1>2. Underway' = Underway
  BY <1>1 DEF Underway
<1>3. \A n : Behind(n)' = Behind(n)
  BY <1>1, <1>2 DEF Behind, Distance
<1>4. OwnIsLast'
  BY <1>1 DEF Quiet, Inv, OwnIsLast
<1>5. \A n : IsStale(n)' = IsStale(n)
  BY <1>1 DEF IsStale
<1>6. StaleIsBehind'
  BY <1>1, <1>3, <1>5 DEF Inv, StaleIsBehind
<1>7. QED
  BY <1>4, <1>6

(* What a pass of the Nano sends. *)
Sent(now) ==
  (IF toNano # <<>> THEN Handled(Head(toNano)) ELSE <<>>)
    \o Published(now)
    \o (IF toNano # <<>> /\ Head(toNano).type = "temperatures"
          THEN SendHeartbeat(Head(toNano), now) ELSE <<>>)

IsAlert(frame)  == frame.kind = "alert" /\ ~frame.own
AnswerTo(frame, request) ==
  /\ frame.kind = Reply(request.type) /\ frame.kind # "alert"
  /\ frame.seq = request.seq /\ frame.own = request.own

(* Alerts, and one answer if there was a request. *)
LEMMA SentFrames ==
  ASSUME TypeOK, NEW now \in SUBSET Faults
  PROVE  /\ Sent(now) \in Seq(HostFrames)
         /\ toNano = <<>> => \A i \in DOMAIN Sent(now) : IsAlert(Sent(now)[i])
         /\ toNano # <<>> =>
              \E k \in DOMAIN Sent(now) :
                /\ AnswerTo(Sent(now)[k], Head(toNano))
                /\ \A i \in DOMAIN Sent(now) : i # k => IsAlert(Sent(now)[i])
<1> DEFINE alert == Alert(now)
           q == Head(toNano)
           status(kind, masks) == Answer(kind, q, masks)
<1>1. alert \in HostFrames /\ IsAlert(alert)
  <2>1. 0 \in Sequences
    BY ExchangeAssumption DEF TypeOK, Sequences
  <2>2. QED
    BY <2>1 DEF Alert, HostFrames, IsAlert
<1>2. Published(now) = <<alert>> \/ Published(now) = <<>>
  BY DEF Published
<1>3. CASE toNano = <<>>
  <2>1. Sent(now) = <<alert>> \/ Sent(now) = <<>>
    BY <1>1, <1>2, <1>3 DEF Sent
  <2> HIDE DEF alert
  <2>2. CASE Sent(now) = <<alert>>
    <3>1. DOMAIN Sent(now) = {1} /\ Sent(now)[1] = alert
      BY <2>2
    <3>2. Sent(now) \in Seq(HostFrames)
      BY <1>1, <2>2
    <3>3. QED
      BY <1>1, <1>3, <3>1, <3>2
  <2>3. CASE Sent(now) = <<>>
    BY <1>3, <2>3
  <2>4. QED
    BY <2>1, <2>2, <2>3
<1>4. CASE toNano # <<>>
  <2>1. q \in NanoFrames
    BY <1>4 DEF TypeOK
  <2>2. PICK a \in HostFrames :
          /\ AnswerTo(a, q)
          /\ \/ Sent(now) = <<a>> \o Published(now) \o <<>>
             \/ Sent(now) = <<>> \o Published(now) \o <<a>>
    <3>1. ASSUME NEW kind \in {"hello", "status", "ack", "heartbeat"},
                 NEW masks \in SUBSET Faults
          PROVE  Answer(kind, q, masks) \in HostFrames
      BY <2>1 DEF Answer, HostFrames, NanoFrames
    <3>2. faults \in SUBSET Faults
      BY DEF TypeOK
    <3>3. CASE q.type = "hello"
      BY <1>4, <3>1, <3>2, <3>3 DEF Sent, Handled, SendHello, AnswerTo, Answer, Reply
    <3>4. CASE q.type = "status"
      BY <1>4, <3>1, <3>2, <3>4 DEF Sent, Handled, SendStatus, AnswerTo, Answer, Reply
    <3>5. CASE q.type = "command"
      BY <1>4, <3>1, <3>2, <3>5 DEF Sent, Handled, SendAck, AnswerTo, Answer, Reply
    <3>6. CASE q.type = "temperatures"
      BY <1>4, <3>1, <3>2, <3>6 DEF Sent, Handled, SendHeartbeat, AnswerTo, Answer, Reply
    <3>7. QED
      BY <2>1, <3>3, <3>4, <3>5, <3>6 DEF NanoFrames, RequestTypes
  <2> HIDE DEF alert, q
  <2>3. \/ Sent(now) = <<a>> \/ Sent(now) = <<a, alert>> \/ Sent(now) = <<alert, a>>
    BY <1>1, <1>2, <2>2, ShortSequences
  <2>4. Sent(now) \in Seq(HostFrames)
    <3>1. <<a>> \in Seq(HostFrames) /\ <<a, alert>> \in Seq(HostFrames)
          /\ <<alert, a>> \in Seq(HostFrames)
      BY <1>1
    <3>2. QED
      BY <2>3, <3>1
  <2>5. \E k \in DOMAIN Sent(now) :
          /\ AnswerTo(Sent(now)[k], q)
          /\ \A i \in DOMAIN Sent(now) : i # k => IsAlert(Sent(now)[i])
    <3>1. CASE Sent(now) = <<alert, a>>
      <4>1. DOMAIN Sent(now) = {1, 2} /\ Sent(now)[1] = alert /\ Sent(now)[2] = a
        BY <3>1
      <4>2. QED
        BY <1>1, <2>2, <4>1
    <3>2. CASE Sent(now) = <<a, alert>>
      <4>1. DOMAIN Sent(now) = {1, 2} /\ Sent(now)[2] = alert /\ Sent(now)[1] = a
        BY <3>2
      <4>2. QED
        BY <1>1, <2>2, <4>1
    <3>3. CASE Sent(now) = <<a>>
      <4>1. DOMAIN Sent(now) = {1} /\ Sent(now)[1] = a
        BY <3>3
      <4>2. QED
        BY <2>2, <4>1
    <3>4. QED
      BY <2>3, <3>1, <3>2, <3>3
  <2>6. QED
    BY <1>4, <2>4, <2>5 DEF q
<1>5. QED
  BY <1>3, <1>4

LEMMA ConcatFour ==
  ASSUME NEW w \in Seq(HostFrames), NEW x \in Seq(HostFrames),
         NEW y \in Seq(HostFrames), NEW z \in Seq(HostFrames)
  PROVE  ((w \o x) \o y) \o z = w \o ((x \o y) \o z)
<1> DEFINE xy == x \o y
<1>1. xy \in Seq(HostFrames)
  BY ConcatProperties
<1>2. (w \o x) \o y = w \o xy
  BY ConcatAssociative
<1> HIDE DEF xy
<1>3. (w \o xy) \o z = w \o (xy \o z)
  BY <1>1, ConcatAssociative, SMTT(60)
<1>4. QED
  BY <1>2, <1>3 DEF xy

LEMMA SentAppended ==
  ASSUME TypeOK, NEW now \in SUBSET Faults
  PROVE  toHost \o (IF toNano # <<>> THEN Handled(Head(toNano)) ELSE <<>>)
           \o Published(now)
           \o (IF toNano # <<>> /\ Head(toNano).type = "temperatures"
                 THEN SendHeartbeat(Head(toNano), now) ELSE <<>>)
         = toHost \o Sent(now)
<1> DEFINE a == IF toNano # <<>> THEN Handled(Head(toNano)) ELSE <<>>
           b == Published(now)
           c == IF toNano # <<>> /\ Head(toNano).type = "temperatures"
                  THEN SendHeartbeat(Head(toNano), now) ELSE <<>>
<1>1. /\ toHost \in Seq(HostFrames)
      /\ toNano # <<>> => Head(toNano) \in NanoFrames
      /\ faults \in SUBSET Faults
  BY DEF TypeOK
<1>2. ASSUME NEW q \in NanoFrames, NEW masks \in SUBSET Faults,
             NEW kind \in {"hello", "status", "ack", "heartbeat"}
      PROVE  <<Answer(kind, q, masks)>> \in Seq(HostFrames)
  <2>1. Answer(kind, q, masks) \in HostFrames
    BY DEF Answer, HostFrames, NanoFrames
  <2>2. QED
    BY <2>1
<1>3. a \in Seq(HostFrames) /\ c \in Seq(HostFrames)
  BY <1>1, <1>2 DEF Handled, SendHello, SendStatus, SendAck, SendHeartbeat
<1>4. b \in Seq(HostFrames)
  <2>1. 0 \in Sequences
    BY ExchangeAssumption DEF TypeOK, Sequences
  <2>2. Alert(now) \in HostFrames
    BY <2>1 DEF Alert, HostFrames
  <2>3. QED
    BY <2>2 DEF Published
<1>5. Sent(now) = (a \o b) \o c
  BY DEF Sent
<1> HIDE DEF a, b, c
<1>6. toHost \o a \o b \o c = toHost \o Sent(now)
  <2> SUFFICES ((toHost \o a) \o b) \o c = toHost \o ((a \o b) \o c)
    BY <1>5
  <2>1. toHost \in Seq(HostFrames)
    BY <1>1
  <2>2. a \in Seq(HostFrames) /\ b \in Seq(HostFrames) /\ c \in Seq(HostFrames)
    BY <1>3, <1>4
  <2>3. QED
    <3>1. \A w \in Seq(HostFrames) : \A x \in Seq(HostFrames) : \A y \in Seq(HostFrames) :
            \A z \in Seq(HostFrames) : ((w \o x) \o y) \o z = w \o ((x \o y) \o z)
      BY ConcatFour
    <3>2. \A x \in Seq(HostFrames) : \A y \in Seq(HostFrames) :
            \A z \in Seq(HostFrames) : ((toHost \o x) \o y) \o z = toHost \o ((x \o y) \o z)
      BY <3>1, <2>1, Zenon
    <3>3. QED
      BY <3>2, <2>2, Zenon
<1>7. QED
  BY <1>6 DEF a, b, c

LEMMA NanoPassStep ==
  ASSUME Inv, NanoPass
  PROVE  /\ OwnIsLast' /\ StaleIsBehind'
         /\ toNano' \in Seq(NanoFrames) /\ toHost' \in Seq(HostFrames)
         /\ env' \in Budgets /\ faults' \in SUBSET Faults
<1>1. PICK now \in SUBSET Faults :
        /\ now # faults => env.changes > 0
        /\ toNano' = (IF toNano # <<>> THEN Tail(toNano) ELSE toNano)
        /\ toHost' = toHost \o (IF toNano # <<>> THEN Handled(Head(toNano)) ELSE <<>>)
                            \o Published(now)
                            \o (IF toNano # <<>> /\ Head(toNano).type = "temperatures"
                                  THEN SendHeartbeat(Head(toNano), now) ELSE <<>>)
        /\ faults' = now
        /\ env' = IF now # faults THEN [env EXCEPT !.changes = @ - 1] ELSE env
        /\ UNCHANGED <<holder, asked, sequence>>
  BY DEF NanoPass, Inv, TypeOK
<1> DEFINE more == Sent(now)
           n == Len(toHost)
<1>2. /\ toNano \in Seq(NanoFrames) /\ toHost \in Seq(HostFrames) /\ env \in Budgets
      /\ TypeOK /\ n \in Nat /\ DOMAIN toHost = 1 .. n
  BY DEF Inv, TypeOK
<1>3. /\ more \in Seq(HostFrames)
      /\ toNano = <<>> => \A i \in DOMAIN more : IsAlert(more[i])
      /\ toNano # <<>> =>
           \E k \in DOMAIN more :
             /\ AnswerTo(more[k], Head(toNano))
             /\ \A i \in DOMAIN more : i # k => IsAlert(more[i])
  BY <1>2, SentFrames
<1>4. toHost' = toHost \o more
  BY <1>1, <1>2, SentAppended
<1> HIDE DEF more
<1>5. /\ toHost' \in Seq(HostFrames) /\ DOMAIN toHost' = 1 .. n + Len(more)
      /\ DOMAIN more = 1 .. Len(more) /\ Len(more) \in Nat
      /\ \A i \in 1 .. n : toHost'[i] = toHost[i]
      /\ \A i \in DOMAIN toHost' : i > n => i - n \in DOMAIN more /\ toHost'[i] = more[i - n]
      /\ \A i \in DOMAIN more : i + n \in DOMAIN toHost' /\ toHost'[i + n] = more[i]
  BY <1>2, <1>3, <1>4, ConcatProperties
<1>6. /\ toNano' \in Seq(NanoFrames)
      /\ \A i \in DOMAIN toNano' :
           i + 1 \in DOMAIN toNano /\ toNano'[i] = toNano[i + 1]
      /\ toNano # <<>> => /\ Len(toNano') = Len(toNano) - 1
                          /\ \A i \in DOMAIN toNano : i # 1 =>
                               i - 1 \in DOMAIN toNano' /\ toNano'[i - 1] = toNano[i]
  <2>1. CASE toNano = <<>>
    BY <1>1, <1>2, <2>1
  <2>2. CASE toNano # <<>>
    BY <1>1, <1>2, <2>2, HeadTailProperties
  <2>3. QED
    BY <2>1, <2>2
<1>7. toNano # <<>> => 1 \in DOMAIN toNano /\ toNano[1] = Head(toNano)
  BY <1>2
<1>8. env' \in Budgets /\ Budget' = Budget
  BY <1>1, <1>2 DEF Budgets, Budget
<1>9. OwnIsLast'
  <2>1. ASSUME NEW i \in DOMAIN toNano', toNano'[i].own
        PROVE  /\ holder' # None /\ toNano'[i].seq = sequence'
               /\ toNano'[i].type = asked'[holder'] /\ i = Len(toNano')
    <3>1. i + 1 \in DOMAIN toNano /\ toNano'[i] = toNano[i + 1] /\ toNano # <<>>
      BY <1>2, <1>6, <2>1
    <3>2. /\ holder # None /\ toNano[i + 1].seq = sequence
          /\ toNano[i + 1].type = asked[holder] /\ i + 1 = Len(toNano)
      BY <2>1, <3>1 DEF Inv, OwnIsLast
    <3>3. QED
      BY <1>1, <1>2, <1>6, <3>1, <3>2
  <2>2. ASSUME NEW i \in DOMAIN toHost', toHost'[i].own
        PROVE  /\ holder' # None /\ toHost'[i].seq = sequence'
               /\ toHost'[i].kind = Reply(asked'[holder']) /\ toNano' = <<>>
               /\ \A j \in DOMAIN toHost' : j > i => toHost'[j].kind = "alert"
    <3>1. CASE i <= n
      <4>1. i \in DOMAIN toHost /\ toHost[i].own /\ toHost'[i] = toHost[i]
        BY <1>2, <1>5, <2>2, <3>1
      <4>2. /\ holder # None /\ toHost[i].seq = sequence
            /\ toHost[i].kind = Reply(asked[holder]) /\ toNano = <<>>
            /\ \A j \in DOMAIN toHost : j > i => toHost[j].kind = "alert"
        BY <4>1 DEF Inv, OwnIsLast
      <4>3. ASSUME NEW j \in DOMAIN toHost', j > i PROVE toHost'[j].kind = "alert"
        <5>1. CASE j <= n
          BY <1>2, <1>5, <4>2, <4>3, <5>1
        <5>2. CASE j > n
          BY <1>3, <1>5, <4>2, <5>2 DEF IsAlert
        <5>3. QED
          BY <1>2, <1>5, <5>1, <5>2
      <4>4. toNano' = <<>>
        BY <1>1, <4>2
      <4>5. QED
        BY <1>1, <4>1, <4>2, <4>3, <4>4
    <3>2. CASE i > n
      <4>1. i - n \in DOMAIN more /\ toHost'[i] = more[i - n] /\ more[i - n].own
        BY <1>5, <2>2, <3>2
      <4>2. toNano # <<>>
        BY <1>3, <4>1 DEF IsAlert
      <4>3. PICK k \in DOMAIN more : /\ AnswerTo(more[k], Head(toNano))
                                     /\ \A j \in DOMAIN more : j # k => IsAlert(more[j])
        BY <1>3, <4>2
      <4>4. i - n = k
        BY <4>1, <4>3 DEF IsAlert
      <4>5. /\ toNano[1].own /\ toHost'[i].seq = toNano[1].seq
            /\ toHost'[i].kind = Reply(toNano[1].type)
        BY <1>7, <4>1, <4>2, <4>3, <4>4 DEF AnswerTo
      <4>6. /\ holder # None /\ toNano[1].seq = sequence
            /\ toNano[1].type = asked[holder] /\ Len(toNano) = 1
        BY <1>7, <4>2, <4>5 DEF Inv, OwnIsLast
      <4>7. toNano' = <<>>
        BY <1>6, <4>2, <4>6
      <4>8. ASSUME NEW j \in DOMAIN toHost', j > i PROVE toHost'[j].kind = "alert"
        <5>1. j \in Nat /\ i \in Nat /\ j - n # k
          BY <1>2, <1>5, <4>4, <4>8
        <5>2. j - n \in DOMAIN more /\ toHost'[j] = more[j - n]
          BY <1>2, <1>5, <3>2, <4>8, <5>1
        <5>3. QED
          BY <4>3, <5>1, <5>2 DEF IsAlert
      <4>9. QED
        BY <1>1, <4>5, <4>6, <4>7, <4>8
    <3>3. QED
      BY <1>2, <1>5, <3>1, <3>2
  <2>3. QED
    BY <2>1, <2>2 DEF OwnIsLast
<1>10. Underway => Underway'
  <2>1. ASSUME NEW i \in DOMAIN toHost, toHost[i].own PROVE Underway'
    BY <1>2, <1>5, <2>1 DEF Underway
  <2>2. ASSUME NEW i \in DOMAIN toNano, toNano[i].own, i # 1 PROVE Underway'
    <3>1. toNano # <<>>
      BY <2>2
    <3>2. i - 1 \in DOMAIN toNano' /\ toNano'[i - 1] = toNano[i]
      BY <1>6, <2>2, <3>1
    <3>3. QED
      BY <2>2, <3>2 DEF Underway
  <2>3. ASSUME 1 \in DOMAIN toNano, toNano[1].own PROVE Underway'
    <3>1. toNano # <<>>
      BY <2>3
    <3>2. PICK k \in DOMAIN more : AnswerTo(more[k], Head(toNano))
      BY <1>3, <3>1
    <3>3. k + n \in DOMAIN toHost' /\ toHost'[k + n].own
      BY <1>5, <1>7, <2>3, <3>1, <3>2 DEF AnswerTo
    <3>4. QED
      BY <3>3 DEF Underway
  <2>4. QED
    BY <2>1, <2>2, <2>3 DEF Underway
<1>11. ASSUME NEW m, Behind(m) PROVE Behind(m)'
  BY <1>1, <1>8, <1>10, <1>11 DEF Behind, Distance
<1>12. ASSUME NEW m, IsStale(m)' PROVE IsStale(m)
  <2>1. ASSUME NEW i \in DOMAIN toNano', ~toNano'[i].own, toNano'[i].seq = m
        PROVE  IsStale(m)
    BY <1>6, <2>1 DEF IsStale
  <2>2. ASSUME NEW i \in DOMAIN toHost', ~toHost'[i].own, toHost'[i].kind # "alert",
               toHost'[i].seq = m
        PROVE  IsStale(m)
    <3>1. CASE i <= n
      BY <1>2, <1>5, <2>2, <3>1 DEF IsStale
    <3>2. CASE i > n
      <4>1. i - n \in DOMAIN more /\ toHost'[i] = more[i - n]
        BY <1>5, <3>2
      <4>2. toNano # <<>>
        BY <1>3, <2>2, <4>1 DEF IsAlert
      <4>3. AnswerTo(toHost'[i], toNano[1])
        BY <1>3, <1>7, <2>2, <4>1, <4>2 DEF IsAlert
      <4>4. QED
        BY <1>7, <2>2, <4>2, <4>3 DEF IsStale, AnswerTo
    <3>3. QED
      BY <1>2, <1>5, <3>1, <3>2
  <2>3. QED
    BY <1>12, <2>1, <2>2 DEF IsStale
<1>13. StaleIsBehind'
  BY <1>8, <1>11, <1>12 DEF Inv, StaleIsBehind
<1>14. QED
  BY <1>1, <1>5, <1>6, <1>8, <1>9, <1>13

(* A budget that is used up makes room for one more number. *)
LEMMA Nearer ==
  ASSUME Inv, UNCHANGED <<holder, sequence>>, Budget' \in Nat, Budget' + 1 = Budget,
         NEW m \in Sequences, Behind(m)
  PROVE  Behind(m)'
<1> DEFINE d == Distance(m)
           b == Budget
           c == Budget'
<1>1. d' = d /\ holder' = holder
  BY DEF Distance
<1>2. d \in Nat /\ SeqModulus \in Nat
  BY DistanceType, ExchangeAssumption DEF Inv, TypeOK
<1>3. c \in Nat /\ b = c + 1
  OBVIOUS
<1>4. IF holder = None THEN d + b + 1 < SeqModulus
      ELSE d >= 1 /\ d + b < SeqModulus
  BY DEF Behind
<1> HIDE DEF d, b, c
<1>5. IF holder = None THEN d + c + 1 < SeqModulus
      ELSE d >= 1 /\ d + c < SeqModulus /\ d + c + 1 < SeqModulus
  BY <1>2, <1>3, <1>4
<1>6. IF holder' = None THEN d' + c + 1 < SeqModulus
      ELSE d' >= 1 /\ d' + c < SeqModulus /\ d' + c + 1 < SeqModulus
  BY <1>1, <1>5
<1>7. QED
  BY <1>6 DEF Behind, d, c

LEMMA LoseStep ==
  ASSUME Inv, Lose
  PROVE  /\ OwnIsLast' /\ StaleIsBehind'
         /\ toNano' \in Seq(NanoFrames) /\ toHost' \in Seq(HostFrames) /\ env' \in Budgets
<1>1. /\ toNano \in Seq(NanoFrames) /\ toHost \in Seq(HostFrames) /\ env \in Budgets
      /\ DOMAIN toNano = 1 .. Len(toNano) /\ DOMAIN toHost = 1 .. Len(toHost)
      /\ Len(toNano) \in Nat /\ Len(toHost) \in Nat
  BY DEF Inv, TypeOK
<1>2. UNCHANGED <<holder, asked, sequence>>
  BY DEF Lose
<1>3. env' \in Budgets /\ Budget' \in Nat /\ Budget' + 1 = Budget
  <2>1. env.losses > 0 /\ env' = [env EXCEPT !.losses = @ - 1]
    BY DEF Lose
  <2>2. env.losses \in Nat /\ env.losses - 1 \in Nat /\ env.delays \in Nat
    BY <1>1, <2>1 DEF Budgets
  <2>3. env' \in Budgets /\ env'.losses = env.losses - 1 /\ env'.delays = env.delays
    BY <1>1, <2>1, <2>2 DEF Budgets
  <2>4. QED
    BY <2>2, <2>3 DEF Budget
<1>4. ASSUME NEW m \in Sequences, Behind(m) PROVE Behind(m)'
  BY <1>2, <1>3, <1>4, Nearer
<1>5. Budget' + 1 < SeqModulus
  BY <1>1, <1>3, ExchangeAssumption DEF Inv, StaleIsBehind, Budget, Budgets
<1>6. CASE \E k \in DOMAIN toNano : toNano' = RemoveAt(toNano, k) /\ UNCHANGED toHost
  <2>1. PICK k \in DOMAIN toNano : toNano' = RemoveAt(toNano, k) /\ UNCHANGED toHost
    BY <1>6
  <2>2. /\ toNano' \in Seq(NanoFrames) /\ Len(toNano') = Len(toNano) - 1
        /\ DOMAIN toNano' = 1 .. Len(toNano) - 1
        /\ \A i \in DOMAIN toNano' :
             toNano'[i] = IF i < k THEN toNano[i] ELSE toNano[i + 1]
    BY <1>1, <2>1, RemoveAtProperties
  <2>3. ASSUME NEW i \in DOMAIN toNano'
        PROVE  \E j \in DOMAIN toNano : /\ toNano'[i] = toNano[j]
                                        /\ j = Len(toNano) => i = Len(toNano')
    <3>1. CASE i < k
      BY <1>1, <2>2, <3>1
    <3>2. CASE ~(i < k)
      BY <1>1, <2>2, <3>2
    <3>3. QED
      BY <3>1, <3>2
  <2>4. \A i \in DOMAIN toHost : ~toHost[i].own
    BY <1>1, <2>1 DEF Inv, OwnIsLast
  <2>5. OwnIsLast'
    <3>1. ASSUME NEW i \in DOMAIN toNano', toNano'[i].own
          PROVE  /\ holder' # None /\ toNano'[i].seq = sequence'
                 /\ toNano'[i].type = asked'[holder'] /\ i = Len(toNano')
      BY <1>2, <2>3, <3>1 DEF Inv, OwnIsLast
    <3>2. \A i \in DOMAIN toHost' : ~toHost'[i].own
      BY <2>1, <2>4
    <3>3. QED
      BY <3>1, <3>2 DEF OwnIsLast
  <2>6. ASSUME NEW m \in Sequences, IsStale(m)' PROVE IsStale(m)
    BY <2>1, <2>3, <2>6 DEF IsStale
  <2>7. StaleIsBehind'
    BY <1>4, <1>5, <2>6 DEF Inv, StaleIsBehind
  <2>8. QED
    BY <1>1, <1>3, <2>1, <2>2, <2>5, <2>7
<1>7. CASE \E k \in DOMAIN toHost : toHost' = RemoveAt(toHost, k) /\ UNCHANGED toNano
  <2>1. PICK k \in DOMAIN toHost : toHost' = RemoveAt(toHost, k) /\ UNCHANGED toNano
    BY <1>7
  <2> DEFINE Old(i) == IF i < k THEN i ELSE i + 1
  <2>2. /\ toHost' \in Seq(HostFrames) /\ DOMAIN toHost' = 1 .. Len(toHost) - 1
        /\ \A i \in DOMAIN toHost' :
             toHost'[i] = IF i < k THEN toHost[i] ELSE toHost[i + 1]
    BY <1>1, <2>1, RemoveAtProperties
  <2>3. \A i \in DOMAIN toHost' : Old(i) \in DOMAIN toHost /\ toHost'[i] = toHost[Old(i)]
    BY <1>1, <2>2
  <2>4. \A i, j \in DOMAIN toHost' : j > i => Old(j) > Old(i)
    BY <1>1, <2>2
  <2> HIDE DEF Old
  <2>5. OwnIsLast'
    <3>1. ASSUME NEW i \in DOMAIN toHost', toHost'[i].own
          PROVE  /\ holder' # None /\ toHost'[i].seq = sequence'
                 /\ toHost'[i].kind = Reply(asked'[holder']) /\ toNano' = <<>>
                 /\ \A j \in DOMAIN toHost' : j > i => toHost'[j].kind = "alert"
      <4>1. Old(i) \in DOMAIN toHost /\ toHost[Old(i)].own /\ toHost'[i] = toHost[Old(i)]
        BY <2>3, <3>1
      <4>2. /\ holder # None /\ toHost[Old(i)].seq = sequence
            /\ toHost[Old(i)].kind = Reply(asked[holder]) /\ toNano = <<>>
            /\ \A j \in DOMAIN toHost : j > Old(i) => toHost[j].kind = "alert"
        BY <4>1 DEF Inv, OwnIsLast
      <4>3. QED
        BY <1>2, <2>1, <2>3, <2>4, <4>1, <4>2
    <3>2. QED
      BY <1>2, <2>1, <3>1 DEF Inv, OwnIsLast
  <2>6. ASSUME NEW m \in Sequences, IsStale(m)' PROVE IsStale(m)
    BY <2>1, <2>3, <2>6 DEF IsStale
  <2>7. StaleIsBehind'
    BY <1>4, <1>5, <2>6 DEF Inv, StaleIsBehind
  <2>8. QED
    BY <1>1, <1>3, <2>1, <2>2, <2>5, <2>7
<1>8. QED
  BY <1>6, <1>7 DEF Lose

LEMMA TakeStep ==
  ASSUME Inv, NEW t \in Threads, Take(t)
  PROVE  /\ OwnIsLast' /\ StaleIsBehind' /\ sequence' \in Sequences
         /\ toNano' \in Seq(NanoFrames) /\ toHost' \in Seq(HostFrames)
<1> DEFINE request == Request(asked[t], sequence')
<1>1. /\ toNano \in Seq(NanoFrames) /\ toHost \in Seq(HostFrames) /\ env \in Budgets
      /\ sequence \in Sequences /\ asked[t] \in RequestTypes
      /\ DOMAIN toNano = 1 .. Len(toNano) /\ Len(toNano) \in Nat
  BY DEF Inv, TypeOK
<1>2. /\ holder = None /\ holder' = t /\ t # None
      /\ UNCHANGED <<env, asked, toHost>>
      /\ sequence' = (sequence + 1) % SeqModulus /\ toNano' = Append(toNano, request)
  BY ThreadAssumption DEF Take, MayTake, Threads, None, Worker
<1>3. sequence' \in Sequences
  BY <1>1, <1>2, ExchangeAssumption DEF Sequences
<1>4. request \in NanoFrames /\ request.own /\ request.seq = sequence'
      /\ request.type = asked[t]
  BY <1>1, <1>3 DEF Request, NanoFrames
<1> HIDE DEF request
<1>5. /\ toNano' \in Seq(NanoFrames) /\ Len(toNano') = Len(toNano) + 1
      /\ DOMAIN toNano' = 1 .. Len(toNano) + 1
      /\ \A i \in DOMAIN toNano : toNano'[i] = toNano[i]
      /\ toNano'[Len(toNano) + 1] = request
  BY <1>1, <1>2, <1>4
<1>6. \A i \in DOMAIN toNano' : i \in DOMAIN toNano \/ i = Len(toNano) + 1
  BY <1>1, <1>5
<1>7. /\ \A i \in DOMAIN toNano : ~toNano[i].own
      /\ \A i \in DOMAIN toHost : ~toHost[i].own
  BY <1>2 DEF Inv, OwnIsLast
<1>8. OwnIsLast'
  BY <1>2, <1>4, <1>5, <1>6, <1>7 DEF OwnIsLast
<1>9. Underway'
  BY <1>1, <1>4, <1>5 DEF Underway
<1>10. ASSUME NEW m \in Sequences, IsStale(m)' PROVE IsStale(m)
  <2>1. ASSUME NEW i \in DOMAIN toNano', ~toNano'[i].own, toNano'[i].seq = m
        PROVE  IsStale(m)
    BY <1>4, <1>5, <1>6, <2>1 DEF IsStale
  <2>2. QED
    BY <1>2, <1>10, <2>1 DEF IsStale
<1>11. ASSUME NEW m \in Sequences, Behind(m) PROVE Behind(m)'
  <2>1. Budget' = Budget /\ Budget \in Nat
    BY <1>1, <1>2 DEF Budget, Budgets
  <2>2. Distance(m) \in Nat /\ Distance(m) + Budget + 1 < SeqModulus
    BY <1>1, <1>2, <1>11, DistanceType DEF Behind
  <2>3. Distance(m)' = Distance(m) + 1
    BY <1>1, <1>2, <2>1, <2>2, NextSequence, ExchangeAssumption
  <2>4. Distance(m)' >= 1 /\ Distance(m)' + Budget' < SeqModulus
    BY <2>1, <2>2, <2>3, ExchangeAssumption
  <2>5. QED
    BY <1>2, <1>9, <2>4 DEF Behind
<1>12. Budget' = Budget
  BY <1>2 DEF Budget
<1>13. StaleIsBehind'
  BY <1>10, <1>11, <1>12 DEF Inv, StaleIsBehind
<1>14. QED
  BY <1>1, <1>2, <1>3, <1>5, <1>8, <1>13

(* The rest of what has arrived. *)
LEMMA RestOfLine ==
  ASSUME TypeOK, NEW n \in 1 .. Len(toHost), NEW rest, rest = SubSeq(toHost, n + 1, Len(toHost))
  PROVE  /\ rest \in Seq(HostFrames)
         /\ \A i \in DOMAIN rest : i + n \in DOMAIN toHost /\ rest[i] = toHost[i + n]
         /\ \A i, j \in DOMAIN rest : j > i => j + n > i + n
         /\ \A i \in DOMAIN toHost : i > n => i - n \in DOMAIN rest /\ rest[i - n] = toHost[i]
<1>1. toHost \in Seq(HostFrames) /\ Len(toHost) \in Nat /\ DOMAIN toHost = 1 .. Len(toHost)
  BY DEF TypeOK
<1>2. /\ rest \in Seq(HostFrames) /\ DOMAIN rest = 1 .. Len(toHost) - n
      /\ \A i \in DOMAIN rest : i + n \in DOMAIN toHost /\ rest[i] = toHost[i + n]
  BY <1>1, RestProperties
<1>3. \A i, j \in DOMAIN rest : j > i => j + n > i + n
  BY <1>2
<1>4. ASSUME NEW i \in DOMAIN toHost, i > n
      PROVE  i - n \in DOMAIN rest /\ rest[i - n] = toHost[i]
  BY <1>1, <1>2, <1>4
<1>5. QED
  BY <1>2, <1>3, <1>4

(* A thread without an answer reads on: the line goes on with the rest. *)
LEMMA RestStep ==
  ASSUME Inv, UNCHANGED <<env, asked, holder, sequence, toNano>>,
         NEW n \in 1 .. Len(toHost), toHost' = SubSeq(toHost, n + 1, Len(toHost)),
         \A i \in 1 .. n : ~toHost[i].own
  PROVE  OwnIsLast' /\ StaleIsBehind' /\ toHost' \in Seq(HostFrames)
<1>1. /\ toHost' \in Seq(HostFrames)
      /\ \A i \in DOMAIN toHost' : i + n \in DOMAIN toHost /\ toHost'[i] = toHost[i + n]
      /\ \A i, j \in DOMAIN toHost' : j > i => j + n > i + n
      /\ \A i \in DOMAIN toHost : i > n => i - n \in DOMAIN toHost' /\ toHost'[i - n] = toHost[i]
  BY RestOfLine, ZenonT(60) DEF Inv
<1>2. OwnIsLast'
  <2>1. ASSUME NEW i \in DOMAIN toHost', toHost'[i].own
        PROVE  /\ holder' # None /\ toHost'[i].seq = sequence'
               /\ toHost'[i].kind = Reply(asked'[holder']) /\ toNano' = <<>>
               /\ \A j \in DOMAIN toHost' : j > i => toHost'[j].kind = "alert"
    <3>1. i + n \in DOMAIN toHost /\ toHost[i + n].own /\ toHost'[i] = toHost[i + n]
      BY <1>1, <2>1
    <3>2. /\ holder # None /\ toHost[i + n].seq = sequence
          /\ toHost[i + n].kind = Reply(asked[holder]) /\ toNano = <<>>
          /\ \A j \in DOMAIN toHost : j > i + n => toHost[j].kind = "alert"
      BY <3>1 DEF Inv, OwnIsLast
    <3>3. QED
      BY <1>1, <3>1, <3>2, SMTT(60)
  <2>2. QED
    BY <2>1 DEF Inv, OwnIsLast
<1>3. Underway => Underway'
  <2>1. ASSUME NEW i \in DOMAIN toHost, toHost[i].own PROVE Underway'
    <3>1. i > n
      BY <2>1 DEF Inv, TypeOK
    <3>2. QED
      BY <1>1, <2>1, <3>1 DEF Underway
  <2>2. QED
    BY <2>1 DEF Underway
<1>4. \A m : Behind(m) => Behind(m)'
  BY <1>3 DEF Behind, Distance, Budget
<1>5. ASSUME NEW m \in Sequences, IsStale(m)' PROVE IsStale(m)
  BY <1>1, <1>5 DEF IsStale
<1>6. StaleIsBehind'
  BY <1>4, <1>5 DEF Inv, StaleIsBehind, Budget
<1>7. QED
  BY <1>1, <1>2, <1>6

(* An answer that fits is the exchange's own, and alerts only come after it. *)
LEMMA AnswerFits ==
  ASSUME Inv, NEW t, t # None, holder = t, NEW i \in DOMAIN toHost, Matches(toHost[i], t)
  PROVE  /\ toHost[i].own /\ toNano = <<>>
         /\ \A j \in DOMAIN toHost : j > i => toHost[j].kind = "alert"
<1>1. toHost[i].seq = sequence /\ toHost[i].kind = Reply(asked[holder]) /\ sequence \in Sequences
  BY DEF Matches, Inv, TypeOK
<1>2. holder \in Threads /\ asked[holder] \in RequestTypes
  BY DEF Inv, TypeOK
<1>3. toHost[i].kind # "alert"
  BY <1>1, <1>2 DEF Reply, RequestTypes
<1>4. Distance(sequence) = 0
  BY <1>1, DistanceType
<1>5. ~Behind(sequence)
  BY <1>4 DEF Behind
<1>6. toHost[i].own
  BY <1>1, <1>3, <1>5 DEF Inv, StaleIsBehind, IsStale
<1>7. QED
  BY <1>6 DEF Inv, OwnIsLast

LEMMA ReadStep ==
  ASSUME Inv, NEW t \in Threads, Read(t)
  PROVE  /\ OwnIsLast' /\ StaleIsBehind' /\ (mistaken' <=> mistaken)
         /\ toNano' \in Seq(NanoFrames) /\ toHost' \in Seq(HostFrames)
<1>1. /\ toNano \in Seq(NanoFrames) /\ toHost \in Seq(HostFrames) /\ env \in Budgets
      /\ DOMAIN toHost = 1 .. Len(toHost) /\ Len(toHost) \in Nat
  BY DEF Inv, TypeOK
<1>2. holder = t /\ t # None /\ UNCHANGED <<env, asked, sequence>>
  BY ThreadAssumption DEF Read, Threads, None, Worker
<1>3. PICK n \in 1 .. Len(toHost) :
        LET rest    == SubSeq(toHost, n + 1, Len(toHost))
            answers == {i \in 1 .. n : Matches(SubSeq(toHost, 1, n)[i], t)}
        IN  IF answers = {}
              THEN toHost' = rest /\ UNCHANGED <<holder, toNano, mistaken>>
              ELSE /\ toHost' = Disowned(rest) /\ toNano' = Disowned(toNano)
                   /\ holder' = None
                   /\ mistaken' = (mistaken
                        \/ \E i \in answers : ~SubSeq(toHost, 1, n)[i].own)
  BY DEF Read
<1> DEFINE rest == SubSeq(toHost, n + 1, Len(toHost))
           Fits(i) == Matches(toHost[i], t)
<1>4. \A i \in 1 .. n : i \in DOMAIN toHost /\ SubSeq(toHost, 1, n)[i] = toHost[i]
  BY <1>1, ReadProperties
<1>5. CASE \A i \in 1 .. n : ~Fits(i)
  <2>1. toHost' = rest /\ UNCHANGED <<holder, toNano, mistaken>>
    BY <1>3, <1>4, <1>5
  <2>2. \A i \in 1 .. n : ~toHost[i].own
    BY <1>2, <1>4, <1>5 DEF Inv, OwnIsLast, Matches
  <2>3. QED
    BY <1>1, <1>2, <2>1, <2>2, RestStep
<1>6. CASE \E i \in 1 .. n : Fits(i)
  <2>1. /\ toHost' = Disowned(rest) /\ toNano' = Disowned(toNano) /\ holder' = None
        /\ mistaken' = (mistaken \/ \E i \in 1 .. n : Fits(i) /\ ~toHost[i].own)
    <3>1. {i \in 1 .. n : Matches(SubSeq(toHost, 1, n)[i], t)} = {i \in 1 .. n : Fits(i)}
      BY <1>4
    <3>2. QED
      BY <1>3, <1>4, <1>6, <3>1
  <2>2. \A i \in 1 .. n : Fits(i) =>
          /\ toHost[i].own /\ toNano = <<>>
          /\ \A j \in DOMAIN toHost : j > i => toHost[j].kind = "alert"
    BY <1>2, <1>4, AnswerFits
  <2>3. mistaken' <=> mistaken
    BY <2>1, <2>2
  <2>4. toNano = <<>> /\ \A j \in DOMAIN toHost : j > n => toHost[j].kind = "alert"
    BY <1>1, <1>6, <2>2
  <2>5. /\ rest \in Seq(HostFrames)
        /\ \A i \in DOMAIN rest : i + n \in DOMAIN toHost /\ rest[i] = toHost[i + n]
    BY RestOfLine DEF Inv
  <2>6. \A i \in DOMAIN rest : rest[i].kind = "alert"
    BY <1>1, <2>4, <2>5
  <2> HIDE DEF rest, Fits
  <2>7. /\ toHost' \in Seq(HostFrames)
        /\ \A i \in DOMAIN toHost' : ~toHost'[i].own /\ toHost'[i].kind = "alert"
    BY <2>1, <2>5, <2>6, DisownedHost
  <2>8. toNano' \in Seq(NanoFrames) /\ DOMAIN toNano' = {}
    <3>1. DOMAIN toNano = {}
      BY <2>4
    <3>2. QED
      BY <1>1, <2>1, <3>1, DisownedNano
  <2>9. OwnIsLast'
    BY <2>7, <2>8 DEF OwnIsLast
  <2>10. \A m : ~IsStale(m)'
    BY <2>7, <2>8 DEF IsStale
  <2>11. StaleIsBehind'
    BY <1>2, <2>10 DEF Inv, StaleIsBehind, Budget
  <2>12. QED
    BY <2>3, <2>7, <2>8, <2>9, <2>11
<1>7. QED
  BY <1>5, <1>6

LEMMA TimeOutStep ==
  ASSUME Inv, NEW t \in Threads, TimeOut(t)
  PROVE  /\ OwnIsLast' /\ StaleIsBehind' /\ env' \in Budgets
         /\ toNano' \in Seq(NanoFrames) /\ toHost' \in Seq(HostFrames)
<1>1. /\ toNano \in Seq(NanoFrames) /\ toHost \in Seq(HostFrames) /\ env \in Budgets
      /\ sequence \in Sequences
  BY DEF Inv, TypeOK
<1>2. /\ holder # None /\ holder' = None /\ UNCHANGED sequence
      /\ toHost' = Disowned(toHost) /\ toNano' = Disowned(toNano)
  BY ThreadAssumption DEF TimeOut, Threads, None, Worker
<1>3. /\ toHost' \in Seq(HostFrames) /\ DOMAIN toHost' = DOMAIN toHost
      /\ \A i \in DOMAIN toHost : /\ ~toHost'[i].own /\ toHost'[i].seq = toHost[i].seq
                                  /\ toHost'[i].kind = toHost[i].kind
  BY <1>1, <1>2, DisownedHost
<1>4. /\ toNano' \in Seq(NanoFrames) /\ DOMAIN toNano' = DOMAIN toNano
      /\ \A i \in DOMAIN toNano : /\ ~toNano'[i].own /\ toNano'[i].seq = toNano[i].seq
  BY <1>1, <1>2, DisownedNano
<1>5. OwnIsLast'
  BY <1>3, <1>4 DEF OwnIsLast
<1>6. ASSUME NEW m \in Sequences, IsStale(m)' PROVE IsStale(m) \/ (Underway /\ m = sequence)
  BY <1>3, <1>4, <1>6 DEF Inv, OwnIsLast, IsStale, Underway
<1>7. Budget \in Nat /\ Budget + 1 < SeqModulus
  BY <1>1 DEF Budget, Budgets, Inv, StaleIsBehind
<1>8. env' \in Budgets /\ Budget' = IF Underway THEN Budget - 1 ELSE Budget
  <2>1. CASE Underway
    <3>1. env.delays > 0 /\ env' = [env EXCEPT !.delays = @ - 1]
      BY <2>1 DEF TimeOut
    <3>2. env.delays \in Nat /\ env.delays - 1 \in Nat /\ env.losses \in Nat
      BY <1>1, <3>1 DEF Budgets
    <3>3. env' \in Budgets /\ env'.delays = env.delays - 1 /\ env'.losses = env.losses
      BY <1>1, <3>1, <3>2 DEF Budgets
    <3>4. QED
      BY <2>1, <3>2, <3>3 DEF Budget
  <2>2. CASE ~Underway
    BY <1>1, <2>2 DEF TimeOut, Budget
  <2>3. QED
    BY <2>1, <2>2
<1>9. ASSUME NEW m \in Sequences, IsStale(m)' PROVE Behind(m)'
  <2>1. Distance(m)' = Distance(m)
    BY <1>2 DEF Distance
  <2>2. Distance(m) \in Nat
    BY <1>1, DistanceType
  <2>3. CASE IsStale(m)
    <3>1. Distance(m) + Budget < SeqModulus /\ (~Underway => Distance(m) + Budget + 1 < SeqModulus)
      BY <1>2, <2>3 DEF Inv, StaleIsBehind, Behind
    <3>2. Distance(m) + Budget' + 1 < SeqModulus
      BY <1>7, <1>8, <2>2, <3>1, ExchangeAssumption
    <3>3. QED
      BY <1>2, <2>1, <3>2 DEF Behind
  <2>4. CASE Underway /\ m = sequence
    <3>1. Distance(m) = 0
      BY <1>1, <2>4, DistanceType
    <3>2. Distance(m) + Budget' + 1 < SeqModulus
      BY <1>7, <1>8, <2>4, <3>1, ExchangeAssumption
    <3>3. QED
      BY <1>2, <2>1, <3>2 DEF Behind
  <2>5. QED
    BY <1>6, <1>9, <2>3, <2>4
<1>10. Budget' + 1 < SeqModulus
  BY <1>7, <1>8, ExchangeAssumption
<1>11. StaleIsBehind'
  BY <1>9, <1>10 DEF StaleIsBehind
<1>12. QED
  BY <1>3, <1>4, <1>5, <1>8, <1>11

-----------------------------------------------------------------------------
(* The whole invariant, action by action. *)

LEMMA AskStep ==
  ASSUME Inv, NEW t \in Threads, NEW type \in RequestTypes, pc[t] # "exchanging",
         Ask(t, type)
  PROVE  Inv'
<1>1. /\ pc \in [Threads -> Places] /\ asked \in [Threads -> RequestTypes]
      /\ pc' = [pc EXCEPT ![t] = "waiting"] /\ asked' = [asked EXCEPT ![t] = type]
      /\ UNCHANGED <<env, holder, line, faults>>
  BY DEF Ask, Inv, TypeOK, alarm
<1>2. holder # None => holder \in Threads /\ holder # t /\ pc[holder] = "exchanging"
  BY DEF Inv, TypeOK, Holding
<1>3. TypeOK'
  BY <1>1 DEF Inv, TypeOK, line, Places
<1>4. Holding'
  BY <1>1, <1>2 DEF Holding
<1>5. Quiet
  BY <1>1, <1>2 DEF Quiet, Budget
<1>6. QED
  BY <1>3, <1>4, <1>5, QuietStep DEF Inv

(* The worker goes from one place to another, without the line. *)
LEMMA WorkerMoves ==
  ASSUME Inv, pc[Worker] # "exchanging", NEW to \in Places,
         pc' = [pc EXCEPT ![Worker] = to], UNCHANGED <<env, asked, holder, line, faults>>
  PROVE  Inv'
<1>1. Worker \in Threads /\ pc \in [Threads -> Places]
  BY DEF Threads, Inv, TypeOK
<1>2. holder # None => holder \in Threads /\ holder # Worker /\ pc[holder] = "exchanging"
  BY DEF Inv, TypeOK, Holding
<1>3. TypeOK'
  BY <1>1 DEF Inv, TypeOK, line
<1>4. Holding'
  BY <1>1, <1>2 DEF Holding
<1>5. Quiet
  BY DEF Quiet, Budget
<1>6. QED
  BY <1>3, <1>4, <1>5, QuietStep DEF Inv

LEMMA InvInit == Init => Inv
<1> SUFFICES ASSUME Init PROVE Inv
  OBVIOUS
<1>1. /\ env \in Budgets /\ env.losses + env.delays + 1 < SeqModulus
  BY ExchangeAssumption DEF Init, Budgets
<1>2. 0 \in Sequences
  BY <1>1, ExchangeAssumption DEF Budgets, Sequences
<1>3. TypeOK
  BY <1>1, <1>2 DEF Init, TypeOK, Threads, Places, RequestTypes, None, Worker
<1>4. Holding /\ OwnIsLast
  BY DEF Init, Holding, OwnIsLast
<1>5. StaleIsBehind
  BY <1>1 DEF Init, StaleIsBehind, Budget, IsStale
<1>6. QED
  BY <1>3, <1>4, <1>5 DEF Inv

LEMMA InvStep == Inv /\ [Next]_vars => Inv' /\ (AnswerIsOwn => AnswerIsOwn')
<1> SUFFICES ASSUME Inv, [Next]_vars PROVE Inv' /\ (AnswerIsOwn => AnswerIsOwn')
  OBVIOUS
<1>1. /\ pc \in [Threads -> Places] /\ asked \in [Threads -> RequestTypes]
      /\ Worker \in Threads
  BY DEF Inv, TypeOK, Threads
<1>2. CASE NanoPass
  <2>1. UNCHANGED <<pc, asked, holder, sequence, mistaken>>
    BY <1>2 DEF NanoPass, alarm
  <2>2. TypeOK' /\ Holding'
    BY <1>2, <2>1, NanoPassStep DEF Inv, TypeOK, Holding
  <2>3. QED
    BY <1>2, <2>1, <2>2, NanoPassStep DEF Inv, AnswerIsOwn
<1>3. CASE Lose
  <2>1. UNCHANGED <<pc, asked, holder, sequence, faults, mistaken>>
    BY <1>3 DEF Lose, alarm
  <2>2. TypeOK' /\ Holding'
    BY <1>3, <2>1, LoseStep DEF Inv, TypeOK, Holding
  <2>3. QED
    BY <1>3, <2>1, <2>2, LoseStep DEF Inv, AnswerIsOwn
<1>4. ASSUME NEW t \in Threads, Take(t) PROVE Inv' /\ (AnswerIsOwn => AnswerIsOwn')
  <2>1. /\ holder' = t /\ pc' = [pc EXCEPT ![t] = "exchanging"]
        /\ UNCHANGED <<env, asked, faults, mistaken>>
    BY <1>4 DEF Take, alarm
  <2>2. TypeOK' /\ Holding'
    BY <1>1, <1>4, <2>1, TakeStep DEF Inv, TypeOK, Holding, Places
  <2>3. QED
    BY <1>4, <2>1, <2>2, TakeStep DEF Inv, AnswerIsOwn
<1>5. ASSUME NEW t \in Threads, Read(t) PROVE Inv' /\ (AnswerIsOwn => AnswerIsOwn')
  <2>1. holder = t /\ UNCHANGED <<env, asked, sequence, faults>>
    BY <1>5 DEF Read
  <2>2. \/ UNCHANGED <<pc, holder>>
        \/ /\ holder' = None
           /\ \E to \in Places : pc' = [pc EXCEPT ![t] = to]
    <3>1. WorkerGoesOn => \E to \in Places : pc' = [pc EXCEPT ![Worker] = to]
      BY DEF WorkerGoesOn, Places
    <3>2. QED
      BY <1>1, <1>5, <3>1 DEF Read, alarm, Places
  <2>3. TypeOK' /\ Holding'
    BY <1>1, <1>5, <2>1, <2>2, ReadStep DEF Inv, TypeOK, Holding
  <2>4. QED
    BY <1>5, <2>3, ReadStep DEF Inv, AnswerIsOwn
<1>6. ASSUME NEW t \in Threads, TimeOut(t) PROVE Inv' /\ (AnswerIsOwn => AnswerIsOwn')
  <2>1. /\ holder' = None /\ UNCHANGED <<asked, sequence, faults, mistaken>>
        /\ \E to \in Places : pc' = [pc EXCEPT ![t] = to]
    BY <1>6 DEF TimeOut, alarm, Places
  <2>2. TypeOK' /\ Holding'
    BY <1>1, <1>6, <2>1, TimeOutStep DEF Inv, TypeOK, Holding
  <2>3. QED
    BY <1>6, <2>1, <2>2, TimeOutStep DEF Inv, AnswerIsOwn
<1>7. CASE ReceiveEvents
  <2>1. /\ pc[Worker] = "receive" /\ pc' = [pc EXCEPT ![Worker] = "ingest"]
        /\ UNCHANGED <<env, asked, holder, sequence, toNano, faults, mistaken>>
    BY <1>7 DEF ReceiveEvents, WorkerAt, alarm
  <2>2. CASE UNCHANGED toHost
    BY <1>1, <2>1, <2>2, WorkerMoves DEF line, AnswerIsOwn, Places
  <2>3. CASE holder = None /\ \E n \in 1 .. Len(toHost) : toHost' = SubSeq(toHost, n + 1, Len(toHost))
    <3>1. PICK n \in 1 .. Len(toHost) : toHost' = SubSeq(toHost, n + 1, Len(toHost))
      BY <2>3
    <3>2. \A i \in 1 .. n : ~toHost[i].own
      BY <2>3 DEF Inv, TypeOK, OwnIsLast
    <3>3. OwnIsLast' /\ StaleIsBehind' /\ toHost' \in Seq(HostFrames)
      BY <2>1, <3>1, <3>2, RestStep
    <3>4. TypeOK' /\ Holding'
      BY <1>1, <2>1, <2>3, <3>3 DEF Inv, TypeOK, Holding, Places
    <3>5. QED
      BY <2>1, <3>3, <3>4 DEF Inv, AnswerIsOwn
  <2>4. QED
    BY <1>7, <2>2, <2>3 DEF ReceiveEvents
<1>8. CASE Ingest
  BY <1>8, WorkerMoves DEF Ingest, WorkerAt, Places, AnswerIsOwn
<1>9. CASE Close
  BY <1>9, WorkerMoves DEF Close, WorkerAt, Places, AnswerIsOwn
<1>10. CASE NotDue \/ Clear \/ Watch \/ Sleep \/ Wake
  <2>1. PICK to \in Places : /\ pc[Worker] # "exchanging" /\ pc' = [pc EXCEPT ![Worker] = to]
                             /\ UNCHANGED <<env, asked, holder, line, faults, mistaken>>
    BY <1>10 DEF NotDue, Clear, Watch, Sleep, Wake, WorkerAt, alarm, Places
  <2>2. QED
    BY <1>1, <2>1, WorkerMoves DEF AnswerIsOwn
<1>11. CASE Snapshot \/ Connect \/ Send
  <2>1. PICK type \in RequestTypes : pc[Worker] # "exchanging" /\ Ask(Worker, type)
    BY <1>11 DEF Snapshot, Connect, Send, RequestTypes
  <2>2. UNCHANGED mistaken
    BY <2>1 DEF Ask
  <2>3. QED
    BY <1>1, <2>1, <2>2, AskStep DEF AnswerIsOwn
<1>12. ASSUME NEW t \in Clients, ClientAsks(t) PROVE Inv' /\ (AnswerIsOwn => AnswerIsOwn')
  <2>1. PICK type \in RequestTypes : pc[t] # "exchanging" /\ Ask(t, type)
    BY <1>12, ExchangeAssumption DEF ClientAsks, RequestTypes
  <2>2. UNCHANGED mistaken
    BY <2>1 DEF Ask
  <2>3. QED
    BY <1>1, <2>1, <2>2, AskStep DEF AnswerIsOwn, Threads
<1>13. CASE Open
  <2>1. /\ sequence' = 0 /\ toNano' = <<>> /\ toHost' = <<>>
        /\ UNCHANGED <<pc, asked, holder, mistaken>>
    BY <1>13 DEF Open, alarm
  <2>2. env' \in Budgets /\ Budget' = Budget /\ faults' \in SUBSET Faults
    <3>1. CASE UNCHANGED <<faults, env>>
      BY <3>1 DEF Inv, TypeOK, Budget
    <3>2. CASE env.changes > 0 /\ faults' = {} /\ env' = [env EXCEPT !.changes = @ - 1]
      BY <3>2, SMTT(60) DEF Inv, TypeOK, Budget, Budgets
    <3>3. QED
      BY <1>13, <3>1, <3>2 DEF Open
  <2>3. 0 \in Sequences
    BY ExchangeAssumption DEF Inv, TypeOK, Sequences
  <2>4. TypeOK' /\ Holding'
    BY <2>1, <2>2, <2>3 DEF Inv, TypeOK, Holding
  <2>5. OwnIsLast' /\ StaleIsBehind'
    BY <2>1, <2>2 DEF Inv, OwnIsLast, StaleIsBehind, IsStale
  <2>6. QED
    BY <2>1, <2>4, <2>5 DEF Inv, AnswerIsOwn
<1>14. CASE \/ NotFound \/ Enable \/ Look \/ Elapsed \/ Sounded \/ UNCHANGED vars
  <2>1. UNCHANGED <<env, pc, asked, holder, line, faults, mistaken>>
    BY <1>14 DEF NotFound, Enable, Look, Elapsed, Sounded, Beep, vars, alarm
  <2>2. TypeOK' /\ Holding' /\ Quiet
    BY <2>1 DEF Inv, TypeOK, Holding, Quiet, Budget, line
  <2>3. QED
    BY <2>1, <2>2, QuietStep DEF Inv, AnswerIsOwn
<1>15. QED
  BY <1>2, <1>3, <1>4, <1>5, <1>6, <1>7, <1>8, <1>9, <1>10, <1>11, <1>12, <1>13, <1>14
     DEF Next, WorkerStep, Threads

(* What holds of the line in every state. *)
THEOREM AlwaysOrdered == Spec => []Inv
<1>1. Init => Inv
  BY InvInit
<1>2. Inv /\ [Next]_vars => Inv'
  BY InvStep
<1>3. QED
  BY <1>1, <1>2, PTL DEF Spec

(* No exchange takes the late answer to an earlier request for its own, as long as
   frames that are lost and answers that are late are fewer than the numbers of one
   turn of the sequence. *)
THEOREM NoAnswerMistaken == Spec => []AnswerIsOwn
<1>1. Init => AnswerIsOwn
  BY DEF Init, AnswerIsOwn
<1>2. Inv /\ AnswerIsOwn /\ [Next]_vars => AnswerIsOwn'
  BY InvStep
<1>3. QED
  BY <1>1, <1>2, AlwaysOrdered, PTL DEF Spec

-----------------------------------------------------------------------------
(* The queue, and what the daemon knows of it. *)

LEMMA ConnectionKeeps ==
  ASSUME NEW c, IsCenter(c), NEW on \in BOOLEAN
  PROVE  IsCenter(Connection(c, on)) /\ Connection(c, on).historyLost = c.historyLost
<1>1. PICK M : c \in CentersOf(M)
  BY DEF IsCenter
<1>2. /\ Connection(c, on) \in CentersOf(M)
      /\ Connection(c, on).historyLost = c.historyLost
  BY <1>1 DEF Connection, CentersOf
<1>3. QED
  BY <1>2 DEF IsCenter

LEMMA IngestedKeeps ==
  ASSUME NEW c, IsCenter(c), NEW some, NEW lost \in BOOLEAN
  PROVE  /\ IsCenter(Ingested(c, some, lost))
         /\ Ingested(c, some, lost).historyLost = (c.historyLost \/ lost)
<1> DEFINE noted == [c EXCEPT !.historyLost = @ \/ lost]
<1>1. PICK M : c \in CentersOf(M)
  BY DEF IsCenter
<1>2. noted \in CentersOf(M) /\ noted.historyLost = (c.historyLost \/ lost)
  BY <1>1 DEF CentersOf
<1> HIDE DEF noted
<1>3. ASSUME NEW event
      PROVE  /\ IsCenter(Observed(noted, event))
             /\ Observed(noted, event).historyLost = noted.historyLost
  <2>1. noted \in CentersOf(M \cup {event.masks})
    BY <1>2 DEF CentersOf
  <2>2. /\ Observed(noted, event) \in CentersOf(M \cup {event.masks})
        /\ Observed(noted, event).historyLost = noted.historyLost
    BY <2>1 DEF CentersOf, Observed
  <2>3. QED
    BY <2>2 DEF IsCenter
<1>4. Ingested(c, some, lost) = IF some = <<>> THEN noted ELSE Observed(noted, Last(some))
  BY DEF Ingested, noted
<1>5. IsCenter(noted)
  BY <1>2 DEF IsCenter
<1>6. QED
  BY <1>2, <1>3, <1>4, <1>5

(* Who reads may drop something, and then says so. *)
LEMMA RetainKeeps ==
  ASSUME NEW frames, NEW t, Retain(frames, t), dropped \in BOOLEAN
  PROVE  /\ dropped' \in BOOLEAN /\ (dropped => dropped')
         /\ overflowed' => overflowed \/ dropped'
         /\ UNCHANGED <<events, dropped, notified>> \/ notified'
<1>1. CASE UNCHANGED <<queue, notified>>
  BY <1>1 DEF queue
<1>2. CASE SetQueue(AfterRead(frames, t)) /\ notified' = TRUE
  <2>1. ASSUME NEW new, NEW q, q = [events |-> events, dropped |-> dropped,
                                    overflowed |-> overflowed],
               SetQueue(Retained(q, new))
        PROVE  /\ dropped' \in BOOLEAN /\ (dropped => dropped')
               /\ overflowed' => overflowed \/ dropped'
    <3> DEFINE all  == q.events \o new
               lost == IF Len(all) > MaxEvents THEN Len(all) - MaxEvents ELSE 0
    <3>1. /\ dropped' = (dropped \/ lost # 0)
          /\ overflowed' = (overflowed \/ \E i \in 1 .. lost : all[i].kind = "alert")
      BY <2>1 DEF SetQueue, Retained
    <3> HIDE DEF all, lost
    <3>2. CASE lost = 0
      BY <3>1, <3>2
    <3>3. CASE lost # 0
      BY <3>1, <3>3
    <3>4. QED
      BY <3>2, <3>3
  <2>2. QED
    BY <1>2, <2>1 DEF AfterRead
<1>3. QED
  BY <1>1, <1>2 DEF Retain

LEMMA ConfessingInit == Init => Confessing
<1> SUFFICES ASSUME Init PROVE Confessing
  OBVIOUS
<1>1. NewCenter \in CentersOf({{}})
  BY DEF NewCenter, CentersOf
<1>2. IsCenter(center)
  BY <1>1 DEF Init, IsCenter
<1>3. QED
  BY <1>2 DEF Init, Confessing, OverflowConfessed

LEMMA ConfessingStep == Confessing /\ [Next]_vars => Confessing'
<1> SUFFICES ASSUME Confessing, [Next]_vars PROVE Confessing'
  OBVIOUS
<1>1. /\ IsCenter(center) /\ dropped \in BOOLEAN
      /\ overflowed => dropped \/ center.historyLost
  BY DEF Confessing, OverflowConfessed
<1>2. ASSUME UNCHANGED <<queue, center>> PROVE Confessing'
  BY <1>1, <1>2 DEF Confessing, OverflowConfessed, queue
<1>3. CASE \/ NanoPass \/ Lose \/ NotDue \/ Clear \/ Watch \/ Sleep \/ Wake
           \/ Enable \/ Look \/ Elapsed \/ Sounded \/ UNCHANGED vars
  BY <1>2, <1>3 DEF NanoPass, Lose, NotDue, Clear, Watch, Sleep, Wake, Enable, Look,
     Elapsed, Sounded, Beep, vars, alarm
<1>4. CASE Snapshot \/ Connect \/ Send \/ \E t \in Clients : ClientAsks(t)
  BY <1>2, <1>4 DEF Snapshot, Connect, Send, ClientAsks, Ask, alarm
<1>5. ASSUME NEW t \in Threads, Take(t) \/ TimeOut(t) PROVE Confessing'
  BY <1>2, <1>5 DEF Take, TimeOut, alarm
<1>6. ASSUME NEW t \in Threads, Read(t) PROVE Confessing'
  <2>1. PICK frames : Retain(frames, t)
    BY <1>6 DEF Read
  <2>2. IsCenter(center') /\ center'.historyLost = center.historyLost
    <3>1. WorkerGoesOn => IsCenter(center') /\ center'.historyLost = center.historyLost
      BY <1>1, ConnectionKeeps DEF WorkerGoesOn, alarm
    <3>2. QED
      BY <1>1, <1>6, <3>1 DEF Read, alarm
  <2>3. /\ dropped' \in BOOLEAN /\ (dropped => dropped')
        /\ overflowed' => overflowed \/ dropped'
    BY <1>1, <2>1, RetainKeeps
  <2>4. QED
    BY <1>1, <2>2, <2>3 DEF Confessing, OverflowConfessed
<1>7. CASE ReceiveEvents
  <2>1. UNCHANGED center
    BY <1>7 DEF ReceiveEvents, alarm
  <2>2. CASE UNCHANGED queue
    BY <1>2, <2>1, <2>2
  <2>3. CASE \E frames : Retain(frames, None)
    <3>1. /\ dropped' \in BOOLEAN /\ (dropped => dropped')
          /\ overflowed' => overflowed \/ dropped'
      BY <1>1, <2>3, RetainKeeps
    <3>2. QED
      BY <1>1, <2>1, <3>1 DEF Confessing, OverflowConfessed
  <2>4. QED
    BY <1>7, <2>2, <2>3 DEF ReceiveEvents
<1>8. CASE Ingest
  <2>1. /\ center' = Ingested(center, events, dropped) /\ dropped' = FALSE
        /\ UNCHANGED overflowed
    BY <1>8 DEF Ingest, IngestAll, TakeEvents
  <2>2. QED
    BY <1>1, <2>1, IngestedKeeps DEF Confessing, OverflowConfessed
<1>9. CASE Close
  <2> DEFINE c == IF verified THEN Ingested(center, events, dropped) ELSE center
  <2>1. /\ center' = Connection(c, FALSE) /\ dropped' = FALSE
        /\ overflowed' = (overflowed /\ verified)
    BY <1>9 DEF Close, TakeEvents
  <2>2. IsCenter(c) /\ (verified /\ overflowed => c.historyLost)
    BY <1>1, IngestedKeeps
  <2> HIDE DEF c
  <2>3. QED
    BY <2>1, <2>2, ConnectionKeeps DEF Confessing, OverflowConfessed
<1>10. CASE Open
  BY <1>1, <1>10 DEF Open, alarm, Confessing, OverflowConfessed
<1>11. CASE NotFound
  <2>1. center' = Connection(center, FALSE) /\ UNCHANGED queue
    BY <1>11 DEF NotFound
  <2>2. QED
    BY <1>1, <2>1, ConnectionKeeps DEF queue, Confessing, OverflowConfessed
<1>12. QED
  BY <1>3, <1>4, <1>5, <1>6, <1>7, <1>8, <1>9, <1>10, <1>11 DEF Next, WorkerStep, Threads

(* A queue that dropped an alert of the verified Nano says so until the daemon has
   recorded the loss: whoever read it, and whatever fails before. *)
THEOREM OverflowsConfessed == Spec => []OverflowConfessed
<1>1. Confessing => OverflowConfessed
  BY DEF Confessing
<1>2. QED
  BY <1>1, ConfessingInit, ConfessingStep, PTL DEF Spec

-----------------------------------------------------------------------------
(* The worker's sleep. *)

LEMMA WakefulStep == Inv /\ Wakeful /\ [Next]_vars => Wakeful'
<1> SUFFICES ASSUME Inv, Wakeful, [Next]_vars PROVE Wakeful'
  OBVIOUS
<1>1. /\ pc \in [Threads -> Places] /\ Worker \in Threads
      /\ holder # None => pc[holder] = "exchanging"
  BY DEF Inv, TypeOK, Holding, Threads
<1>2. ASSUME UNCHANGED <<queue, notified, watching>>, pc'[Worker] = pc[Worker],
             holder # None => holder' # None
      PROVE  Wakeful'
  BY <1>2 DEF Wakeful, queue
<1>3. ASSUME pc'[Worker] \notin {"pending", "asleep"} PROVE Wakeful'
  BY <1>3 DEF Wakeful
<1>4. CASE \/ NanoPass \/ Lose \/ Open \/ NotFound
           \/ Enable \/ Look \/ Elapsed \/ Sounded \/ UNCHANGED vars
  <2>1. CASE Open
    <3>1. pc'[Worker] = "closed"
      BY <2>1 DEF Open
    <3>2. QED
      BY <1>3, <3>1
  <2>2. CASE ~Open
    BY <1>2, <1>4, <2>2 DEF NanoPass, Lose, NotFound, Enable, Look, Elapsed, Sounded,
       Beep, vars, queue
  <2>3. QED
    BY <2>1, <2>2
<1>5. CASE NotDue \/ ReceiveEvents \/ Ingest \/ Clear \/ Wake \/ Close
  <2>1. pc'[Worker] \in {"receive", "ingest", "clear", "watch", "loop", "closed"}
    BY <1>1, <1>5 DEF NotDue, ReceiveEvents, Ingest, Clear, Wake, Close, WorkerAt
  <2>2. QED
    BY <1>3, <2>1
<1>6. CASE Snapshot \/ Connect \/ Send
  <2>1. pc'[Worker] = "waiting"
    BY <1>1, <1>6 DEF Snapshot, Connect, Send, Ask
  <2>2. QED
    BY <1>3, <2>1
<1>7. CASE Watch
  <2>1. pc'[Worker] = "pending" /\ watching' = (holder = None) /\ UNCHANGED holder
    BY <1>1, <1>7 DEF Watch, WorkerAt
  <2>2. QED
    BY <2>1 DEF Wakeful
<1>8. CASE Sleep
  <2>1. /\ pc[Worker] = "pending" /\ UNCHANGED <<holder, queue, notified, watching>>
        /\ pc'[Worker] = "asleep" => events = <<>> /\ ~dropped
    BY <1>1, <1>8 DEF Sleep, WorkerAt
  <2>2. QED
    BY <2>1 DEF Wakeful, queue
<1>9. ASSUME NEW t \in Clients, ClientAsks(t) PROVE Wakeful'
  <2>1. /\ pc' = [pc EXCEPT ![t] = "waiting"] /\ t # Worker
        /\ UNCHANGED <<holder, queue, notified, watching>>
    BY <1>9, ThreadAssumption DEF ClientAsks, Ask
  <2>2. QED
    BY <1>1, <1>2, <2>1
<1>10. ASSUME NEW t \in Threads, Take(t) PROVE Wakeful'
  <2>1. CASE t = Worker
    <3>1. pc'[Worker] = "exchanging"
      BY <1>1, <1>10, <2>1 DEF Take
    <3>2. QED
      BY <1>3, <3>1
  <2>2. CASE t # Worker
    <3>1. t # None
      BY ThreadAssumption DEF Threads, None, Worker
    <3>2. QED
      BY <1>1, <1>2, <1>10, <2>2, <3>1 DEF Take
  <2>3. QED
    BY <2>1, <2>2
<1>11. ASSUME NEW t \in Threads, TimeOut(t) PROVE Wakeful'
  BY <1>11 DEF TimeOut, Wakeful
<1>12. ASSUME NEW t \in Threads, Read(t) PROVE Wakeful'
  <2>1. t # None /\ holder = t /\ UNCHANGED watching /\ pc[t] = "exchanging"
    BY <1>1, <1>12, ThreadAssumption DEF Read, Threads, None, Worker
  <2>2. CASE t = Worker
    <3>1. pc'[Worker] \in {"exchanging", "snapshot", "loop", "receive"}
      BY <1>1, <1>12, <2>1, <2>2 DEF Read, WorkerGoesOn
    <3>2. QED
      BY <1>3, <3>1
  <2>3. CASE t # Worker
    <3>1. pc'[Worker] = pc[Worker]
      BY <1>1, <1>12, <2>3 DEF Read
    <3>2. PICK n \in 1 .. Len(toHost) :
            /\ Retain(SubSeq(toHost, 1, n), t)
            /\ ~UNCHANGED holder =>
                 \E i \in 1 .. n : Matches(SubSeq(toHost, 1, n)[i], t)
      BY <1>12 DEF Read
    <3>3. ASSUME NEW i \in 1 .. n, Matches(SubSeq(toHost, 1, n)[i], t) PROVE notified'
      <4>1. i \in DOMAIN SubSeq(toHost, 1, n) /\ Retains(SubSeq(toHost, 1, n)[i], t)
        BY <2>1, <3>3, ReadProperties DEF Retains, Inv, TypeOK
      <4>2. QED
        BY <3>2, <4>1 DEF Retain
    <3>4. UNCHANGED <<queue, notified>> \/ notified'
      BY <3>2 DEF Retain
    <3>5. QED
      BY <2>1, <3>1, <3>2, <3>3, <3>4 DEF Wakeful, queue
  <2>4. QED
    BY <2>2, <2>3
<1>13. QED
  BY <1>4, <1>5, <1>6, <1>7, <1>8, <1>9, <1>10, <1>11, <1>12 DEF Next, WorkerStep, Threads

(* The worker never sleeps over events that are kept, nor over bytes that no exchange
   will read, without a wake-up on its way: the order of clearing the signal, looking
   at the line and looking at the queue leaves no gap. *)
THEOREM NoWakeupLost == Spec => []NoLostWakeup
<1>1. Init => Wakeful
  BY DEF Init, Wakeful
<1>2. Wakeful => NoLostWakeup
  BY DEF Wakeful, NoLostWakeup
<1>3. QED
  BY <1>1, <1>2, WakefulStep, AlwaysOrdered, PTL DEF Spec

-----------------------------------------------------------------------------
(* Frames and their bytes. *)

LEMMA BytesAreNaturals ==
  Bytes \subseteq Nat /\ \A n \in Nat : n <= 255 => n \in Bytes
BY DEF Bytes

LEMMA PayloadBound == MaxPayload \in Nat /\ MaxPayload <= 255
BY FramingAssumption DEF Bytes

LEMMA JoinedLength ==
  ASSUME NEW S, NEW s \in Seq(S), NEW t \in Seq(S)
  PROVE  Len(s \o t) = Len(s) + Len(t)
BY ConcatProperties

LEMMA JoinedFirst ==
  ASSUME NEW S, NEW s \in Seq(S), NEW t \in Seq(S), NEW i \in 1 .. Len(s)
  PROVE  (s \o t)[i] = s[i]
<1>1. i \in 1 .. Len(s) + Len(t) /\ i <= Len(s)
  OBVIOUS
<1>2. QED
  BY <1>1, ConcatProperties

LEMMA JoinedSecond ==
  ASSUME NEW S, NEW s \in Seq(S), NEW t \in Seq(S), NEW i \in 1 .. Len(t),
         NEW k, k = Len(s) + i
  PROVE  (s \o t)[k] = t[i]
<1>1. k \in 1 .. Len(s) + Len(t) /\ ~(k <= Len(s)) /\ k - Len(s) = i
  OBVIOUS
<1>2. (s \o t)[k] = IF k <= Len(s) THEN s[k] ELSE t[k - Len(s)]
  BY <1>1, ConcatProperties
<1>3. QED
  BY <1>1, <1>2

LEMMA WiderSeq ==
  ASSUME NEW S, NEW T, S \subseteq T, NEW s \in Seq(S)
  PROVE  s \in Seq(T)
<1>1. Len(s) \in Nat /\ s \in [1 .. Len(s) -> S]
  BY LenProperties
<1>2. s \in [1 .. Len(s) -> T]
  BY <1>1
<1>3. QED
  BY <1>1, <1>2, SeqDef

LEMMA FramesType ==
  /\ Frames \subseteq Nat \ {0}
  /\ \A f \in Frames : Payloads[f] \in Seq(Bytes) /\ Len(Payloads[f]) \in 0 .. MaxPayload
<1>1. Payloads \in Seq(Seq(Bytes)) /\ Frames = 1 .. Len(Payloads) /\ Len(Payloads) \in Nat
  BY FramingAssumption DEF Frames
<1>2. ASSUME NEW f \in Frames PROVE Payloads[f] \in Seq(Bytes)
  BY <1>1
<1>3. ASSUME NEW f \in Frames PROVE Len(Payloads[f]) \in 0 .. MaxPayload
  BY <1>2, FramingAssumption
<1>4. QED
  BY <1>1, <1>2, <1>3

LEMMA BodyBytes ==
  ASSUME NEW f \in Frames
  PROVE  /\ Body(f) \in Seq(Bytes) /\ Len(Body(f)) = 3 + Len(Payloads[f])
         /\ \A i \in 1 .. Len(Payloads[f]) : Body(f)[i + 3] = Payloads[f][i]
<1> DEFINE n    == Len(Payloads[f])
           head == <<Version, Type, n>>
           p    == Payloads[f]
<1>1. p \in Seq(Bytes) /\ n \in 0 .. MaxPayload /\ Len(p) = n
  BY FramesType
<1>2. Version \in Bytes /\ Type \in Bytes /\ n \in Bytes
  <2>1. MaxPayload \in Nat /\ MaxPayload <= 255
    BY PayloadBound
  <2>2. n \in Nat /\ n <= 255
    BY <1>1, <2>1
  <2>3. QED
    BY <2>2, BytesAreNaturals DEF Version, Type
<1> HIDE DEF n
<1>3. head \in Seq(Bytes)
  BY <1>2
<1>4. Len(head) = 3
  OBVIOUS
<1> HIDE DEF head, p
<1>5. head \o p \in Seq(Bytes)
  BY <1>1, <1>3, ConcatProperties
<1>6. Len(head \o p) = 3 + n
  BY <1>1, <1>3, <1>4, JoinedLength
<1>7. ASSUME NEW i \in 1 .. n PROVE (head \o p)[i + 3] = p[i]
  <2>1. i + 3 = Len(head) + i
    BY <1>1, <1>4
  <2>2. QED
    BY <1>1, <1>3, <2>1, JoinedSecond
<1>8. QED
  BY <1>1, <1>5, <1>6, <1>7 DEF Body, head, p, n

(* Frames differ in their bodies. *)
LEMMA BodyTells ==
  ASSUME NEW f \in Frames, NEW g \in Frames, Body(f) = Body(g)
  PROVE  f = g
<1>1. Len(Payloads[f]) = Len(Payloads[g])
  BY BodyBytes, FramesType
<1>2. \A i \in 1 .. Len(Payloads[f]) : Payloads[f][i] = Payloads[g][i]
  BY <1>1, BodyBytes
<1>3. Payloads[f] = Payloads[g]
  BY <1>1, <1>2, FramesType, SeqEqual
<1>4. QED
  BY <1>3, FramingAssumption

LEMMA FrameOfBody ==
  ASSUME NEW f \in Frames
  PROVE  FrameOf(Body(f)) = f
<1>1. \A g \in Frames : Body(f) = Body(g) => g = f
  BY BodyTells
<1>2. (CHOOSE g \in Frames : Body(f) = Body(g)) = f
  BY <1>1
<1>3. QED
  BY <1>2 DEF FrameOf

(* The last byte of a frame is its checksum, and no other byte is one. *)
LEMMA EncodedBytes ==
  ASSUME NEW f \in Frames
  PROVE  /\ Len(Encoded(f)) = 6 + Len(Payloads[f])
         /\ Encoded(f)[6 + Len(Payloads[f])] = Checksum(f)
         /\ \A i \in 1 .. 5 + Len(Payloads[f]) : Encoded(f)[i] \in Bytes
<1> DEFINE magic == <<Magic1, Magic2>>
           b == Body(f)
           c == <<Checksum(f)>>
           n == Len(Payloads[f])
<1>1. Magic1 \in Bytes /\ Magic2 \in Bytes /\ Checksum(f) \in Nat
  BY FramesType DEF Magic1, Magic2, Bytes, Checksum
<1>2. magic \in Seq(Bytes) /\ Len(magic) = 2
  BY <1>1
<1>3. c \in Seq(Nat) /\ Len(c) = 1 /\ c[1] = Checksum(f)
  BY <1>1
<1>4. b \in Seq(Bytes) /\ Len(b) = 3 + n /\ n \in Nat
  BY BodyBytes, FramesType
<1> HIDE DEF magic, b, c, n
<1> DEFINE d == magic \o b
<1>5. d \in Seq(Bytes)
  BY <1>2, <1>4, ConcatProperties
<1>6. Len(d) = 5 + n
  <2>1. Len(d) = Len(magic) + Len(b)
    BY <1>2, <1>4, JoinedLength
  <2> HIDE DEF d
  <2>2. QED
    BY <1>2, <1>4, <2>1
<1>7. \A i \in 1 .. 5 + n : d[i] \in Bytes
  BY <1>5, <1>6, ElementOfSeq
<1> HIDE DEF d
<1>8. d \in Seq(Nat)
  BY <1>5, BytesAreNaturals, WiderSeq
<1>9. Len(d \o c) = 6 + n
  <2>1. Len(d \o c) = Len(d) + Len(c)
    BY <1>3, <1>8, JoinedLength
  <2>2. QED
    BY <1>3, <1>4, <1>6, <2>1
<1>10. (d \o c)[6 + n] = Checksum(f)
  <2>1. Append(d, Checksum(f)) = d \o c
    BY <1>1, <1>8, AppendIsConcat DEF c
  <2>2. Append(d, Checksum(f))[Len(d) + 1] = Checksum(f)
    BY <1>1, <1>8, AppendProperties
  <2>3. 6 + n = Len(d) + 1
    BY <1>4, <1>6
  <2>4. QED
    BY <2>1, <2>2, <2>3
<1>11. ASSUME NEW i \in 1 .. 5 + n PROVE (d \o c)[i] \in Bytes
  <2>1. (d \o c)[i] = d[i]
    BY <1>3, <1>6, <1>8, JoinedFirst
  <2>2. QED
    BY <1>7, <2>1
<1>12. Encoded(f) = d \o c
  BY DEF Encoded, d, magic, b, c
<1>13. QED
  BY <1>9, <1>10, <1>11, <1>12 DEF n

LEMMA ChecksumTells ==
  /\ \A f, g \in Frames : Checksum(f) = Checksum(g) => f = g
  /\ \A f \in Frames : Checksum(f) \in Nat \ Bytes
BY FramesType DEF Checksum, Bytes

-----------------------------------------------------------------------------
(* The frames of which the last byte is past, and those that came through: in what was
   delivered and in what is still to be searched, each is finished, and they are in the
   order of sending. *)

Finished == IF at > 0 THEN Len(sent) - 1 ELSE Len(sent)

SentOnce ==
  /\ sent \in Seq(Frames) /\ \A k, l \in 1 .. Len(sent) : sent[k] = sent[l] => k = l
  /\ at \in Nat
  /\ at > 0 => sent # <<>> /\ sending = sent[Len(sent)] /\ at < Len(Encoded(sending))

DeliveredSent(r, s, n) == \A i \in 1 .. Len(r) : \E k \in 1 .. n : r[i] = s[k]
DeliveredInOrder(r, s, n) ==
  \A i, j \in 1 .. Len(r) : i < j => \E k, l \in 1 .. n : k < l /\ r[i] = s[k] /\ r[j] = s[l]
HeldSent(b, s, n) ==
  \A i \in 1 .. Len(b) : b[i] \notin Bytes => \E k \in 1 .. n : b[i] = Checksum(s[k])
HeldInOrder(b, s, n) ==
  \A i, j \in 1 .. Len(b) : i < j /\ b[i] \notin Bytes /\ b[j] \notin Bytes =>
    \E k, l \in 1 .. n : k < l /\ b[i] = Checksum(s[k]) /\ b[j] = Checksum(s[l])
DeliveredFirst(r, b, s, n) ==
  \A i \in 1 .. Len(r), j \in 1 .. Len(b) : b[j] \notin Bytes =>
    \E k, l \in 1 .. n : k < l /\ r[i] = s[k] /\ b[j] = Checksum(s[l])
InOrder(r, b, s, n) ==
  /\ DeliveredSent(r, s, n) /\ DeliveredInOrder(r, s, n)
  /\ HeldSent(b, s, n) /\ HeldInOrder(b, s, n) /\ DeliveredFirst(r, b, s, n)

ParserStates == {"Magic1", "Magic2", "Version", "Type", "Length", "Payload", "Crc"}
ParserTypeOK ==
  parser \in [state : ParserStates, body : Seq(Nat), delivered : {<<>>}]

LineTypeOK ==
  /\ received \in Seq(Frames) /\ buffer \in Seq(Nat) /\ receiver \in {"nano", "host"}
  /\ receiver = "nano" => buffer = <<>>

FramingInv == SentOnce /\ LineTypeOK /\ ParserTypeOK /\ InOrder(received, buffer, sent, Finished)

LEMMA OrderGrows ==
  ASSUME NEW r, NEW b, NEW s, NEW n \in Nat, NEW s2, NEW n2 \in Nat,
         InOrder(r, b, s, n), n <= n2, \A k \in 1 .. n : s2[k] = s[k]
  PROVE  InOrder(r, b, s2, n2)
<1>1. \A k \in 1 .. n : k \in 1 .. n2 /\ s2[k] = s[k]
  OBVIOUS
<1>2. DeliveredSent(r, s2, n2)
  BY <1>1 DEF InOrder, DeliveredSent
<1>3. DeliveredInOrder(r, s2, n2)
  <2> SUFFICES ASSUME NEW i \in 1 .. Len(r), NEW j \in 1 .. Len(r), i < j
               PROVE  \E k, l \in 1 .. n2 : k < l /\ r[i] = s2[k] /\ r[j] = s2[l]
    BY DEF DeliveredInOrder
  <2>1. PICK k \in 1 .. n, l \in 1 .. n : k < l /\ r[i] = s[k] /\ r[j] = s[l]
    BY DEF InOrder, DeliveredInOrder
  <2>2. QED
    BY <1>1, <2>1
<1>4. HeldSent(b, s2, n2)
  BY <1>1 DEF InOrder, HeldSent
<1>5. HeldInOrder(b, s2, n2)
  <2> SUFFICES ASSUME NEW i \in 1 .. Len(b), NEW j \in 1 .. Len(b),
                      i < j, b[i] \notin Bytes, b[j] \notin Bytes
               PROVE  \E k, l \in 1 .. n2 : k < l /\ b[i] = Checksum(s2[k]) /\ b[j] = Checksum(s2[l])
    BY DEF HeldInOrder
  <2>1. PICK k \in 1 .. n, l \in 1 .. n : k < l /\ b[i] = Checksum(s[k]) /\ b[j] = Checksum(s[l])
    BY DEF InOrder, HeldInOrder
  <2>2. QED
    BY <1>1, <2>1
<1>6. DeliveredFirst(r, b, s2, n2)
  <2> SUFFICES ASSUME NEW i \in 1 .. Len(r), NEW j \in 1 .. Len(b), b[j] \notin Bytes
               PROVE  \E k, l \in 1 .. n2 : k < l /\ r[i] = s2[k] /\ b[j] = Checksum(s2[l])
    BY DEF DeliveredFirst
  <2>1. PICK k \in 1 .. n, l \in 1 .. n : k < l /\ r[i] = s[k] /\ b[j] = Checksum(s[l])
    BY DEF InOrder, DeliveredFirst
  <2>2. QED
    BY <1>1, <2>1
<1>7. QED
  BY <1>2, <1>3, <1>4, <1>5, <1>6 DEF InOrder

LEMMA OrderSuffix ==
  ASSUME NEW r, NEW b, NEW s, NEW n, NEW b2, NEW d \in Nat,
         InOrder(r, b, s, n), Len(b) \in Nat, Len(b2) \in Nat, Len(b2) + d <= Len(b),
         \A i \in 1 .. Len(b2) : b2[i] = b[i + d]
  PROVE  InOrder(r, b2, s, n)
<1>1. \A i \in 1 .. Len(b2) : i + d \in 1 .. Len(b) /\ b2[i] = b[i + d]
  OBVIOUS
<1>2. HeldSent(b2, s, n)
  BY <1>1 DEF InOrder, HeldSent
<1>3. ASSUME NEW i \in 1 .. Len(b2), NEW j \in 1 .. Len(b2), i < j, b2[i] \notin Bytes, b2[j] \notin Bytes
      PROVE  \E k, l \in 1 .. n : k < l /\ b2[i] = Checksum(s[k]) /\ b2[j] = Checksum(s[l])
  <2>1. i + d \in 1 .. Len(b) /\ j + d \in 1 .. Len(b) /\ i + d < j + d
    BY <1>1, <1>3
  <2>2. b2[i] = b[i + d] /\ b2[j] = b[j + d]
    BY <1>1
  <2>3. \E k, l \in 1 .. n : k < l /\ b[i + d] = Checksum(s[k]) /\ b[j + d] = Checksum(s[l])
    BY <1>3, <2>1, <2>2 DEF InOrder, HeldInOrder
  <2>4. QED
    BY <2>2, <2>3
<1>4. ASSUME NEW i \in 1 .. Len(r), NEW j \in 1 .. Len(b2), b2[j] \notin Bytes
      PROVE  \E k, l \in 1 .. n : k < l /\ r[i] = s[k] /\ b2[j] = Checksum(s[l])
  <2>1. j + d \in 1 .. Len(b) /\ b2[j] = b[j + d]
    BY <1>1
  <2>2. \E k, l \in 1 .. n : k < l /\ r[i] = s[k] /\ b[j + d] = Checksum(s[l])
    BY <1>4, <2>1 DEF InOrder, DeliveredFirst
  <2>3. QED
    BY <2>1, <2>2
<1>5. HeldInOrder(b2, s, n) /\ DeliveredFirst(r, b2, s, n)
  BY <1>3, <1>4 DEF HeldInOrder, DeliveredFirst
<1>6. QED
  BY <1>2, <1>5 DEF InOrder

LEMMA OrderPlain ==
  ASSUME NEW r, NEW b \in Seq(Nat), NEW s, NEW n, NEW v \in Bytes, InOrder(r, b, s, n)
  PROVE  InOrder(r, Append(b, v), s, n)
<1> DEFINE c == Append(b, v)
<1>1. Len(b) \in Nat /\ Len(c) = Len(b) + 1 /\ c[Len(b) + 1] = v
  BY BytesAreNaturals
<1>2. \A i \in 1 .. Len(b) : c[i] = b[i]
  BY BytesAreNaturals
<1> HIDE DEF c
<1>3. \A i \in 1 .. Len(c) : c[i] \notin Bytes => i \in 1 .. Len(b) /\ c[i] = b[i]
  BY <1>1, <1>2
<1>4. HeldSent(c, s, n)
  BY <1>3 DEF InOrder, HeldSent
<1>5. ASSUME NEW i \in 1 .. Len(c), NEW j \in 1 .. Len(c), i < j, c[i] \notin Bytes, c[j] \notin Bytes
      PROVE  \E k, l \in 1 .. n : k < l /\ c[i] = Checksum(s[k]) /\ c[j] = Checksum(s[l])
  <2>1. i \in 1 .. Len(b) /\ j \in 1 .. Len(b) /\ c[i] = b[i] /\ c[j] = b[j]
    BY <1>3, <1>5
  <2>2. QED
    BY <1>5, <2>1 DEF InOrder, HeldInOrder
<1>6. ASSUME NEW i \in 1 .. Len(r), NEW j \in 1 .. Len(c), c[j] \notin Bytes
      PROVE  \E k, l \in 1 .. n : k < l /\ r[i] = s[k] /\ c[j] = Checksum(s[l])
  <2>1. j \in 1 .. Len(b) /\ c[j] = b[j] /\ b[j] \notin Bytes
    BY <1>3, <1>6
  <2>2. \E k, l \in 1 .. n : k < l /\ r[i] = s[k] /\ b[j] = Checksum(s[l])
    BY <2>1 DEF InOrder, DeliveredFirst
  <2>3. QED
    BY <2>1, <2>2
<1>7. HeldInOrder(c, s, n) /\ DeliveredFirst(r, c, s, n)
  BY <1>5, <1>6 DEF HeldInOrder, DeliveredFirst
<1>8. QED
  BY <1>4, <1>7 DEF InOrder, c

LEMMA OrderChecksum ==
  ASSUME NEW r, NEW b \in Seq(Nat), NEW s, NEW n \in Nat, InOrder(r, b, s, n),
         Checksum(s[n + 1]) \in Nat
  PROVE  InOrder(r, Append(b, Checksum(s[n + 1])), s, n + 1)
<1> DEFINE v == Checksum(s[n + 1])
           c == Append(b, v)
<1>1. Len(b) \in Nat /\ Len(c) = Len(b) + 1 /\ c[Len(b) + 1] = v
  OBVIOUS
<1>2. \A i \in 1 .. Len(b) : c[i] = b[i]
  OBVIOUS
<1>3. InOrder(r, b, s, n + 1)
  BY OrderGrows
<1> HIDE DEF c, v
<1>4. \A i \in 1 .. Len(c) : i \in 1 .. Len(b) \/ i = Len(b) + 1
  BY <1>1
<1>5. \A k \in 1 .. n : k \in 1 .. n + 1 /\ k < n + 1
  OBVIOUS
<1>6. n + 1 \in 1 .. n + 1
  OBVIOUS
<1>7. HeldSent(c, s, n + 1)
  <2> SUFFICES ASSUME NEW i \in 1 .. Len(c), c[i] \notin Bytes
               PROVE  \E k \in 1 .. n + 1 : c[i] = Checksum(s[k])
    BY DEF HeldSent
  <2>1. CASE i \in 1 .. Len(b)
    BY <1>2, <1>3, <2>1 DEF InOrder, HeldSent
  <2>2. CASE i = Len(b) + 1
    BY <1>1, <1>6, <2>2 DEF v
  <2>3. QED
    BY <1>4, <2>1, <2>2
<1>8. HeldInOrder(c, s, n + 1)
  <2> SUFFICES ASSUME NEW i \in 1 .. Len(c), NEW j \in 1 .. Len(c), i < j, c[i] \notin Bytes, c[j] \notin Bytes
               PROVE  \E k, l \in 1 .. n + 1 : k < l /\ c[i] = Checksum(s[k]) /\ c[j] = Checksum(s[l])
    BY DEF HeldInOrder
  <2>1. i \in 1 .. Len(b) /\ c[i] = b[i]
    BY <1>1, <1>2
  <2>2. CASE j \in 1 .. Len(b)
    <3>1. c[j] = b[j]
      BY <1>2, <2>2
    <3>2. HeldInOrder(b, s, n + 1)
      BY <1>3 DEF InOrder
    <3>3. \E k, l \in 1 .. n + 1 : k < l /\ b[i] = Checksum(s[k]) /\ b[j] = Checksum(s[l])
      BY <2>1, <2>2, <3>1, <3>2 DEF HeldInOrder
    <3>4. QED
      BY <2>1, <3>1, <3>3
  <2>3. CASE j = Len(b) + 1
    <3>1. PICK k \in 1 .. n : c[i] = Checksum(s[k])
      BY <2>1 DEF InOrder, HeldSent
    <3>2. k \in 1 .. n + 1 /\ k < n + 1
      BY <1>5
    <3>3. c[j] = Checksum(s[n + 1])
      BY <1>1, <2>3 DEF v
    <3>4. QED
      BY <1>6, <3>1, <3>2, <3>3
  <2>4. QED
    BY <1>4, <2>2, <2>3
<1>9. DeliveredFirst(r, c, s, n + 1)
  <2> SUFFICES ASSUME NEW i \in 1 .. Len(r), NEW j \in 1 .. Len(c), c[j] \notin Bytes
               PROVE  \E k, l \in 1 .. n + 1 : k < l /\ r[i] = s[k] /\ c[j] = Checksum(s[l])
    BY DEF DeliveredFirst
  <2>1. CASE j \in 1 .. Len(b)
    <3>1. c[j] = b[j] /\ b[j] \notin Bytes
      BY <1>2, <2>1
    <3>2. DeliveredFirst(r, b, s, n + 1)
      BY <1>3 DEF InOrder
    <3>3. \E k, l \in 1 .. n + 1 : k < l /\ r[i] = s[k] /\ b[j] = Checksum(s[l])
      BY <2>1, <3>1, <3>2 DEF DeliveredFirst
    <3>4. QED
      BY <3>1, <3>3
  <2>2. CASE j = Len(b) + 1
    <3>1. PICK k \in 1 .. n : r[i] = s[k]
      BY DEF InOrder, DeliveredSent
    <3>2. k \in 1 .. n + 1 /\ k < n + 1
      BY <1>5
    <3>3. c[j] = Checksum(s[n + 1])
      BY <1>1, <2>2 DEF v
    <3>4. QED
      BY <1>6, <3>1, <3>2, <3>3
  <2>3. QED
    BY <1>4, <2>1, <2>2
<1>10. InOrder(r, c, s, n + 1)
  BY <1>3, <1>7, <1>8, <1>9 DEF InOrder
<1>11. QED
  BY <1>10 DEF c, v

(* A frame is found at the place m of what is searched. *)
LEMMA OrderTaken ==
  ASSUME NEW r \in Seq(Frames), NEW b, NEW s, NEW n \in Nat, NEW f \in Frames, NEW b2, NEW m \in Nat,
         InOrder(r, b, s, n), \A k \in 1 .. n : s[k] \in Frames,
         m \in 1 .. Len(b), b[m] = Checksum(f),
         Len(b) \in Nat, Len(b2) \in Nat, Len(b2) + m <= Len(b),
         \A i \in 1 .. Len(b2) : b2[i] = b[i + m]
  PROVE  InOrder(Append(r, f), b2, s, n)
<1> DEFINE q == Append(r, f)
<1>1. Len(r) \in Nat /\ Len(q) = Len(r) + 1 /\ q[Len(r) + 1] = f
  OBVIOUS
<1>2. \A i \in 1 .. Len(r) : q[i] = r[i]
  OBVIOUS
<1>3. InOrder(r, b2, s, n)
  BY OrderSuffix
<1>4. b[m] \notin Bytes /\ \A k \in 1 .. n : b[m] = Checksum(s[k]) => s[k] = f
  BY ChecksumTells
<1> HIDE DEF q
<1>5. \A i \in 1 .. Len(q) : i \in 1 .. Len(r) \/ i = Len(r) + 1
  BY <1>1
<1>6. DeliveredSent(q, s, n)
  <2> SUFFICES ASSUME NEW i \in 1 .. Len(q)
               PROVE  \E k \in 1 .. n : q[i] = s[k]
    BY DEF DeliveredSent
  <2>1. CASE i \in 1 .. Len(r)
    BY <1>2, <2>1 DEF InOrder, DeliveredSent
  <2>2. CASE i = Len(r) + 1
    BY <1>1, <1>4, <2>2 DEF InOrder, HeldSent
  <2>3. QED
    BY <1>5, <2>1, <2>2
<1>7. DeliveredInOrder(q, s, n)
  <2> SUFFICES ASSUME NEW i \in 1 .. Len(q), NEW j \in 1 .. Len(q), i < j
               PROVE  \E k, l \in 1 .. n : k < l /\ q[i] = s[k] /\ q[j] = s[l]
    BY DEF DeliveredInOrder
  <2>1. i \in 1 .. Len(r) /\ q[i] = r[i]
    BY <1>1, <1>2
  <2>2. CASE j \in 1 .. Len(r)
    <3>1. q[j] = r[j]
      BY <1>2, <2>2
    <3>2. QED
      BY <2>1, <2>2, <3>1 DEF InOrder, DeliveredInOrder
  <2>3. CASE j = Len(r) + 1
    <3>1. PICK k \in 1 .. n, l \in 1 .. n : k < l /\ r[i] = s[k] /\ b[m] = Checksum(s[l])
      BY <1>4, <2>1 DEF InOrder, DeliveredFirst
    <3>2. s[l] = f /\ q[j] = f
      BY <1>1, <1>4, <2>3, <3>1
    <3>3. QED
      BY <2>1, <3>1, <3>2
  <2>4. QED
    BY <1>5, <2>2, <2>3
<1>8. DeliveredFirst(q, b2, s, n)
  <2> SUFFICES ASSUME NEW i \in 1 .. Len(q), NEW j \in 1 .. Len(b2), b2[j] \notin Bytes
               PROVE  \E k, l \in 1 .. n : k < l /\ q[i] = s[k] /\ b2[j] = Checksum(s[l])
    BY DEF DeliveredFirst
  <2>1. CASE i \in 1 .. Len(r)
    <3>1. q[i] = r[i]
      BY <1>2, <2>1
    <3>2. QED
      BY <1>3, <2>1, <3>1 DEF InOrder, DeliveredFirst
  <2>2. CASE i = Len(r) + 1
    <3>1. j + m \in 1 .. Len(b) /\ m < j + m /\ b2[j] = b[j + m]
      OBVIOUS
    <3>2. \E k, l \in 1 .. n : k < l /\ b[m] = Checksum(s[k]) /\ b[j + m] = Checksum(s[l])
      BY <1>4, <3>1 DEF InOrder, HeldInOrder
    <3>3. PICK k \in 1 .. n, l \in 1 .. n : k < l /\ b[m] = Checksum(s[k]) /\ b2[j] = Checksum(s[l])
      BY <3>1, <3>2
    <3>4. s[k] = f /\ q[i] = f
      BY <1>1, <1>4, <2>2, <3>3
    <3>5. QED
      BY <3>3, <3>4
  <2>3. QED
    BY <1>5, <2>1, <2>2
<1>9. InOrder(q, b2, s, n)
  BY <1>3, <1>6, <1>7, <1>8 DEF InOrder
<1>10. QED
  BY <1>9 DEF q

(* Nothing is held: the frame whose last byte came is delivered at once. *)
LEMMA OrderDelivered ==
  ASSUME NEW r \in Seq(Frames), NEW s, NEW n \in Nat, s[n + 1] \in Frames, InOrder(r, <<>>, s, n)
  PROVE  InOrder(Append(r, s[n + 1]), <<>>, s, n + 1)
<1> DEFINE f == s[n + 1]
           q == Append(r, f)
<1>1. Len(r) \in Nat /\ Len(q) = Len(r) + 1 /\ q[Len(r) + 1] = f
  OBVIOUS
<1>2. \A i \in 1 .. Len(r) : q[i] = r[i]
  OBVIOUS
<1>3. InOrder(r, <<>>, s, n + 1)
  BY OrderGrows
<1> HIDE DEF q, f
<1>4. \A i \in 1 .. Len(q) : i \in 1 .. Len(r) \/ i = Len(r) + 1
  BY <1>1
<1>5. \A k \in 1 .. n : k \in 1 .. n + 1 /\ k < n + 1
  OBVIOUS
<1>6. n + 1 \in 1 .. n + 1
  OBVIOUS
<1>7. DeliveredSent(q, s, n + 1)
  <2> SUFFICES ASSUME NEW i \in 1 .. Len(q)
               PROVE  \E k \in 1 .. n + 1 : q[i] = s[k]
    BY DEF DeliveredSent
  <2>1. CASE i \in 1 .. Len(r)
    BY <1>2, <1>3, <2>1 DEF InOrder, DeliveredSent
  <2>2. CASE i = Len(r) + 1
    BY <1>1, <1>6, <2>2 DEF f
  <2>3. QED
    BY <1>4, <2>1, <2>2
<1>8. DeliveredInOrder(q, s, n + 1)
  <2> SUFFICES ASSUME NEW i \in 1 .. Len(q), NEW j \in 1 .. Len(q), i < j
               PROVE  \E k, l \in 1 .. n + 1 : k < l /\ q[i] = s[k] /\ q[j] = s[l]
    BY DEF DeliveredInOrder
  <2>1. i \in 1 .. Len(r) /\ q[i] = r[i]
    BY <1>1, <1>2
  <2>2. CASE j \in 1 .. Len(r)
    <3>1. q[j] = r[j]
      BY <1>2, <2>2
    <3>2. QED
      BY <1>3, <2>1, <2>2, <3>1 DEF InOrder, DeliveredInOrder
  <2>3. CASE j = Len(r) + 1
    <3>1. PICK k \in 1 .. n : r[i] = s[k]
      BY <2>1 DEF InOrder, DeliveredSent
    <3>2. k \in 1 .. n + 1 /\ k < n + 1
      BY <1>5
    <3>3. q[j] = s[n + 1]
      BY <1>1, <2>3 DEF f
    <3>4. QED
      BY <1>6, <2>1, <3>1, <3>2, <3>3
  <2>4. QED
    BY <1>4, <2>2, <2>3
<1>9. HeldSent(<<>>, s, n + 1) /\ HeldInOrder(<<>>, s, n + 1) /\ DeliveredFirst(q, <<>>, s, n + 1)
  BY DEF HeldSent, HeldInOrder, DeliveredFirst
<1>10. InOrder(q, <<>>, s, n + 1)
  BY <1>7, <1>8, <1>9 DEF InOrder
<1>11. QED
  BY <1>10 DEF q, f

-----------------------------------------------------------------------------
(* The line. *)

LEMMA LineProgress ==
  ASSUME SentOnce, NEW f \in Frames, NEW good, IsNext(f), Progress(f, good)
  PROVE  /\ SentOnce' /\ Finished \in Nat /\ Finished' \in Nat /\ Finished <= Finished'
         /\ \A k \in 1 .. Finished : sent'[k] = sent[k]
         /\ at + 1 \in 1 .. Len(Encoded(f))
         /\ at + 1 = Len(Encoded(f)) => Finished' = Finished + 1 /\ sent'[Finished + 1] = f
<1> DEFINE last == at + 1 = Len(Encoded(f))
<1>1. Len(Encoded(f)) \in Nat /\ Len(Encoded(f)) >= 6
  BY EncodedBytes, FramesType
<1>2. /\ sent \in Seq(Frames) /\ Len(sent) \in Nat /\ at \in Nat
      /\ \A k, l \in 1 .. Len(sent) : sent[k] = sent[l] => k = l
  BY DEF SentOnce
<1>3. /\ sending' = (IF last THEN 0 ELSE f) /\ at' = (IF last THEN 0 ELSE at + 1)
      /\ sent' = (IF at = 0 THEN Append(sent, f) ELSE sent)
  BY DEF Progress
<1>4. CASE at = 0
  <2>1. ~last
    <3>1. at + 1 = 1
      BY <1>4
    <3>2. QED
      BY <1>1, <3>1
  <2>2. /\ sent' \in Seq(Frames) /\ Len(sent') = Len(sent) + 1 /\ sent'[Len(sent) + 1] = f
        /\ \A k \in 1 .. Len(sent) : sent'[k] = sent[k]
    BY <1>2, <1>3, <1>4, AppendProperties
  <2>3. \A k \in 1 .. Len(sent) : sent[k] # f
    BY <1>2, <1>4 DEF IsNext, ToSet
  <2>4. at' = 1 /\ sending' = f
    BY <1>3, <1>4, <2>1
  <2>5. ASSUME NEW k \in 1 .. Len(sent'), NEW l \in 1 .. Len(sent'), sent'[k] = sent'[l]
        PROVE  k = l
    <3>1. (k \in 1 .. Len(sent) \/ k = Len(sent) + 1) /\ (l \in 1 .. Len(sent) \/ l = Len(sent) + 1)
      BY <1>2, <2>2
    <3>2. QED
      BY <1>2, <2>2, <2>3, <2>5, <3>1
  <2>6. sent' # <<>>
    BY <1>2, <2>2
  <2>7. SentOnce'
    BY <1>1, <2>2, <2>4, <2>5, <2>6 DEF SentOnce
  <2>8. Finished = Len(sent) /\ Finished' = Len(sent)
    BY <1>2, <1>4, <2>2, <2>4 DEF Finished
  <2>9. QED
    BY <1>1, <1>2, <1>4, <2>1, <2>2, <2>7, <2>8
<1>5. CASE at > 0
  <2>1. sending = f /\ sent # <<>> /\ f = sent[Len(sent)] /\ at < Len(Encoded(f))
    BY <1>2, <1>5 DEF SentOnce, IsNext
  <2>2. sent' = sent
    BY <1>2, <1>3, <1>5
  <2>3. Len(sent) >= 1 /\ Finished = Len(sent) - 1
    BY <1>2, <1>5, <2>1, EmptySeq DEF Finished
  <2>4. CASE last
    <3>1. at' = 0
      BY <1>3, <2>4
    <3>2. Finished' = Len(sent)
      BY <2>2, <3>1 DEF Finished
    <3>3. SentOnce'
      BY <1>2, <2>2, <3>1 DEF SentOnce
    <3>4. QED
      BY <1>1, <1>2, <2>1, <2>2, <2>3, <2>4, <3>2, <3>3
  <2>5. CASE ~last
    <3>1. at' = at + 1 /\ sending' = f
      BY <1>3, <2>5
    <3>2. Finished' = Len(sent) - 1
      BY <1>2, <2>2, <3>1 DEF Finished
    <3>3. at + 1 < Len(Encoded(f))
      BY <1>1, <1>2, <2>1, <2>5
    <3>4. SentOnce'
      BY <1>2, <2>1, <2>2, <3>1, <3>3 DEF SentOnce
    <3>5. QED
      BY <1>1, <1>2, <2>1, <2>2, <2>3, <2>5, <3>2, <3>4
  <2>6. QED
    BY <2>4, <2>5
<1>6. QED
  BY <1>2, <1>4, <1>5

LEMMA SentAreFrames ==
  ASSUME SentOnce
  PROVE  \A k \in 1 .. Len(sent) : sent[k] \in Frames
BY ElementOfSeq DEF SentOnce

(* The Nano's parser delivers only a frame whose checksum it has just read. *)
LEMMA PolledTypes ==
  ASSUME ParserTypeOK, NEW value \in Nat, NEW p, p = Polled(TimedOut(parser), value)
  PROVE  /\ [p EXCEPT !.delivered = <<>>] \in [state : ParserStates, body : Seq(Nat), delivered : {<<>>}]
         /\ \/ p.delivered = <<>>
            \/ \E f \in Frames : value = Checksum(f) /\ p.delivered = <<f>>
<1> DEFINE Parsers == [state : ParserStates, body : Seq(Nat), delivered : {<<>>}]
           q == TimedOut(parser)
<1>1. Reset \in Parsers
  BY DEF Reset, ParserStates
<1>2. q \in Parsers
  BY <1>1 DEF TimedOut, ParserTypeOK
<1>3. \A b \in Seq(Nat) : Append(b, value) \in Seq(Nat)
  OBVIOUS
<1> HIDE DEF q
<1>4. Collected(q, value) = [q EXCEPT !.body = Append(q.body, value)]
  BY DEF Collected
<1>5. Collected(q, value) \in Parsers
  BY <1>2, <1>3, <1>4
<1>6. \A s \in ParserStates : [q EXCEPT !.state = s] \in Parsers /\ [Collected(q, value) EXCEPT !.state = s] \in Parsers
  BY <1>2, <1>5
<1>7. p = Polled(q, value)
  BY DEF q
<1>8. q.state \in ParserStates
  BY <1>2
<1>9. CASE q.state # "Crc"
  <2>1. \/ p = Reset
        \/ \E s \in ParserStates : p = [q EXCEPT !.state = s] \/ p = [Collected(q, value) EXCEPT !.state = s]
    <3>1. CASE q.state = "Magic1"
      BY <1>7, <3>1 DEF Polled, ParserStates
    <3>2. CASE q.state = "Magic2"
      BY <1>7, <3>2 DEF Polled, ParserStates
    <3>3. CASE q.state = "Version"
      BY <1>7, <3>3 DEF Polled, ParserStates
    <3>4. CASE q.state = "Type"
      BY <1>7, <3>4 DEF Polled, ParserStates
    <3>5. CASE q.state = "Length"
      BY <1>7, <3>5 DEF Polled, ParserStates
    <3>6. CASE q.state = "Payload"
      BY <1>7, <3>6 DEF Polled, ParserStates
    <3>7. QED
      BY <1>8, <1>9, <3>1, <3>2, <3>3, <3>4, <3>5, <3>6 DEF ParserStates
  <2>2. p \in Parsers
    BY <1>1, <1>6, <2>1
  <2>3. QED
    BY <2>2
<1>10. CASE q.state = "Crc"
  <2>1. p = IF Checks(q.body, value) THEN [Reset EXCEPT !.delivered = <<FrameOf(q.body)>>] ELSE Reset
    BY <1>7, <1>10 DEF Polled
  <2>2. CASE Checks(q.body, value)
    <3>1. PICK f \in Frames : q.body = Body(f) /\ value = Checksum(f)
      BY <2>2 DEF Checks
    <3>2. FrameOf(q.body) = f
      BY <3>1, FrameOfBody
    <3>3. p = [Reset EXCEPT !.delivered = <<f>>]
      BY <2>1, <2>2, <3>2
    <3>4. p.delivered = <<f>>
      BY <3>3 DEF Reset
    <3>5. [p EXCEPT !.delivered = <<>>] = [Reset EXCEPT !.delivered = <<>>]
      BY <3>3
    <3>6. [Reset EXCEPT !.delivered = <<>>] \in Parsers
      BY <1>1
    <3>7. QED
      BY <3>1, <3>4, <3>5, <3>6
  <2>3. CASE ~Checks(q.body, value)
    <3>1. p = Reset
      BY <2>1, <2>3
    <3>2. QED
      BY <1>1, <3>1 DEF Reset
  <2>4. QED
    BY <2>2, <2>3
<1>11. QED
  BY <1>9, <1>10

-----------------------------------------------------------------------------
(* The steps. *)

(* A byte that comes is no checksum, or it is that of the frame that it completes. *)
Completes(value) ==
  /\ Finished' = Finished + 1 /\ sent'[Finished + 1] \in Frames
  /\ value = Checksum(sent'[Finished + 1])

LEMMA ArriveKeeps ==
  ASSUME FramingInv, NEW value \in Nat, Arrive(value),
         Finished \in Nat, Finished' \in Nat, Finished <= Finished',
         \A k \in 1 .. Finished : sent'[k] = sent[k],
         value \in Bytes \/ Completes(value)
  PROVE  LineTypeOK' /\ ParserTypeOK' /\ InOrder(received', buffer', sent', Finished')
<1>1. /\ received \in Seq(Frames) /\ buffer \in Seq(Nat) /\ receiver \in {"nano", "host"}
      /\ receiver = "nano" => buffer = <<>>
      /\ InOrder(received, buffer, sent, Finished)
  BY DEF FramingInv, LineTypeOK
<1>2. InOrder(received, buffer, sent', Finished) /\ InOrder(received, buffer, sent', Finished')
  BY <1>1, OrderGrows
<1>3. receiver' = receiver
  BY DEF Arrive
<1>4. CASE receiver = "nano"
  <2> DEFINE p == Polled(TimedOut(parser), value)
  <2>1. /\ parser' = [p EXCEPT !.delivered = <<>>] /\ received' = received \o p.delivered
        /\ buffer' = buffer
    BY <1>4 DEF Arrive
  <2>2. ParserTypeOK
    BY DEF FramingInv
  <2>3. /\ [p EXCEPT !.delivered = <<>>] \in [state : ParserStates, body : Seq(Nat), delivered : {<<>>}]
        /\ p.delivered = <<>> \/ \E f \in Frames : value = Checksum(f) /\ p.delivered = <<f>>
    BY <2>2, PolledTypes
  <2> HIDE DEF p
  <2>4. ParserTypeOK'
    BY <2>1, <2>3 DEF ParserTypeOK
  <2>5. buffer' = <<>> /\ buffer = <<>>
    BY <1>1, <1>4, <2>1
  <2>6. CASE p.delivered = <<>>
    <3>1. received' = received
      BY <1>1, <2>1, <2>6, ConcatEmptySeq
    <3>2. LineTypeOK'
      BY <1>1, <1>3, <2>1, <3>1 DEF LineTypeOK
    <3>3. QED
      BY <1>2, <2>1, <2>4, <3>1, <3>2
  <2>7. ASSUME NEW f \in Frames, value = Checksum(f), p.delivered = <<f>>
        PROVE  LineTypeOK' /\ ParserTypeOK' /\ InOrder(received', buffer', sent', Finished')
    <3>1. value \notin Bytes
      BY <2>7, ChecksumTells
    <3>2. Completes(value)
      BY <3>1
    <3>3. f = sent'[Finished + 1] /\ Finished' = Finished + 1
      BY <2>7, <3>2, ChecksumTells DEF Completes
    <3>4. received' = Append(received, f)
      BY <1>1, <2>1, <2>7, AppendIsConcat
    <3>5. received' \in Seq(Frames)
      BY <1>1, <3>4, AppendProperties
    <3>6. LineTypeOK'
      BY <1>1, <1>3, <2>1, <3>5 DEF LineTypeOK
    <3>7. InOrder(received, <<>>, sent', Finished)
      BY <1>2, <2>5
    <3>8. sent'[Finished + 1] \in Frames
      BY <3>3
    <3>9. InOrder(Append(received, sent'[Finished + 1]), <<>>, sent', Finished + 1)
      BY <1>1, <3>7, <3>8, OrderDelivered
    <3>10. QED
      BY <2>4, <2>5, <3>3, <3>4, <3>6, <3>9
  <2>8. QED
    BY <2>3, <2>6, <2>7
<1>5. CASE receiver = "host"
  <2> DEFINE b == KeptBytes(buffer)
  <2>1. buffer' = Append(b, value) /\ parser' = parser /\ received' = received
    BY <1>5 DEF Arrive
  <2>2. b \in Seq(Nat) /\ (b = buffer \/ b = <<>>)
    BY <1>1 DEF KeptBytes
  <2> HIDE DEF b
  <2>3. InOrder(received, b, sent', Finished)
    <3>1. CASE b = buffer
      BY <1>2, <3>1
    <3>2. CASE b = <<>>
      <4>1. Len(b) = 0 /\ Len(buffer) \in Nat
        BY <1>1, <3>2
      <4>2. 0 \in Nat /\ Len(b) \in Nat /\ Len(b) + 0 <= Len(buffer) /\ \A i \in 1 .. Len(b) : b[i] = buffer[i + 0]
        BY <4>1
      <4>3. QED
        BY <1>2, <4>1, <4>2, OrderSuffix
    <3>3. QED
      BY <2>2, <3>1, <3>2
  <2>4. ParserTypeOK'
    BY <2>1 DEF FramingInv, ParserTypeOK
  <2>5. buffer' \in Seq(Nat)
    BY <2>1, <2>2, AppendProperties
  <2>6. LineTypeOK'
    BY <1>1, <1>3, <1>5, <2>1, <2>5 DEF LineTypeOK
  <2>7. InOrder(received, Append(b, value), sent', Finished')
    <3>1. CASE value \in Bytes
      <4>1. InOrder(received, Append(b, value), sent', Finished)
        BY <2>2, <2>3, <3>1, OrderPlain
      <4>2. QED
        BY <4>1, OrderGrows
    <3>2. CASE Completes(value)
      <4>1. value = Checksum(sent'[Finished + 1]) /\ Finished' = Finished + 1
        BY <3>2 DEF Completes
      <4>2. InOrder(received, Append(b, Checksum(sent'[Finished + 1])), sent', Finished + 1)
        BY <2>2, <2>3, <4>1, OrderChecksum
      <4>3. QED
        BY <4>1, <4>2
    <3>3. QED
      BY <3>1, <3>2
  <2>8. QED
    BY <2>1, <2>4, <2>6, <2>7
<1>6. QED
  BY <1>1, <1>4, <1>5

LEMMA FinishedType ==
  ASSUME SentOnce
  PROVE  Finished \in Nat /\ Finished <= Len(sent)
<1>1. Len(sent) \in Nat /\ (at > 0 => Len(sent) >= 1)
  BY EmptySeq DEF SentOnce
<1>2. QED
  BY <1>1 DEF Finished

LEMMA FramingInitInv ==
  ASSUME FramingInit
  PROVE  FramingInv
<1>1. sent = <<>> /\ at = 0 /\ received = <<>> /\ buffer = <<>> /\ parser = Reset /\ receiver \in {"nano", "host"}
  BY DEF FramingInit
<1>2. SentOnce
  BY <1>1 DEF SentOnce
<1>3. LineTypeOK
  BY <1>1 DEF LineTypeOK
<1>4. ParserTypeOK
  BY <1>1 DEF ParserTypeOK, Reset, ParserStates
<1>5. InOrder(received, buffer, sent, Finished)
  BY <1>1 DEF InOrder, DeliveredSent, DeliveredInOrder, HeldSent, HeldInOrder, DeliveredFirst
<1>6. QED
  BY <1>2, <1>3, <1>4, <1>5 DEF FramingInv

LEMMA SendByteInv ==
  ASSUME FramingInv, SendByte
  PROVE  FramingInv'
<1>1. PICK f \in Frames : IsNext(f) /\ Arrive(Encoded(f)[at + 1]) /\ Progress(f, TRUE)
  BY DEF SendByte
<1> DEFINE value == Encoded(f)[at + 1]
<1>2. SentOnce
  BY DEF FramingInv
<1>3. /\ SentOnce' /\ Finished \in Nat /\ Finished' \in Nat /\ Finished <= Finished'
      /\ \A k \in 1 .. Finished : sent'[k] = sent[k]
      /\ at + 1 \in 1 .. Len(Encoded(f))
      /\ at + 1 = Len(Encoded(f)) => Finished' = Finished + 1 /\ sent'[Finished + 1] = f
  BY <1>1, <1>2, LineProgress
<1>4. value \in Nat /\ (value \in Bytes \/ Completes(value))
  <2> DEFINE n == Len(Payloads[f])
  <2>1. n \in Nat /\ Len(Encoded(f)) = 6 + n
    BY EncodedBytes, FramesType
  <2>2. Encoded(f)[6 + n] = Checksum(f) /\ \A i \in 1 .. 5 + n : Encoded(f)[i] \in Bytes
    BY EncodedBytes
  <2> HIDE DEF n
  <2>3. at + 1 \in 1 .. 5 + n \/ at + 1 = 6 + n
    BY <1>3, <2>1
  <2>4. CASE at + 1 \in 1 .. 5 + n
    BY <2>2, <2>4, BytesAreNaturals
  <2>5. CASE at + 1 = 6 + n
    <3>1. value = Checksum(f) /\ Checksum(f) \in Nat
      BY <2>2, <2>5, ChecksumTells
    <3>2. Finished' = Finished + 1 /\ sent'[Finished + 1] = f
      BY <1>3, <2>1, <2>5
    <3>3. QED
      BY <3>1, <3>2 DEF Completes
  <2>6. QED
    BY <2>3, <2>4, <2>5
<1> HIDE DEF value
<1>5. Arrive(value)
  BY <1>1 DEF value
<1>6. LineTypeOK' /\ ParserTypeOK' /\ InOrder(received', buffer', sent', Finished')
  BY <1>3, <1>4, <1>5, ArriveKeeps
<1>7. QED
  BY <1>3, <1>6 DEF FramingInv

LEMMA ChangeByteInv ==
  ASSUME FramingInv, ChangeByte
  PROVE  FramingInv'
<1>1. PICK f \in Frames, v \in Noise : IsNext(f) /\ Arrive(v) /\ Progress(f, FALSE)
  BY DEF ChangeByte
<1>2. SentOnce
  BY DEF FramingInv
<1>3. /\ SentOnce' /\ Finished \in Nat /\ Finished' \in Nat /\ Finished <= Finished'
      /\ \A k \in 1 .. Finished : sent'[k] = sent[k]
  BY <1>1, <1>2, LineProgress
<1>4. v \in Nat /\ v \in Bytes
  BY FramingAssumption, BytesAreNaturals
<1>5. LineTypeOK' /\ ParserTypeOK' /\ InOrder(received', buffer', sent', Finished')
  BY <1>1, <1>3, <1>4, ArriveKeeps
<1>6. QED
  BY <1>3, <1>5 DEF FramingInv

LEMMA LoseByteInv ==
  ASSUME FramingInv, LoseByte
  PROVE  FramingInv'
<1>1. PICK f \in Frames : IsNext(f) /\ Progress(f, FALSE)
  BY DEF LoseByte
<1>2. UNCHANGED <<receiver, parser, buffer, received>>
  BY DEF LoseByte
<1>3. SentOnce /\ InOrder(received, buffer, sent, Finished)
  BY DEF FramingInv
<1>4. /\ SentOnce' /\ Finished \in Nat /\ Finished' \in Nat /\ Finished <= Finished'
      /\ \A k \in 1 .. Finished : sent'[k] = sent[k]
  BY <1>1, <1>3, LineProgress
<1>5. InOrder(received, buffer, sent', Finished')
  BY <1>3, <1>4, OrderGrows
<1>6. LineTypeOK' /\ ParserTypeOK'
  BY <1>2 DEF FramingInv, LineTypeOK, ParserTypeOK
<1>7. QED
  BY <1>2, <1>4, <1>5, <1>6 DEF FramingInv

LEMMA SentKept ==
  ASSUME SentOnce, UNCHANGED <<sending, at, sent>>
  PROVE  SentOnce' /\ Finished' = Finished /\ sent' = sent
BY DEF SentOnce, Finished

LEMMA NoiseByteInv ==
  ASSUME FramingInv, NoiseByte
  PROVE  FramingInv'
<1>1. PICK v \in Noise : Arrive(v)
  BY DEF NoiseByte
<1>2. SentOnce
  BY DEF FramingInv
<1>3. SentOnce' /\ Finished' = Finished /\ sent' = sent
  BY <1>2, SentKept DEF NoiseByte
<1>4. v \in Nat /\ v \in Bytes
  BY FramingAssumption, BytesAreNaturals
<1>5. Finished \in Nat /\ Finished' \in Nat /\ Finished <= Finished' /\ \A k \in 1 .. Finished : sent'[k] = sent[k]
  BY <1>2, <1>3, FinishedType
<1>6. LineTypeOK' /\ ParserTypeOK' /\ InOrder(received', buffer', sent', Finished')
  BY <1>1, <1>4, <1>5, ArriveKeeps
<1>7. QED
  BY <1>3, <1>6 DEF FramingInv

LEMMA SkipByteInv ==
  ASSUME FramingInv, SkipByte
  PROVE  FramingInv'
<1>1. /\ SentOnce /\ LineTypeOK /\ InOrder(received, buffer, sent, Finished)
      /\ buffer \in Seq(Nat) /\ Len(buffer) \in Nat
  BY DEF FramingInv, LineTypeOK
<1>2. SentOnce' /\ Finished' = Finished /\ sent' = sent
  BY <1>1, SentKept DEF SkipByte, channel
<1>3. buffer' = Tail(buffer) /\ UNCHANGED <<receiver, parser, received>>
  BY DEF SkipByte
<1>4. Len(buffer) >= 5
  BY DEF SkipByte, Searching, HeaderSize
<1>5. buffer # <<>>
  BY <1>1, <1>4
<1>6. /\ buffer' \in Seq(Nat) /\ Len(buffer') = Len(buffer) - 1
      /\ \A i \in 1 .. Len(buffer') : buffer'[i] = buffer[i + 1]
  BY <1>1, <1>3, <1>5, HeadTailProperties
<1>7. InOrder(received, buffer', sent, Finished)
  <2>1. 1 \in Nat /\ Len(buffer') \in Nat /\ Len(buffer') + 1 <= Len(buffer)
    BY <1>1, <1>4, <1>6
  <2>2. QED
    BY <1>1, <1>6, <2>1, OrderSuffix
<1>8. LineTypeOK' /\ ParserTypeOK'
  <2>1. receiver = "host"
    BY <1>1, <1>5 DEF LineTypeOK
  <2>2. QED
    BY <1>1, <1>3, <1>6, <2>1 DEF FramingInv, LineTypeOK, ParserTypeOK
<1>9. QED
  BY <1>2, <1>3, <1>7, <1>8 DEF FramingInv

(* What is left after the first m bytes. *)
LEMMA DroppedBytes ==
  ASSUME buffer \in Seq(Nat), Len(buffer) \in Nat, NEW m \in Nat, m \in 1 .. Len(buffer),
         buffer' = SubSeq(buffer, m + 1, Len(buffer))
  PROVE  /\ buffer' \in Seq(Nat) /\ Len(buffer') = Len(buffer) - m
         /\ \A i \in 1 .. Len(buffer') : buffer'[i] = buffer[i + m]
<1>1. \A i \in (m + 1) .. Len(buffer) : buffer[i] \in Nat
  BY ElementOfSeq
<1>2. /\ buffer' \in Seq(Nat) /\ Len(buffer') = (IF m + 1 <= Len(buffer) THEN Len(buffer) - (m + 1) + 1 ELSE 0)
      /\ \A i \in 1 .. Len(buffer) - (m + 1) + 1 : buffer'[i] = buffer[(m + 1) + i - 1]
  BY <1>1, SubSeqProperties
<1>3. Len(buffer') = Len(buffer) - m
  BY <1>2
<1>4. ASSUME NEW i \in 1 .. Len(buffer') PROVE buffer'[i] = buffer[i + m]
  <2>1. i \in 1 .. Len(buffer) - (m + 1) + 1 /\ (m + 1) + i - 1 = i + m
    BY <1>3
  <2>2. QED
    BY <1>2, <2>1
<1>5. QED
  BY <1>2, <1>3, <1>4

LEMMA TakeFrameInv ==
  ASSUME FramingInv, TakeFrame
  PROVE  FramingInv'
<1>1. /\ SentOnce /\ LineTypeOK /\ InOrder(received, buffer, sent, Finished)
      /\ buffer \in Seq(Nat) /\ Len(buffer) \in Nat /\ received \in Seq(Frames)
  BY DEF FramingInv, LineTypeOK
<1>2. SentOnce' /\ Finished' = Finished /\ sent' = sent
  BY <1>1, SentKept DEF TakeFrame, channel
<1> DEFINE m == Size(buffer)
<1>3. /\ buffer' = SubSeq(buffer, m + 1, Len(buffer)) /\ received' = Append(received, FrameOf(Content(buffer)))
      /\ UNCHANGED <<receiver, parser>>
  BY DEF TakeFrame
<1>4. Len(buffer) >= 5 /\ Len(buffer) >= m
  BY DEF TakeFrame, Searching, HoldsFrame, HeaderSize
<1>5. m \in Nat /\ m \in 1 .. Len(buffer)
  <2>1. 5 \in 1 .. Len(buffer)
    BY <1>1, <1>4
  <2>2. buffer[5] \in Nat
    BY <1>1, <2>1, ElementOfSeq
  <2>3. QED
    BY <1>1, <1>4, <2>2 DEF Size, HeaderSize
<1>6. PICK f \in Frames : Content(buffer) = Body(f) /\ buffer[m] = Checksum(f)
  BY DEF TakeFrame, HoldsFrame, Checks
<1>7. FrameOf(Content(buffer)) = f
  BY <1>6, FrameOfBody
<1> HIDE DEF m
<1>8. received' = Append(received, f) /\ received' \in Seq(Frames)
  BY <1>1, <1>3, <1>7, AppendProperties
<1>9. /\ buffer' \in Seq(Nat) /\ Len(buffer') = Len(buffer) - m
      /\ \A i \in 1 .. Len(buffer') : buffer'[i] = buffer[i + m]
  BY <1>1, <1>3, <1>5, DroppedBytes
<1>10. \A k \in 1 .. Finished : sent[k] \in Frames
  <2>1. Finished \in Nat /\ Finished <= Len(sent) /\ Len(sent) \in Nat
    BY <1>1, FinishedType DEF SentOnce
  <2>2. QED
    BY <1>1, <2>1, SentAreFrames
<1>11. InOrder(Append(received, f), buffer', sent, Finished)
  <2>1. Finished \in Nat /\ Len(buffer') \in Nat /\ Len(buffer') + m <= Len(buffer)
    BY <1>1, <1>5, <1>9, FinishedType
  <2>2. QED
    BY <1>1, <1>5, <1>6, <1>9, <1>10, <2>1, OrderTaken
<1>12. LineTypeOK' /\ ParserTypeOK'
  <2>1. receiver = "host"
    BY <1>1, <1>4 DEF LineTypeOK
  <2>2. QED
    BY <1>1, <1>3, <1>8, <1>9, <2>1 DEF FramingInv, LineTypeOK, ParserTypeOK
<1>13. QED
  BY <1>2, <1>8, <1>11, <1>12 DEF FramingInv

LEMMA FramingStutters ==
  ASSUME FramingInv, UNCHANGED <<receiver, sending, at, sent, parser, buffer, received>>
  PROVE  FramingInv'
<1>1. SentOnce' /\ Finished' = Finished /\ sent' = sent
  BY SentKept DEF FramingInv
<1>2. QED
  BY <1>1 DEF FramingInv, LineTypeOK, ParserTypeOK

LEMMA FramingNextInv ==
  ASSUME FramingInv, [FramingNext]_framingVars
  PROVE  FramingInv'
<1>1. CASE Pause
  BY <1>1, FramingStutters DEF Pause
<1>2. CASE UNCHANGED framingVars
  BY <1>2, FramingStutters DEF framingVars, channel
<1>3. QED
  BY <1>1, <1>2, SendByteInv, ChangeByteInv, LoseByteInv, NoiseByteInv, SkipByteInv, TakeFrameInv
  DEF FramingNext

LEMMA FramingInvImplies ==
  ASSUME FramingInv
  PROVE  NothingInvented
<1>1. SentOnce /\ InOrder(received, buffer, sent, Finished) /\ received \in Seq(Frames)
  BY DEF FramingInv, LineTypeOK
<1>2. Finished \in Nat /\ Finished <= Len(sent) /\ Len(sent) \in Nat
  BY <1>1, FinishedType DEF SentOnce
<1>3. /\ DOMAIN received = 1 .. Len(received) /\ DOMAIN sent = 1 .. Len(sent)
      /\ 1 .. Finished \subseteq 1 .. Len(sent)
  BY <1>1, <1>2 DEF SentOnce
<1>4. ToSet(received) \subseteq ToSet(sent)
  BY <1>1, <1>3 DEF InOrder, DeliveredSent, ToSet
<1>5. ASSUME NEW i \in DOMAIN received, NEW j \in DOMAIN received, NEW k \in DOMAIN sent, NEW l \in DOMAIN sent,
             i < j, received[i] = sent[k], received[j] = sent[l]
      PROVE  k < l
  <2>1. PICK k1 \in 1 .. Finished, l1 \in 1 .. Finished :
               k1 < l1 /\ received[i] = sent[k1] /\ received[j] = sent[l1]
    BY <1>1, <1>3, <1>5 DEF InOrder, DeliveredInOrder
  <2>2. k1 = k /\ l1 = l
    BY <1>1, <1>3, <1>5, <2>1 DEF SentOnce
  <2>3. QED
    BY <2>1, <2>2
<1>6. QED
  BY <1>4, <1>5 DEF NothingInvented

(* For all frames, damage and pauses: each parser delivers only frames that were sent,
   each at most once and in the order of sending. *)
THEOREM FramesAreNotInvented == FramingSpec => []NothingInvented
<1>1. FramingInit => FramingInv
  BY FramingInitInv
<1>2. FramingInv /\ [FramingNext]_framingVars => FramingInv'
  BY FramingNextInv
<1>3. FramingInv => NothingInvented
  BY FramingInvImplies
<1>4. QED
  BY <1>1, <1>2, <1>3, PTL DEF FramingSpec
-----------------------------------------------------------------------------
(* What the parsers have of a frame that came without damage. *)

Placed(b, f, p, c) ==
  p \in Nat /\ p + c <= Len(b) /\ \A i \in 1 .. c : b[p + i] = Encoded(f)[i]

(* What the Nano's parser has taken in of the first bytes of a frame. *)
Following(f, c) ==
  [state     |-> IF c <= 4 THEN <<"Magic2", "Version", "Type", "Length">>[c]
                 ELSE IF c = Len(Encoded(f)) - 1 THEN "Crc" ELSE "Payload",
   body      |-> SubSeq(Body(f), 1, c - 2),
   delivered |-> <<>>]

HistoryOK ==
  /\ quiet \in BOOLEAN /\ hurt \in BOOLEAN /\ fresh \in BOOLEAN
  /\ age \in [Frames -> 0 .. MaxFrameSize]
  /\ at = 0 => ~hurt /\ ~fresh
  /\ fresh => ~hurt /\ age[sending] > 0
  /\ quiet => \A f \in Frames : age[f] = 0
  /\ at > 0 /\ ~hurt => age[sending] <= at
  /\ \A f \in whole : \E k \in 1 .. Finished : f = sent[k]
  /\ due \subseteq whole

SendingIsHeld ==
  receiver = "host" /\ at > 0 /\ ~hurt /\ age[sending] > 0 =>
    /\ \E p \in 0 .. Len(buffer) : Len(buffer) = p + at /\ Placed(buffer, sending, p, at)
    /\ fresh => Len(buffer) = at

WholeIsHeld ==
  receiver = "host" =>
    \A f \in whole : age[f] > 0 /\ f \notin ToSet(received) =>
      \E p \in 0 .. Len(buffer) : p + age[f] <= Len(buffer) /\ Placed(buffer, f, p, Len(Encoded(f)))

DueIsReached ==
  receiver = "host" =>
    \A f \in due : f \in ToSet(received) \/ age[f] = MaxFrameSize \/ Placed(buffer, f, 0, Len(Encoded(f)))

NanoFollows ==
  receiver = "nano" => due \subseteq ToSet(received) /\ (fresh => parser = Following(sending, at))

Tracking == HistoryOK /\ SendingIsHeld /\ WholeIsHeld /\ DueIsReached /\ NanoFollows

LEMMA FrameSize ==
  ASSUME NEW f \in Frames
  PROVE  /\ Len(Payloads[f]) \in 0 .. MaxPayload /\ MaxPayload \in Nat
         /\ Len(Encoded(f)) = 6 + Len(Payloads[f]) /\ Len(Encoded(f)) \in Nat
         /\ MaxFrameSize = 6 + MaxPayload /\ MaxFrameSize \in Nat
         /\ Len(Encoded(f)) >= 6 /\ Len(Encoded(f)) <= MaxFrameSize
<1>1. Len(Payloads[f]) \in 0 .. MaxPayload /\ MaxPayload \in Nat
  BY FramesType, PayloadBound
<1>2. Len(Encoded(f)) = 6 + Len(Payloads[f])
  BY EncodedBytes
<1>3. MaxFrameSize = 6 + MaxPayload
  BY <1>1 DEF MaxFrameSize, HeaderSize
<1>4. QED
  BY <1>1, <1>2, <1>3

LEMMA BodyHead ==
  ASSUME NEW f \in Frames
  PROVE  Body(f)[1] = Version /\ Body(f)[2] = Type /\ Body(f)[3] = Len(Payloads[f])
<1> DEFINE n    == Len(Payloads[f])
           head == <<Version, Type, n>>
           p    == Payloads[f]
<1>1. p \in Seq(Bytes) /\ n \in 0 .. MaxPayload /\ MaxPayload \in Nat
  BY FramesType, PayloadBound
<1>2. Version \in Nat /\ Type \in Nat /\ n \in Nat
  BY <1>1 DEF Version, Type
<1> HIDE DEF n
<1>3. head \in Seq(Nat)
  BY <1>2
<1>4. Len(head) = 3 /\ head[1] = Version /\ head[2] = Type /\ head[3] = n
  OBVIOUS
<1> HIDE DEF head, p
<1>5. p \in Seq(Nat)
  BY <1>1, BytesAreNaturals, WiderSeq
<1>6. 1 \in 1 .. Len(head) /\ 2 \in 1 .. Len(head) /\ 3 \in 1 .. Len(head)
  BY <1>4
<1>7. \A i \in 1 .. Len(head) : (head \o p)[i] = head[i]
  BY <1>3, <1>5, JoinedFirst
<1>8. QED
  BY <1>4, <1>6, <1>7 DEF Body, head, p, n

LEMMA EncodedItems ==
  ASSUME NEW f \in Frames
  PROVE  /\ Encoded(f) \in Seq(Nat)
         /\ Encoded(f)[1] = Magic1 /\ Encoded(f)[2] = Magic2
         /\ \A i \in 1 .. 3 + Len(Payloads[f]) : Encoded(f)[i + 2] = Body(f)[i]
<1> DEFINE magic == <<Magic1, Magic2>>
           b == Body(f)
           c == <<Checksum(f)>>
           n == Len(Payloads[f])
<1>1. Magic1 \in Nat /\ Magic2 \in Nat /\ Checksum(f) \in Nat
  BY FramesType DEF Magic1, Magic2, Checksum
<1>2. magic \in Seq(Nat) /\ Len(magic) = 2 /\ magic[1] = Magic1 /\ magic[2] = Magic2
  BY <1>1
<1>3. c \in Seq(Nat) /\ Len(c) = 1
  BY <1>1
<1>4. b \in Seq(Nat) /\ Len(b) = 3 + n /\ n \in Nat
  <2>1. b \in Seq(Bytes) /\ Len(b) = 3 + n
    BY BodyBytes
  <2>2. b \in Seq(Nat)
    BY <2>1, BytesAreNaturals, WiderSeq
  <2>3. QED
    BY <2>1, <2>2, FrameSize
<1> HIDE DEF magic, b, c, n
<1> DEFINE d == magic \o b
<1>5. d \in Seq(Nat)
  BY <1>2, <1>4, ConcatProperties
<1>6. Len(d) = 5 + n
  <2>1. Len(d) = Len(magic) + Len(b)
    BY <1>2, <1>4, JoinedLength
  <2> HIDE DEF d
  <2>2. QED
    BY <1>2, <1>4, <2>1
<1>7. \A i \in 1 .. Len(magic) : d[i] = magic[i]
  BY <1>2, <1>4, JoinedFirst
<1>8. ASSUME NEW i \in 1 .. 3 + n PROVE d[i + 2] = b[i]
  <2>1. i + 2 = Len(magic) + i /\ i \in 1 .. Len(b)
    BY <1>2, <1>4
  <2>2. magic \in Seq(Nat) /\ b \in Seq(Nat)
    BY <1>2, <1>4
  <2> HIDE DEF d
  <2>3. (magic \o b)[i + 2] = b[i]
    BY <2>1, <2>2, JoinedSecond
  <2>4. QED
    BY <2>3 DEF d
<1> HIDE DEF d
<1>9. \A i \in 1 .. Len(d) : (d \o c)[i] = d[i]
  BY <1>3, <1>5, JoinedFirst
<1>10. 1 \in 1 .. Len(magic) /\ 2 \in 1 .. Len(magic) /\ 1 \in 1 .. Len(d) /\ 2 \in 1 .. Len(d)
  BY <1>2, <1>4, <1>6
<1>11. (d \o c)[1] = Magic1 /\ (d \o c)[2] = Magic2
  BY <1>2, <1>7, <1>9, <1>10
<1>12. ASSUME NEW i \in 1 .. 3 + n PROVE (d \o c)[i + 2] = b[i]
  <2>1. i + 2 \in 1 .. Len(d)
    BY <1>4, <1>6
  <2>2. QED
    BY <1>8, <1>9, <2>1
<1>13. d \o c \in Seq(Nat)
  BY <1>3, <1>5, ConcatProperties
<1>14. Encoded(f) = d \o c
  BY DEF Encoded, d, magic, b, c
<1>15. QED
  BY <1>11, <1>12, <1>13, <1>14 DEF n, b

(* The places of what is held, after the first bytes are dropped and after one more came. *)
LEMMA PlacedLater ==
  ASSUME NEW f, NEW p, NEW c \in Nat, NEW m \in Nat, Placed(buffer, f, p, c), m <= p,
         buffer \in Seq(Nat), buffer' \in Seq(Nat), Len(buffer') = Len(buffer) - m,
         \A i \in 1 .. Len(buffer') : buffer'[i] = buffer[i + m]
  PROVE  Placed(buffer', f, p - m, c)
<1>1. p \in Nat /\ p + c <= Len(buffer) /\ Len(buffer) \in Nat /\ \A i \in 1 .. c : buffer[p + i] = Encoded(f)[i]
  BY DEF Placed
<1>2. p - m \in Nat /\ (p - m) + c <= Len(buffer')
  BY <1>1
<1>3. ASSUME NEW i \in 1 .. c PROVE buffer'[(p - m) + i] = Encoded(f)[i]
  <2>1. (p - m) + i \in 1 .. Len(buffer') /\ ((p - m) + i) + m = p + i
    <3> DEFINE n == Len(buffer')
    <3>1. p \in Nat /\ n \in Nat /\ (p - m) + c <= n /\ i \in Nat /\ i >= 1 /\ i <= c
      BY <1>1, <1>2
    <3> HIDE DEF n
    <3>2. (p - m) + i \in 1 .. n
      BY <3>1
    <3>3. ((p - m) + i) + m = p + i
      BY <3>1
    <3>4. QED
      BY <3>2, <3>3 DEF n
  <2>2. QED
    BY <1>1, <2>1
<1>4. QED
  BY <1>2, <1>3 DEF Placed

LEMMA PlacedStill ==
  ASSUME NEW f, NEW p, NEW c \in Nat, NEW value \in Nat, Placed(buffer, f, p, c),
         buffer \in Seq(Nat), buffer' = Append(buffer, value)
  PROVE  /\ Placed(buffer', f, p, c)
         /\ p + c = Len(buffer) /\ value = Encoded(f)[c + 1] => Placed(buffer', f, p, c + 1)
<1>1. p \in Nat /\ p + c <= Len(buffer) /\ Len(buffer) \in Nat /\ \A i \in 1 .. c : buffer[p + i] = Encoded(f)[i]
  BY DEF Placed
<1>2. /\ Len(buffer') = Len(buffer) + 1 /\ buffer'[Len(buffer) + 1] = value
      /\ \A i \in 1 .. Len(buffer) : buffer'[i] = buffer[i]
  BY AppendProperties
<1>3. ASSUME NEW i \in 1 .. c PROVE buffer'[p + i] = Encoded(f)[i]
  <2>1. p + i \in 1 .. Len(buffer)
    <3> DEFINE n == Len(buffer)
    <3>1. p \in Nat /\ n \in Nat /\ p + c <= n
      BY <1>1
    <3> HIDE DEF n
    <3>2. p + i \in 1 .. n
      BY <3>1
    <3>3. QED
      BY <3>2 DEF n
  <2>2. buffer'[p + i] = buffer[p + i]
    BY <1>2, <2>1
  <2>3. QED
    BY <1>1, <2>2
<1>4. Placed(buffer', f, p, c)
  BY <1>1, <1>2, <1>3 DEF Placed
<1>5. ASSUME p + c = Len(buffer), value = Encoded(f)[c + 1] PROVE Placed(buffer', f, p, c + 1)
  <2>1. p + (c + 1) <= Len(buffer')
    BY <1>1, <1>2, <1>5
  <2>2. buffer'[p + (c + 1)] = Encoded(f)[c + 1]
    <3> DEFINE n == Len(buffer)
    <3>1. p \in Nat /\ c \in Nat /\ n \in Nat /\ p + c = n
      BY <1>1, <1>5
    <3> HIDE DEF n
    <3>2. p + (c + 1) = n + 1
      BY <3>1
    <3>3. QED
      BY <1>2, <1>5, <3>2 DEF n
  <2>3. \A i \in 1 .. c + 1 : i \in 1 .. c \/ i = c + 1
    OBVIOUS
  <2>4. \A i \in 1 .. c + 1 : buffer'[p + i] = Encoded(f)[i]
    BY <1>3, <2>2, <2>3
  <2>5. QED
    BY <1>1, <2>1, <2>4 DEF Placed
<1>6. QED
  BY <1>4, <1>5

(* A frame at the front has its header, and when it is complete it is found. *)
LEMMA FrontHeader ==
  ASSUME NEW f \in Frames, NEW c \in Nat, Placed(buffer, f, 0, c), c >= 5
  PROVE  HasHeader(buffer) /\ Size(buffer) = Len(Encoded(f))
<1>1. \A i \in 1 .. c : buffer[i] = Encoded(f)[i]
  BY DEF Placed
<1>2. 1 \in 1 .. c /\ 2 \in 1 .. c /\ 3 \in 1 .. c /\ 5 \in 1 .. c
  OBVIOUS
<1> DEFINE n == Len(Payloads[f])
<1>3. n \in Nat /\ n <= MaxPayload /\ Len(Encoded(f)) = 6 + n
  BY FrameSize
<1>4. Encoded(f)[3] = Version /\ Encoded(f)[5] = n
  <2>1. 1 \in 1 .. 3 + n /\ 3 \in 1 .. 3 + n
    BY <1>3
  <2>2. Encoded(f)[1 + 2] = Body(f)[1] /\ Encoded(f)[3 + 2] = Body(f)[3]
    BY <2>1, EncodedItems
  <2>3. QED
    BY <2>2, BodyHead
<1>5. Encoded(f)[1] = Magic1 /\ Encoded(f)[2] = Magic2
  BY EncodedItems
<1> HIDE DEF n
<1>6. buffer[1] = Magic1 /\ buffer[2] = Magic2 /\ buffer[3] = Version /\ buffer[5] = n
  BY <1>1, <1>2, <1>4, <1>5
<1>7. QED
  BY <1>3, <1>6 DEF HasHeader, Size, HeaderSize

LEMMA FrontFound ==
  ASSUME NEW f \in Frames, Placed(buffer, f, 0, Len(Encoded(f))), buffer \in Seq(Nat)
  PROVE  Searching(buffer) /\ HoldsFrame(buffer) /\ FrameOf(Content(buffer)) = f
<1> DEFINE n == Len(Payloads[f])
<1>1. n \in Nat /\ Len(Encoded(f)) = 6 + n /\ Len(Encoded(f)) \in Nat
  BY FrameSize
<1>2. HasHeader(buffer) /\ Size(buffer) = 6 + n
  BY <1>1, FrontHeader
<1>3. Len(buffer) \in Nat /\ 6 + n <= Len(buffer) /\ \A i \in 1 .. 6 + n : buffer[i] = Encoded(f)[i]
  BY <1>1 DEF Placed
<1>4. Content(buffer) = Body(f)
  <2>1. Content(buffer) = SubSeq(buffer, 3, 5 + n)
    BY <1>1, <1>2 DEF Content
  <2>2. Body(f) \in Seq(Nat) /\ Len(Body(f)) = 3 + n
    BY BodyBytes, BytesAreNaturals, WiderSeq
  <2>3. \A i \in 3 .. 5 + n : buffer[i] \in Nat
    BY <1>1, <1>3, ElementOfSeq
  <2>4. /\ SubSeq(buffer, 3, 5 + n) \in Seq(Nat) /\ Len(SubSeq(buffer, 3, 5 + n)) = 3 + n
        /\ \A i \in 1 .. 3 + n : SubSeq(buffer, 3, 5 + n)[i] = buffer[3 + i - 1]
    BY <1>1, <2>3, SubSeqProperties
  <2>5. ASSUME NEW i \in 1 .. 3 + n PROVE SubSeq(buffer, 3, 5 + n)[i] = Body(f)[i]
    <3>1. 3 + i - 1 = i + 2 /\ i + 2 \in 1 .. 6 + n
      BY <1>1
    <3>2. buffer[i + 2] = Body(f)[i]
      BY <1>3, <3>1, EncodedItems
    <3>3. QED
      BY <2>4, <3>1, <3>2
  <2>6. SubSeq(buffer, 3, 5 + n) = Body(f)
    BY <2>2, <2>4, <2>5, SeqEqual
  <2>7. QED
    BY <2>1, <2>6
<1>5. buffer[6 + n] = Checksum(f)
  <2>1. 6 + n \in 1 .. 6 + n
    BY <1>1
  <2>2. QED
    BY <1>3, <2>1, EncodedBytes
<1>6. FrameOf(Content(buffer)) = f
  BY <1>4, FrameOfBody
<1>7. HoldsFrame(buffer)
  BY <1>2, <1>4, <1>5 DEF HoldsFrame, Checks
<1>8. Searching(buffer)
  BY <1>1, <1>2, <1>3 DEF Searching, HeaderSize
<1>9. QED
  BY <1>6, <1>7, <1>8

-----------------------------------------------------------------------------
(* The steps, for what the parsers have of undamaged frames. *)

LEMMA ToSetAppend ==
  ASSUME NEW S, NEW s \in Seq(S), NEW e \in S
  PROVE  ToSet(s) \subseteq ToSet(Append(s, e)) /\ e \in ToSet(Append(s, e))
<1> DEFINE t == Append(s, e)
<1>1. /\ t \in Seq(S) /\ Len(t) = Len(s) + 1 /\ t[Len(s) + 1] = e /\ Len(s) \in Nat
      /\ \A i \in 1 .. Len(s) : t[i] = s[i]
  BY AppendProperties
<1> HIDE DEF t
<1>2. DOMAIN t = 1 .. Len(t) /\ DOMAIN s = 1 .. Len(s)
  BY <1>1
<1>3. Len(s) + 1 \in DOMAIN t /\ \A i \in DOMAIN s : i \in DOMAIN t
  BY <1>1, <1>2
<1>4. ToSet(s) \subseteq ToSet(t) /\ e \in ToSet(t)
  BY <1>1, <1>2, <1>3 DEF ToSet
<1>5. QED
  BY <1>4 DEF t

LEMMA SendingType ==
  ASSUME SentOnce, at > 0
  PROVE  sending \in Frames /\ at < Len(Encoded(sending)) /\ at \in Nat
<1>1. sent \in Seq(Frames) /\ sent # <<>> /\ sending = sent[Len(sent)]
  BY DEF SentOnce
<1>2. Len(sent) \in 1 .. Len(sent)
  BY <1>1, EmptySeq
<1>3. QED
  BY <1>1, <1>2, ElementOfSeq DEF SentOnce

LEMMA AgedType ==
  ASSUME HistoryOK
  PROVE  /\ Aged \in [Frames -> 0 .. MaxFrameSize]
         /\ \A f \in Frames : /\ age[f] \in Nat /\ Aged[f] <= age[f] + 1
                              /\ (age[f] = 0 <=> Aged[f] = 0)
<1>1. age \in [Frames -> 0 .. MaxFrameSize]
  BY DEF HistoryOK
<1>2. MaxFrameSize \in Nat /\ MaxFrameSize >= 6
  BY PayloadBound DEF MaxFrameSize, HeaderSize
<1>3. ASSUME NEW f \in Frames
      PROVE  /\ Aged[f] \in 0 .. MaxFrameSize /\ age[f] \in Nat /\ Aged[f] <= age[f] + 1
             /\ (age[f] = 0 <=> Aged[f] = 0)
  <2>1. age[f] \in 0 .. MaxFrameSize
    BY <1>1
  <2>2. Aged[f] = IF age[f] \in {0, MaxFrameSize} THEN age[f] ELSE age[f] + 1
    BY DEF Aged
  <2>3. CASE age[f] \in {0, MaxFrameSize}
    BY <1>2, <2>1, <2>2, <2>3
  <2>4. CASE age[f] \notin {0, MaxFrameSize}
    <3>1. Aged[f] = age[f] + 1
      BY <2>2, <2>4
    <3>2. QED
      BY <1>2, <2>1, <2>4, <3>1
  <2>5. QED
    BY <2>3, <2>4
<1>4. Aged = [f \in Frames |-> Aged[f]]
  BY DEF Aged
<1>5. QED
  BY <1>3, <1>4

LEMMA StartsType ==
  ASSUME HistoryOK, NEW f \in Frames
  PROVE  /\ Starts(f) \in [Frames -> 0 .. MaxFrameSize]
         /\ \A g \in Frames : g # f \/ at # 0 => Starts(f)[g] = Aged[g]
         /\ at = 0 => Starts(f)[f] = 1
<1>1. Aged \in [Frames -> 0 .. MaxFrameSize]
  BY AgedType
<1>2. 1 \in 0 .. MaxFrameSize
  BY PayloadBound DEF MaxFrameSize, HeaderSize
<1>3. Starts(f) = [Aged EXCEPT ![f] = IF at = 0 THEN 1 ELSE Aged[f]]
  BY DEF Starts
<1>4. QED
  BY <1>1, <1>2, <1>3

(* Of the frames that came whole, one that begins is none. *)
LEMMA WholeWereSent ==
  ASSUME SentOnce, HistoryOK, NEW g \in whole
  PROVE  /\ g \in Frames /\ g \in ToSet(sent)
         /\ \A f \in Frames : IsNext(f) => g # f
<1>1. Finished \in Nat /\ Finished <= Len(sent) /\ Len(sent) \in Nat /\ sent \in Seq(Frames)
  BY FinishedType DEF SentOnce
<1>2. PICK k \in 1 .. Finished : g = sent[k]
  BY DEF HistoryOK
<1>3. k \in 1 .. Len(sent) /\ DOMAIN sent = 1 .. Len(sent)
  BY <1>1
<1>4. g \in Frames /\ g \in ToSet(sent)
  BY <1>1, <1>2, <1>3, ElementOfSeq DEF ToSet
<1>5. ASSUME NEW f \in Frames, IsNext(f) PROVE g # f
  <2>1. CASE at = 0
    BY <1>4, <1>5, <2>1 DEF IsNext
  <2>2. CASE at # 0
    <3>1. at > 0 /\ f = sending
      BY <1>5, <2>2 DEF IsNext, SentOnce
    <3>2. f = sent[Len(sent)] /\ Finished = Len(sent) - 1
      BY <3>1 DEF SentOnce, Finished
    <3>3. k # Len(sent) /\ Len(sent) \in 1 .. Len(sent)
      <4>1. k \in Nat /\ k >= 1 /\ k <= Len(sent) - 1
        BY <1>1, <3>2
      <4>2. QED
        BY <1>1, <4>1
    <3>4. QED
      BY <1>2, <1>3, <3>2, <3>3 DEF SentOnce
  <2>3. QED
    BY <2>1, <2>2
<1>6. QED
  BY <1>4, <1>5

LEMMA HistoryProgress ==
  ASSUME SentOnce, HistoryOK, NEW f \in Frames, NEW good \in BOOLEAN, IsNext(f), Progress(f, good),
         \/ quiet' = FALSE /\ age' = Starts(f)
         \/ good = FALSE /\ quiet' = quiet /\ age' = age
  PROVE  HistoryOK'
<1> DEFINE last == at + 1 = Len(Encoded(f))
<1>1. /\ quiet \in BOOLEAN /\ hurt \in BOOLEAN /\ fresh \in BOOLEAN
      /\ age \in [Frames -> 0 .. MaxFrameSize] /\ at \in Nat
      /\ (at = 0 => ~hurt /\ ~fresh)
      /\ (fresh => ~hurt /\ age[sending] > 0)
  BY DEF HistoryOK, SentOnce
<1>2. /\ sending' = (IF last THEN 0 ELSE f) /\ at' = (IF last THEN 0 ELSE at + 1)
      /\ hurt' = (~last /\ (hurt \/ ~good))
      /\ fresh' = (~last /\ good /\ IF at = 0 THEN quiet ELSE fresh)
      /\ whole' = whole \cup {g \in {f} : last /\ good /\ ~hurt}
      /\ due' = due \cup {g \in {f} : last /\ good /\ fresh} \cup {g \in whole' : Expected(g)}
  BY DEF Progress
<1>3. at # 0 => f = sending
  BY DEF IsNext
<1> HIDE DEF last
<1>4. quiet' \in BOOLEAN /\ hurt' \in BOOLEAN /\ fresh' \in BOOLEAN
  BY <1>1, <1>2
<1>5. age' \in [Frames -> 0 .. MaxFrameSize]
  BY <1>1, StartsType
<1>6. at' = 0 => ~hurt' /\ ~fresh'
  <2>1. at' = 0 => last
    BY <1>1, <1>2
  <2>2. QED
    BY <1>2, <2>1
<1>7. ASSUME fresh' PROVE ~hurt' /\ age'[sending'] > 0
  <2>1. ~last /\ good /\ (IF at = 0 THEN quiet ELSE fresh)
    BY <1>2, <1>7
  <2>2. sending' = f /\ age' = Starts(f)
    BY <1>2, <2>1
  <2>3. ~hurt
    BY <1>1, <2>1
  <2>4. ~hurt'
    BY <1>2, <2>1, <2>3
  <2>5. CASE at = 0
    BY <2>2, <2>4, <2>5, StartsType
  <2>6. CASE at # 0
    <3>1. age[f] > 0 /\ age'[f] = Aged[f]
      BY <1>1, <1>3, <2>1, <2>2, <2>6, StartsType
    <3>2. Aged[f] # 0 /\ Aged[f] \in Nat
      BY <3>1, AgedType
    <3>3. QED
      BY <2>2, <2>4, <3>1, <3>2
  <2>7. QED
    BY <2>5, <2>6
<1>8. quiet' => \A g \in Frames : age'[g] = 0
  BY DEF HistoryOK
<1>9. ASSUME at' > 0, ~hurt' PROVE age'[sending'] <= at'
  <2>1. ~last
    BY <1>2, <1>9
  <2>2. good /\ ~hurt /\ sending' = f /\ at' = at + 1
    BY <1>2, <1>9, <2>1
  <2>3. age' = Starts(f)
    BY <2>2
  <2>4. CASE at = 0
    BY <2>2, <2>3, <2>4, StartsType
  <2>5. CASE at # 0
    <3>1. at > 0 /\ sending = f
      BY <1>1, <1>3, <2>5
    <3>2. age[f] <= at
      BY <2>2, <3>1 DEF HistoryOK
    <3>3. age'[f] = Aged[f] /\ Aged[f] <= age[f] + 1 /\ age[f] \in Nat /\ Aged[f] \in Nat
      BY <2>3, <2>5, StartsType, AgedType
    <3>4. QED
      BY <1>1, <2>2, <3>2, <3>3
  <2>6. QED
    BY <2>4, <2>5
<1>10. ASSUME NEW g \in whole' PROVE \E k \in 1 .. Finished' : g = sent'[k]
  <2>1. /\ Finished \in Nat /\ Finished' \in Nat /\ Finished <= Finished'
        /\ \A k \in 1 .. Finished : sent'[k] = sent[k]
        /\ last => Finished' = Finished + 1 /\ sent'[Finished + 1] = f
    BY LineProgress DEF last
  <2>2. CASE g \in whole
    <3>1. PICK k \in 1 .. Finished : g = sent[k]
      BY <2>2 DEF HistoryOK
    <3>2. k \in 1 .. Finished'
      BY <2>1
    <3>3. QED
      BY <2>1, <3>1, <3>2
  <2>3. CASE g \notin whole
    <3>1. g = f /\ last
      BY <1>2, <2>3
    <3>2. Finished + 1 \in 1 .. Finished'
      BY <2>1, <3>1
    <3>3. QED
      BY <2>1, <3>1, <3>2
  <2>4. QED
    BY <2>2, <2>3
<1>11. due' \subseteq whole'
  <2>1. due \subseteq whole
    BY DEF HistoryOK
  <2>2. last /\ good /\ fresh => f \in whole'
    BY <1>1, <1>2
  <2>3. QED
    BY <1>2, <2>1, <2>2
<1>12. QED
  BY <1>4, <1>5, <1>6, <1>7, <1>8, <1>9, <1>10, <1>11 DEF HistoryOK

(* When the search waits for more bytes, nothing that is due is outstanding. *)
LEMMA Settled ==
  ASSUME FramingInv, Tracking
  PROVE  Resynchronised
<1> SUFFICES ASSUME ~Searching(buffer), NEW f \in due PROVE f \in ToSet(received)
  BY DEF Resynchronised
<1>1. /\ receiver \in {"nano", "host"} /\ buffer \in Seq(Nat) /\ Len(buffer) \in Nat
      /\ SentOnce /\ HistoryOK
  BY DEF FramingInv, LineTypeOK, Tracking
<1>2. CASE receiver = "nano"
  BY <1>2 DEF Tracking, NanoFollows
<1>3. CASE receiver = "host"
  <2> SUFFICES ASSUME f \notin ToSet(received) PROVE FALSE
    OBVIOUS
  <2>1. f \in whole
    BY <1>1 DEF HistoryOK
  <2>2. f \in Frames
    BY <1>1, <2>1, WholeWereSent
  <2>3. ~Placed(buffer, f, 0, Len(Encoded(f)))
    BY <1>1, <2>2, FrontFound
  <2>4. age[f] = MaxFrameSize
    BY <1>3, <2>3 DEF Tracking, DueIsReached
  <2>5. MaxFrameSize = 6 + MaxPayload /\ MaxPayload \in Nat
    BY <2>2, FrameSize
  <2>6. age[f] > 0
    BY <2>4, <2>5
  <2>7. PICK p \in 0 .. Len(buffer) : p + age[f] <= Len(buffer)
    BY <1>3, <2>1, <2>6 DEF Tracking, WholeIsHeld
  <2>8. Len(buffer) >= 6 + MaxPayload
    BY <1>1, <2>4, <2>5, <2>7
  <2>9. HasHeader(buffer) /\ Len(buffer) < Size(buffer)
    <3>1. Len(buffer) >= 5
      BY <1>1, <2>5, <2>8
    <3>2. HasHeader(buffer) /\ ~(Len(buffer) >= Size(buffer))
      BY <3>1 DEF Searching, HeaderSize
    <3>3. buffer[5] \in Nat
      <4>1. 5 \in 1 .. Len(buffer)
        BY <1>1, <3>1
      <4>2. QED
        BY <1>1, <4>1, ElementOfSeq
    <3>4. Size(buffer) \in Nat
      BY <3>3 DEF Size, HeaderSize
    <3>5. QED
      BY <1>1, <3>2, <3>4
  <2>10. buffer[5] \in Nat /\ buffer[5] <= MaxPayload
    <3>1. 5 \in 1 .. Len(buffer)
      BY <1>1, <2>5, <2>8
    <3>2. buffer[5] \in Nat
      BY <1>1, <3>1, ElementOfSeq
    <3>3. QED
      BY <2>9, <3>2 DEF HasHeader, HeaderSize
  <2>11. Size(buffer) <= 6 + MaxPayload /\ Size(buffer) \in Nat
    BY <2>5, <2>10 DEF Size, HeaderSize
  <2>12. QED
    BY <1>1, <2>5, <2>8, <2>9, <2>11
<1>4. QED
  BY <1>1, <1>2, <1>3

(* A byte reaches the daemon's buffer: whole frames stay in it. *)
LEMMA WholeStays ==
  ASSUME FramingInv, HistoryOK, WholeIsHeld, receiver = "host", NEW value \in Nat, Arrive(value),
         NEW f \in whole, age'[f] > 0, f \notin ToSet(received'),
         age'[f] = Aged[f]
  PROVE  \E p \in 0 .. Len(buffer') :
           p + age'[f] <= Len(buffer') /\ Placed(buffer', f, p, Len(Encoded(f)))
<1>1. buffer \in Seq(Nat) /\ Len(buffer) \in Nat /\ SentOnce
  BY DEF FramingInv, LineTypeOK
<1>2. f \in Frames
  BY <1>1, WholeWereSent
<1>3. age[f] \in Nat /\ Aged[f] <= age[f] + 1 /\ age[f] # 0 /\ Aged[f] \in Nat
  <2>1. age[f] \in Nat /\ Aged[f] <= age[f] + 1 /\ (age[f] = 0 <=> Aged[f] = 0)
    BY <1>2, AgedType
  <2>2. Aged[f] \in 0 .. MaxFrameSize
    BY <1>2, AgedType
  <2>3. QED
    BY <2>1, <2>2
<1>4. ~quiet
  BY <1>2, <1>3 DEF HistoryOK
<1>5. buffer' = Append(buffer, value) /\ received' = received
  BY <1>4 DEF Arrive, KeptBytes
<1>6. age[f] > 0
  BY <1>3
<1>7. PICK p \in 0 .. Len(buffer) : p + age[f] <= Len(buffer) /\ Placed(buffer, f, p, Len(Encoded(f)))
  BY <1>5, <1>6 DEF WholeIsHeld
<1>8. Placed(buffer', f, p, Len(Encoded(f)))
  BY <1>1, <1>2, <1>5, <1>7, FrameSize, PlacedStill
<1>9. Len(buffer') = Len(buffer) + 1
  BY <1>1, <1>5, AppendProperties
<1>10. p \in 0 .. Len(buffer') /\ p + age'[f] <= Len(buffer')
  BY <1>1, <1>3, <1>7, <1>9
<1>11. QED
  BY <1>8, <1>10

(* The byte of an undamaged frame: what is held of it is one byte more. *)
LEMMA SendingGrows ==
  ASSUME FramingInv, HistoryOK, SendingIsHeld, receiver = "host", NEW f \in Frames, IsNext(f),
         Arrive(Encoded(f)[at + 1]), at + 1 \in 1 .. Len(Encoded(f)), ~hurt,
         at > 0 => age[f] > 0
  PROVE  /\ \E p \in 0 .. Len(buffer') : Len(buffer') = p + (at + 1) /\ Placed(buffer', f, p, at + 1)
         /\ (IF at = 0 THEN quiet ELSE fresh) => Len(buffer') = at + 1
<1> DEFINE value == Encoded(f)[at + 1]
<1>1. buffer \in Seq(Nat) /\ Len(buffer) \in Nat /\ SentOnce /\ at \in Nat
  BY DEF FramingInv, LineTypeOK, SentOnce
<1>2. value \in Nat
  BY EncodedItems, ElementOfSeq
<1> HIDE DEF value
<1>3. Arrive(value)
  BY DEF value
<1>4. CASE at = 0
  <2> DEFINE b == KeptBytes(buffer)
  <2>1. buffer' = Append(b, value)
    BY <1>3 DEF Arrive
  <2>2. b \in Seq(Nat) /\ (quiet => b = <<>>)
    BY <1>1 DEF KeptBytes
  <2> HIDE DEF b
  <2>3. Len(b) \in Nat /\ Len(buffer') = Len(b) + 1 /\ buffer'[Len(b) + 1] = value
    BY <1>2, <2>1, <2>2, AppendProperties
  <2>4. value = Encoded(f)[1] /\ at + 1 = 1
    BY <1>4 DEF value
  <2>5. Placed(buffer', f, Len(b), 1)
    <3>1. \A i \in 1 .. 1 : i = 1
      OBVIOUS
    <3>2. QED
      BY <2>3, <2>4, <3>1 DEF Placed
  <2>6. quiet => Len(buffer') = 1
    BY <2>2, <2>3
  <2>7. Len(b) \in 0 .. Len(buffer') /\ Len(buffer') = Len(b) + (at + 1)
    BY <2>3, <2>4
  <2>8. QED
    BY <1>4, <2>4, <2>5, <2>6, <2>7
<1>5. CASE at # 0
  <2>1. at > 0 /\ f = sending
    BY <1>1, <1>5 DEF IsNext
  <2>2. age[f] > 0
    BY <2>1
  <2>3. ~quiet
    BY <2>2 DEF HistoryOK
  <2>4. buffer' = Append(buffer, value)
    BY <1>3, <2>3 DEF Arrive, KeptBytes
  <2>5. PICK p \in 0 .. Len(buffer) : Len(buffer) = p + at /\ Placed(buffer, f, p, at)
    BY <2>1, <2>2 DEF SendingIsHeld
  <2>6. fresh => Len(buffer) = at
    BY <2>1, <2>2 DEF SendingIsHeld
  <2>7. Placed(buffer', f, p, at + 1)
    BY <1>1, <1>2, <2>4, <2>5, PlacedStill DEF value
  <2>8. Len(buffer') = Len(buffer) + 1
    BY <1>1, <1>2, <2>4, AppendProperties
  <2>9. p \in 0 .. Len(buffer') /\ Len(buffer') = p + (at + 1)
    BY <1>1, <2>5, <2>8
  <2>10. fresh => Len(buffer') = at + 1
    BY <2>6, <2>8
  <2>11. QED
    BY <1>5, <2>7, <2>9, <2>10
<1>6. QED
  BY <1>4, <1>5

(* The Nano's parser follows a frame to its last byte, and then delivers it. *)
LEMMA FollowsFirst ==
  ASSUME NEW f \in Frames
  PROVE  Polled(Reset, Encoded(f)[1]) = Following(f, 1)
<1>1. Encoded(f)[1] = Magic1
  BY EncodedItems
<1>2. Polled(Reset, Magic1) = [Reset EXCEPT !.state = "Magic2"]
  BY DEF Polled, Reset
<1>3. SubSeq(Body(f), 1, 1 - 2) = <<>>
  BY SubSeqEmpty
<1>4. Following(f, 1) = [state |-> "Magic2", body |-> <<>>, delivered |-> <<>>]
  BY <1>3 DEF Following
<1>5. QED
  BY <1>1, <1>2, <1>4 DEF Reset

LEMMA FollowsBody ==
  ASSUME NEW f \in Frames, NEW c \in 2 .. Len(Encoded(f)) - 2
  PROVE  /\ Append(SubSeq(Body(f), 1, c - 2), Encoded(f)[c + 1]) = SubSeq(Body(f), 1, (c + 1) - 2)
         /\ Encoded(f)[c + 1] = Body(f)[c - 1]
<1> DEFINE b == Body(f)
           n == Len(Payloads[f])
<1>1. n \in Nat /\ Len(Encoded(f)) = 6 + n
  BY FrameSize
<1>2. b \in Seq(Nat) /\ Len(b) = 3 + n
  BY BodyBytes, BytesAreNaturals, WiderSeq
<1>3. c - 1 \in 1 .. 3 + n /\ (c - 1) + 2 = c + 1 /\ (c + 1) - 2 = c - 1 /\ c \in Nat
  BY <1>1
<1>4. Encoded(f)[c + 1] = b[c - 1]
  BY <1>3, EncodedItems
<1> HIDE DEF b, n
<1> DEFINE m == c - 1
<1>5. m \in 1 .. Len(b) /\ c - 2 = m - 1
  BY <1>2, <1>3
<1> HIDE DEF m
<1>6. \A i \in 1 .. m - 1 : b[i] \in Nat
  BY <1>2, <1>5, ElementOfSeq
<1>7. SubSeq(b, 1, m) = SubSeq(b, 1, m - 1) \o <<b[m]>>
  BY <1>2, <1>5, SubSeqRecursiveSecond
<1>8. SubSeq(b, 1, m - 1) \in Seq(Nat) /\ b[m] \in Nat
  <2>1. m - 1 \in Int /\ 1 \in Int
    BY <1>5
  <2>2. QED
    BY <1>2, <1>5, <1>6, <2>1, SubSeqProperties, ElementOfSeq
<1>9. Append(SubSeq(b, 1, m - 1), b[m]) = SubSeq(b, 1, m)
  BY <1>7, <1>8, AppendIsConcat
<1>10. QED
  BY <1>3, <1>4, <1>5, <1>9 DEF b, m

LEMMA FollowsNext ==
  ASSUME NEW f \in Frames, NEW c \in 1 .. Len(Encoded(f)) - 2
  PROVE  Polled(Following(f, c), Encoded(f)[c + 1]) = Following(f, c + 1)
<1> DEFINE b == Body(f)
           n == Len(Payloads[f])
           v == Encoded(f)[c + 1]
           p == Following(f, c)
<1>1. n \in Nat /\ n <= MaxPayload /\ MaxPayload \in Nat /\ Len(Encoded(f)) = 6 + n
  BY FrameSize
<1>2. c \in Nat /\ c >= 1 /\ c <= 4 + n
  BY <1>1
<1>3. b \in Seq(Nat) /\ Len(b) = 3 + n /\ b[1] = Version /\ b[2] = Type /\ b[3] = n
  BY BodyBytes, BytesAreNaturals, WiderSeq, BodyHead
<1>4. p.delivered = <<>> /\ p.body = SubSeq(b, 1, c - 2)
  BY DEF Following
<1>5. CASE c = 1
  <2>1. v = Magic2
    BY <1>5, EncodedItems
  <2>2. SubSeq(b, 1, 1 - 2) = <<>> /\ SubSeq(b, 1, 2 - 2) = <<>>
    BY SubSeqEmpty
  <2>3. p = [state |-> "Magic2", body |-> <<>>, delivered |-> <<>>]
    BY <1>5, <2>2 DEF Following
  <2>4. Following(f, 2) = [state |-> "Version", body |-> <<>>, delivered |-> <<>>]
    BY <2>2 DEF Following
  <2> HIDE DEF p, v
  <2>5. Polled(p, v) = [p EXCEPT !.state = "Version"]
    BY <2>1, <2>3 DEF Polled, Magic1, Magic2
  <2>6. Polled(p, v) = Following(f, 2)
    BY <2>3, <2>4, <2>5
  <2>7. QED
    BY <1>5, <2>6 DEF p, v
<1>6. CASE c >= 2
  <2>1. v = b[c - 1] /\ Append(SubSeq(b, 1, c - 2), v) = SubSeq(b, 1, (c + 1) - 2)
    <3>1. c \in 2 .. Len(Encoded(f)) - 2
      BY <1>1, <1>2, <1>6
    <3>2. QED
      BY <3>1, FollowsBody
  <2>2. Collected(p, v) = [p EXCEPT !.body = Append(p.body, v)]
    BY DEF Collected
  <2> DEFINE q(s) == [state |-> s, body |-> SubSeq(b, 1, (c + 1) - 2), delivered |-> <<>>]
  <2>3. \A s \in ParserStates : [Collected(p, v) EXCEPT !.state = s] = q(s)
    <3>1. p = [state |-> p.state, body |-> SubSeq(b, 1, c - 2), delivered |-> <<>>]
      BY DEF Following
    <3> DEFINE t == p.state
               b1 == SubSeq(b, 1, c - 2)
               b2 == SubSeq(b, 1, (c + 1) - 2)
    <3>2. p = [state |-> t, body |-> b1, delivered |-> <<>>] /\ Append(b1, v) = b2
      BY <2>1, <3>1
    <3> HIDE DEF p, v, t, b1, b2
    <3>3. Collected(p, v) = [state |-> t, body |-> b2, delivered |-> <<>>]
      BY <2>2, <3>2
    <3>4. \A s \in ParserStates : [Collected(p, v) EXCEPT !.state = s] = [state |-> s, body |-> b2, delivered |-> <<>>]
      BY <3>3
    <3>5. QED
      BY <3>4 DEF b2
  <2>4. CASE c = 2
    <3>1. p.state = "Version" /\ v = Version
      BY <1>3, <2>1, <2>4 DEF Following
    <3>2. Following(f, c + 1) = q("Type")
      BY <2>4 DEF Following
    <3> HIDE DEF p, v, q
    <3>3. Polled(p, v) = [Collected(p, v) EXCEPT !.state = "Type"]
      BY <3>1 DEF Polled
    <3>4. QED
      BY <2>3, <3>2, <3>3 DEF p, v, ParserStates
  <2>5. CASE c = 3
    <3>1. p.state = "Type"
      BY <2>5 DEF Following
    <3>2. Following(f, c + 1) = q("Length")
      BY <2>5 DEF Following
    <3> HIDE DEF p, v, q
    <3>3. Polled(p, v) = [Collected(p, v) EXCEPT !.state = "Length"]
      BY <3>1 DEF Polled
    <3>4. QED
      BY <2>3, <3>2, <3>3 DEF p, v, ParserStates
  <2>6. CASE c = 4
    <3>1. p.state = "Length" /\ v = n
      BY <1>3, <2>1, <2>6 DEF Following
    <3>2. c + 1 = Len(Encoded(f)) - 1 <=> n = 0
      BY <1>1, <2>6
    <3>3. Following(f, c + 1) = q(IF n = 0 THEN "Crc" ELSE "Payload")
      <4>1. ~(c + 1 <= 4)
        BY <2>6
      <4>2. QED
        BY <3>2, <4>1 DEF Following
    <3> HIDE DEF p, v, q, n
    <3>4. Polled(p, v) = [Collected(p, v) EXCEPT !.state = IF n = 0 THEN "Crc" ELSE "Payload"]
      BY <1>1, <3>1 DEF Polled
    <3>5. QED
      BY <2>3, <3>3, <3>4 DEF p, v, ParserStates
  <2>7. CASE c >= 5
    <3>1. p.state = "Payload"
      <4>1. ~(c <= 4) /\ c # Len(Encoded(f)) - 1
        BY <1>1, <1>2, <2>7
      <4>2. QED
        BY <4>1 DEF Following
    <3>2. c + 1 = Len(Encoded(f)) - 1 <=> c = 4 + n
      BY <1>1, <1>2
    <3>3. Following(f, c + 1) = q(IF c = 4 + n THEN "Crc" ELSE "Payload")
      <4>1. ~(c + 1 <= 4)
        BY <1>2, <2>7
      <4>2. QED
        BY <3>2, <4>1 DEF Following
    <3>4. Len(p.body) = c - 2 /\ p.body[3] = n
      <4>1. c - 2 \in 3 .. Len(b) /\ 1 \in Int /\ c - 2 \in Int
        BY <1>2, <1>3, <2>7
      <4>2. \A i \in 1 .. c - 2 : b[i] \in Nat
        <5>1. \A i \in 1 .. c - 2 : i \in 1 .. Len(b)
          BY <1>3, <4>1
        <5>2. b \in Seq(Nat)
          BY <1>3
        <5> HIDE DEF b
        <5>3. QED
          BY <5>1, <5>2, ElementOfSeq
      <4>3. /\ Len(SubSeq(b, 1, c - 2)) = (IF 1 <= c - 2 THEN (c - 2) - 1 + 1 ELSE 0)
            /\ \A i \in 1 .. (c - 2) - 1 + 1 : SubSeq(b, 1, c - 2)[i] = b[1 + i - 1]
        BY <4>1, <4>2, SubSeqProperties
      <4>4. 3 \in 1 .. (c - 2) - 1 + 1 /\ 1 + 3 - 1 = 3 /\ (c - 2) - 1 + 1 = c - 2 /\ 1 <= c - 2
        BY <1>2, <2>7
      <4>5. SubSeq(b, 1, c - 2)[3] = b[3]
        BY <4>3, <4>4
      <4>6. QED
        BY <1>3, <1>4, <4>3, <4>4, <4>5
    <3>5. Len(p.body) + 1 = HeaderSize - 2 + PayloadLength(p.body) <=> c = 4 + n
      BY <1>1, <1>2, <3>4 DEF HeaderSize, PayloadLength
    <3> HIDE DEF p, v, q, n
    <3>6. Polled(p, v) = [Collected(p, v) EXCEPT !.state = IF c = 4 + n THEN "Crc" ELSE "Payload"]
      BY <3>1, <3>5 DEF Polled
    <3>7. QED
      BY <2>3, <3>3, <3>6 DEF p, v, ParserStates
  <2>8. QED
    BY <1>2, <1>6, <2>4, <2>5, <2>6, <2>7
<1>7. QED
  BY <1>2, <1>5, <1>6

LEMMA FollowsLast ==
  ASSUME NEW f \in Frames
  PROVE  LET c == Len(Encoded(f)) - 1
         IN  Polled(Following(f, c), Encoded(f)[c + 1]).delivered = <<f>>
<1> DEFINE n == Len(Payloads[f])
           c == Len(Encoded(f)) - 1
           p == Following(f, c)
           v == Encoded(f)[c + 1]
<1>1. n \in Nat /\ Len(Encoded(f)) = 6 + n /\ c = 5 + n /\ c + 1 = 6 + n
  BY FrameSize
<1>2. v = Checksum(f)
  BY <1>1, EncodedBytes
<1>3. Body(f) \in Seq(Nat) /\ Len(Body(f)) = 3 + n
  BY BodyBytes, BytesAreNaturals, WiderSeq
<1>4. p.state = "Crc"
  <2>1. ~(c <= 4)
    BY <1>1
  <2>2. QED
    BY <2>1 DEF Following
<1>5. p.body = Body(f)
  <2>1. p.body = SubSeq(Body(f), 1, c - 2)
    BY DEF Following
  <2>2. c - 2 = Len(Body(f))
    BY <1>1, <1>3
  <2>3. QED
    BY <1>3, <2>1, <2>2, SubSeqFull
<1> HIDE DEF p, v, n
<1>6. Checks(p.body, v) /\ FrameOf(p.body) = f
  BY <1>2, <1>5, FrameOfBody DEF Checks
<1>7. Polled(p, v) = [Reset EXCEPT !.delivered = <<f>>]
  BY <1>4, <1>6 DEF Polled
<1>8. Polled(p, v).delivered = <<f>>
  BY <1>7 DEF Reset
<1>9. QED
  BY <1>8 DEF p, v

(* What was received stays received. *)
LEMMA ReceivedGrows ==
  ASSUME FramingInv, NEW value \in Nat, Arrive(value)
  PROVE  ToSet(received) \subseteq ToSet(received')
<1>1. received \in Seq(Frames) /\ receiver \in {"nano", "host"} /\ ParserTypeOK
  BY DEF FramingInv, LineTypeOK
<1>2. CASE receiver = "nano"
  <2> DEFINE p == Polled(TimedOut(parser), value)
  <2>1. received' = received \o p.delivered
    BY <1>2 DEF Arrive
  <2>2. p.delivered = <<>> \/ \E f \in Frames : p.delivered = <<f>>
    BY <1>1, PolledTypes
  <2> HIDE DEF p
  <2>3. CASE p.delivered = <<>>
    BY <1>1, <2>1, <2>3, ConcatEmptySeq
  <2>4. ASSUME NEW f \in Frames, p.delivered = <<f>> PROVE ToSet(received) \subseteq ToSet(received')
    <3>1. received' = Append(received, f)
      BY <1>1, <2>1, <2>4, AppendIsConcat
    <3>2. QED
      BY <1>1, <3>1, ToSetAppend
  <2>5. QED
    BY <2>2, <2>3, <2>4
<1>3. CASE receiver = "host"
  BY <1>3 DEF Arrive
<1>4. QED
  BY <1>1, <1>2, <1>3

(* The Nano is on its way through an undamaged frame, or at its end. *)
LEMMA NanoReads ==
  ASSUME FramingInv, HistoryOK, NanoFollows, receiver = "nano", NEW f \in Frames, IsNext(f),
         Arrive(Encoded(f)[at + 1]), at + 1 \in 1 .. Len(Encoded(f)),
         IF at = 0 THEN quiet ELSE fresh
  PROVE  /\ at + 1 # Len(Encoded(f)) => parser' = Following(f, at + 1)
         /\ at + 1 = Len(Encoded(f)) => f \in ToSet(received')
<1> DEFINE v == Encoded(f)[at + 1]
           p == Polled(TimedOut(parser), v)
           n == Len(Encoded(f))
<1>1. received \in Seq(Frames) /\ SentOnce /\ at \in Nat
  BY DEF FramingInv, LineTypeOK, SentOnce
<1>2. n \in Nat /\ n >= 6
  BY FrameSize
<1>3. parser' = [p EXCEPT !.delivered = <<>>] /\ received' = received \o p.delivered
  BY DEF Arrive
<1>4. CASE at = 0
  <2>1. TimedOut(parser) = Reset /\ v = Encoded(f)[1]
    BY <1>4 DEF TimedOut
  <2>2. p = Following(f, 1)
    BY <2>1, FollowsFirst
  <2> HIDE DEF p, v
  <2>3. parser' = Following(f, 1)
    BY <1>3, <2>2 DEF Following
  <2>4. at + 1 = 1
    BY <1>4
  <2>5. QED
    BY <1>2, <2>3, <2>4
<1>5. CASE at # 0
  <2>1. at > 0 /\ fresh /\ f = sending
    BY <1>1, <1>5 DEF IsNext
  <2>2. ~quiet
    BY <2>1 DEF HistoryOK
  <2>3. TimedOut(parser) = Following(f, at)
    BY <2>1, <2>2 DEF TimedOut, NanoFollows
  <2>4. CASE at + 1 # n
    <3>1. at \in 1 .. n - 2
      BY <1>1, <1>2, <2>1, <2>4
    <3>2. p = Following(f, at + 1)
      BY <2>3, <3>1, FollowsNext
    <3> HIDE DEF p, v, n
    <3>3. parser' = Following(f, at + 1)
      BY <1>3, <3>2 DEF Following
    <3>4. QED
      BY <2>4, <3>3 DEF n
  <2>5. CASE at + 1 = n
    <3>1. at = n - 1
      BY <1>1, <1>2, <2>5
    <3>2. p.delivered = <<f>>
      BY <2>3, <3>1, FollowsLast
    <3> HIDE DEF p, v, n
    <3>3. received' = Append(received, f)
      BY <1>1, <1>3, <3>2, AppendIsConcat
    <3>4. QED
      BY <1>1, <2>5, <3>3, ToSetAppend DEF n
  <2>6. QED
    BY <2>4, <2>5
<1>6. QED
  BY <1>4, <1>5

LEMMA SendByteTracks ==
  ASSUME FramingInv, Tracking, SendByte
  PROVE  Tracking'
<1>1. PICK f \in Frames : IsNext(f) /\ Arrive(Encoded(f)[at + 1]) /\ age' = Starts(f) /\ Progress(f, TRUE)
  BY DEF SendByte
<1> DEFINE last  == at + 1 = Len(Encoded(f))
           value == Encoded(f)[at + 1]
<1>2. /\ SentOnce /\ HistoryOK /\ SendingIsHeld /\ WholeIsHeld /\ DueIsReached /\ NanoFollows
      /\ at \in Nat /\ receiver \in {"nano", "host"} /\ received \in Seq(Frames)
  BY DEF FramingInv, Tracking, SentOnce, LineTypeOK
<1>3. /\ sending' = (IF last THEN 0 ELSE f) /\ at' = (IF last THEN 0 ELSE at + 1)
      /\ hurt' = (~last /\ hurt) /\ fresh' = (~last /\ IF at = 0 THEN quiet ELSE fresh)
      /\ whole' = whole \cup {g \in {f} : last /\ ~hurt}
      /\ due' = due \cup {g \in {f} : last /\ fresh} \cup {g \in whole' : Expected(g)}
  BY <1>1 DEF Progress
<1>4. at + 1 \in 1 .. Len(Encoded(f))
  BY <1>1, <1>2, LineProgress
<1>5. value \in Nat
  BY <1>4, EncodedItems, ElementOfSeq
<1> HIDE DEF value
<1>6. Arrive(value) /\ quiet' = FALSE /\ receiver' = receiver /\ ~Searching(buffer)
  BY <1>1 DEF value, Arrive
<1>7. HistoryOK'
  <2>1. TRUE \in BOOLEAN
    OBVIOUS
  <2>2. QED
    BY <1>1, <1>2, <1>6, <2>1, HistoryProgress
<1>8. \A g \in whole : g \in Frames /\ g # f /\ age'[g] = Aged[g]
  BY <1>1, <1>2, WholeWereSent, StartsType
<1>9. due \subseteq ToSet(received')
  BY <1>5, <1>6, Settled, ReceivedGrows DEF Resynchronised
<1>10. at # 0 => /\ age'[f] = Aged[f] /\ age[f] \in Nat /\ Aged[f] <= age[f] + 1
                 /\ (age[f] = 0 <=> Aged[f] = 0) /\ Aged[f] \in Nat /\ sending = f
  <2> SUFFICES ASSUME at # 0
               PROVE  /\ age'[f] = Aged[f] /\ age[f] \in Nat /\ Aged[f] <= age[f] + 1
                      /\ (age[f] = 0 <=> Aged[f] = 0) /\ Aged[f] \in Nat /\ sending = f
    OBVIOUS
  <2>1. age'[f] = Aged[f]
    BY <1>1, <1>2, StartsType
  <2>2. age[f] \in Nat /\ Aged[f] <= age[f] + 1 /\ (age[f] = 0 <=> Aged[f] = 0) /\ Aged[f] \in 0 .. MaxFrameSize
    BY <1>2, AgedType
  <2>3. QED
    BY <1>1, <2>1, <2>2 DEF IsNext
<1>11. CASE receiver = "nano"
  <2>1. SendingIsHeld' /\ WholeIsHeld' /\ DueIsReached'
    BY <1>6, <1>11 DEF SendingIsHeld, WholeIsHeld, DueIsReached
  <2>2. ASSUME IF at = 0 THEN quiet ELSE fresh
        PROVE  /\ ~last => parser' = Following(f, at + 1)
               /\ last => f \in ToSet(received')
    BY <1>1, <1>2, <1>4, <1>11, <2>2, NanoReads
  <2>3. fresh' => parser' = Following(sending', at')
    <3> HIDE DEF last
    <3>1. QED
      BY <1>3, <2>2
  <2>4. last /\ fresh => f \in ToSet(received')
    <3>1. fresh => at # 0
      BY <1>2 DEF HistoryOK
    <3>2. QED
      BY <2>2, <3>1
  <2>5. \A g \in whole' : ~Expected(g)
    BY <1>11 DEF Expected
  <2>6. due' \subseteq ToSet(received')
    <3> HIDE DEF last
    <3>1. QED
      BY <1>3, <1>9, <2>4, <2>5
  <2>7. NanoFollows'
    BY <2>3, <2>6 DEF NanoFollows
  <2>8. QED
    BY <1>7, <2>1, <2>7 DEF Tracking
<1>12. CASE receiver = "host"
  <2>1. received' = received
    BY <1>6, <1>12 DEF Arrive
  <2>2. ASSUME ~hurt, at > 0 => age[f] > 0
        PROVE  /\ \E p \in 0 .. Len(buffer') : Len(buffer') = p + (at + 1) /\ Placed(buffer', f, p, at + 1)
               /\ (IF at = 0 THEN quiet ELSE fresh) => Len(buffer') = at + 1
    BY <1>1, <1>2, <1>4, <1>12, <2>2, SendingGrows
  <2>3. SendingIsHeld'
    <3> SUFFICES ASSUME at' > 0, ~hurt', age'[sending'] > 0
                 PROVE  /\ \E p \in 0 .. Len(buffer') : Len(buffer') = p + at' /\ Placed(buffer', sending', p, at')
                        /\ fresh' => Len(buffer') = at'
      BY DEF SendingIsHeld
    <3> HIDE DEF last
    <3>1. ~last
      BY <1>3
    <3>2. sending' = f /\ at' = at + 1 /\ ~hurt /\ (fresh' => IF at = 0 THEN quiet ELSE fresh)
      BY <1>3, <3>1
    <3>3. at > 0 => age[f] > 0
      <4>1. at > 0 => age'[f] = Aged[f] /\ age[f] \in Nat /\ (age[f] = 0 <=> Aged[f] = 0)
        BY <1>10
      <4>2. QED
        BY <3>2, <4>1
    <3>4. QED
      BY <2>2, <3>2, <3>3
  <2>4. WholeIsHeld'
    <3> SUFFICES ASSUME NEW g \in whole', age'[g] > 0, g \notin ToSet(received')
                 PROVE  \E p \in 0 .. Len(buffer') :
                          p + age'[g] <= Len(buffer') /\ Placed(buffer', g, p, Len(Encoded(g)))
      BY DEF WholeIsHeld
    <3>1. CASE g \in whole
      <4>1. age'[g] = Aged[g]
        BY <1>8, <3>1
      <4>2. QED
        BY <1>2, <1>5, <1>6, <1>12, <3>1, <4>1, WholeStays
    <3>2. CASE g \notin whole
      <4>1. g = f /\ last /\ ~hurt
        <5> HIDE DEF last
        <5>1. QED
          BY <1>3, <3>2
      <4>2. at # 0 /\ at > 0
        <5>1. Len(Encoded(f)) >= 6
          BY FrameSize
        <5>2. QED
          BY <1>2, <4>1, <5>1
      <4>3. age'[f] = Aged[f] /\ age[f] \in Nat /\ Aged[f] <= age[f] + 1 /\ Aged[f] \in Nat /\ sending = f
        BY <1>10, <4>2
      <4>4. age[f] > 0
        <5>1. age[f] = 0 <=> Aged[f] = 0
          BY <1>10, <4>2
        <5>2. QED
          BY <4>1, <4>3, <5>1
      <4>5. age[f] <= at
        BY <1>2, <4>1, <4>2, <4>3 DEF HistoryOK
      <4>6. PICK p \in 0 .. Len(buffer') : Len(buffer') = p + (at + 1) /\ Placed(buffer', f, p, at + 1)
        BY <2>2, <4>1, <4>4
      <4>7. p + age'[f] <= Len(buffer')
        BY <1>2, <4>3, <4>5, <4>6
      <4>8. QED
        BY <4>1, <4>6, <4>7
    <3>3. QED
      BY <3>1, <3>2
  <2>5. DueIsReached'
    <3> SUFFICES ASSUME NEW g \in due', g \notin ToSet(received'), age'[g] # MaxFrameSize
                 PROVE  Placed(buffer', g, 0, Len(Encoded(g)))
      BY DEF DueIsReached
    <3>1. g \notin due
      BY <1>9
    <3>2. ~Expected(g)
      BY DEF Expected
    <3>3. g = f /\ last /\ fresh
      <4> HIDE DEF last
      <4>1. QED
        BY <1>3, <3>1, <3>2
    <3>4. ~hurt /\ at # 0 /\ sending = f /\ age[f] > 0
      <4>1. at # 0 /\ ~hurt /\ age[sending] > 0
        BY <1>2, <3>3 DEF HistoryOK
      <4>2. QED
        BY <1>10, <4>1
    <3>5. Len(buffer') = at + 1
      BY <2>2, <3>3, <3>4
    <3>6. PICK p \in 0 .. Len(buffer') : Len(buffer') = p + (at + 1) /\ Placed(buffer', f, p, at + 1)
      BY <2>2, <3>4
    <3>7. p = 0
      BY <1>2, <3>5, <3>6
    <3>8. QED
      BY <3>3, <3>6, <3>7
  <2>6. NanoFollows'
    BY <1>6, <1>12 DEF NanoFollows
  <2>7. QED
    BY <1>7, <2>3, <2>4, <2>5, <2>6 DEF Tracking
<1>13. QED
  BY <1>2, <1>11, <1>12

(* A damaged byte, or one that nobody sent. *)
LEMMA OtherByteTracks ==
  ASSUME FramingInv, Tracking, HistoryOK', NEW value \in Nat, Arrive(value),
         at' > 0 => hurt', whole' = whole, ~fresh',
         \A g \in whole : age'[g] = Aged[g],
         \A g \in due' : g \in due \/ Expected(g)
  PROVE  Tracking'
<1>1. /\ SentOnce /\ HistoryOK /\ WholeIsHeld
      /\ receiver' = receiver /\ ~Searching(buffer) /\ receiver \in {"nano", "host"}
  BY DEF FramingInv, Tracking, Arrive, LineTypeOK
<1>2. due \subseteq ToSet(received')
  BY <1>1, Settled, ReceivedGrows DEF Resynchronised
<1>3. SendingIsHeld'
  BY DEF SendingIsHeld
<1>4. WholeIsHeld'
  <2> SUFFICES ASSUME receiver = "host", NEW g \in whole, age'[g] > 0, g \notin ToSet(received')
               PROVE  \E p \in 0 .. Len(buffer') :
                        p + age'[g] <= Len(buffer') /\ Placed(buffer', g, p, Len(Encoded(g)))
    BY <1>1 DEF WholeIsHeld
  <2>1. QED
    BY <1>1, WholeStays
<1>5. DueIsReached'
  BY <1>2 DEF DueIsReached, Expected
<1>6. NanoFollows'
  BY <1>1, <1>2 DEF NanoFollows, Expected
<1>7. QED
  BY <1>3, <1>4, <1>5, <1>6 DEF Tracking

LEMMA ChangeByteTracks ==
  ASSUME FramingInv, Tracking, ChangeByte
  PROVE  Tracking'
<1>1. PICK f \in Frames, v \in Noise : IsNext(f) /\ Arrive(v) /\ age' = Starts(f) /\ Progress(f, FALSE)
  BY DEF ChangeByte
<1> DEFINE last == at + 1 = Len(Encoded(f))
<1>2. SentOnce /\ HistoryOK /\ at \in Nat
  BY DEF FramingInv, Tracking, SentOnce
<1>3. /\ at' = (IF last THEN 0 ELSE at + 1) /\ hurt' = ~last /\ ~fresh'
      /\ whole' = whole /\ due' = due \cup {g \in whole' : Expected(g)}
  BY <1>1 DEF Progress
<1>4. quiet' = FALSE
  BY <1>1 DEF Arrive
<1>5. HistoryOK'
  <2>1. FALSE \in BOOLEAN
    OBVIOUS
  <2>2. QED
    BY <1>1, <1>2, <1>4, <2>1, HistoryProgress
<1>6. v \in Nat
  BY FramingAssumption, BytesAreNaturals
<1>7. \A g \in whole : age'[g] = Aged[g]
  BY <1>1, <1>2, WholeWereSent, StartsType
<1>8. at' > 0 => hurt'
  <2>1. CASE last
    BY <1>3, <2>1
  <2>2. CASE ~last
    BY <1>3, <2>2
  <2>3. QED
    BY <2>1, <2>2
<1>9. QED
  BY <1>1, <1>3, <1>5, <1>6, <1>7, <1>8, OtherByteTracks

LEMMA NoiseByteTracks ==
  ASSUME FramingInv, Tracking, NoiseByte
  PROVE  Tracking'
<1>1. PICK v \in Noise : Arrive(v)
  BY DEF NoiseByte
<1>2. /\ age' = Aged /\ hurt' = (hurt \/ at > 0) /\ fresh' = FALSE
      /\ due' = due \cup {g \in whole : Expected(g)}
      /\ sending' = sending /\ at' = at /\ sent' = sent /\ whole' = whole /\ quiet' = FALSE
  BY DEF NoiseByte, Arrive
<1>3. SentOnce /\ HistoryOK
  BY DEF FramingInv, Tracking
<1>4. Finished' = Finished
  BY <1>2 DEF Finished
<1>5. HistoryOK'
  <2>1. age' \in [Frames -> 0 .. MaxFrameSize]
    BY <1>2, <1>3, AgedType
  <2>2. hurt' \in BOOLEAN /\ (at' = 0 => ~hurt')
    BY <1>2, <1>3 DEF HistoryOK, SentOnce
  <2>3. at' > 0 => hurt'
    BY <1>2
  <2>4. due' \subseteq whole' /\ \A f \in whole' : \E k \in 1 .. Finished' : f = sent'[k]
    BY <1>2, <1>3, <1>4 DEF HistoryOK
  <2>5. QED
    BY <1>2, <2>1, <2>2, <2>3, <2>4 DEF HistoryOK
<1>6. v \in Nat
  BY FramingAssumption, BytesAreNaturals
<1>7. QED
  BY <1>1, <1>2, <1>5, <1>6, OtherByteTracks

LEMMA LoseByteTracks ==
  ASSUME FramingInv, Tracking, LoseByte
  PROVE  Tracking'
<1>1. PICK f \in Frames : IsNext(f) /\ Progress(f, FALSE)
  BY DEF LoseByte
<1> DEFINE last == at + 1 = Len(Encoded(f))
<1>2. SentOnce /\ HistoryOK /\ at \in Nat
  BY DEF FramingInv, Tracking, SentOnce
<1>3. /\ at' = (IF last THEN 0 ELSE at + 1) /\ hurt' = ~last /\ ~fresh'
      /\ whole' = whole /\ due' = due \cup {g \in whole' : Expected(g)}
  BY <1>1 DEF Progress
<1>4. UNCHANGED <<receiver, quiet, parser, buffer, received, age>> /\ ~Searching(buffer)
  BY DEF LoseByte
<1>5. HistoryOK'
  <2>1. FALSE \in BOOLEAN
    OBVIOUS
  <2>2. QED
    BY <1>1, <1>2, <1>4, <2>1, HistoryProgress
<1>6. at' > 0 => hurt'
  <2>1. CASE last
    BY <1>3, <2>1
  <2>2. CASE ~last
    BY <1>3, <2>2
  <2>3. QED
    BY <2>1, <2>2
<1>7. due \subseteq ToSet(received')
  BY <1>4, Settled DEF Resynchronised
<1>8. SendingIsHeld'
  BY <1>6 DEF SendingIsHeld
<1>9. WholeIsHeld'
  BY <1>3, <1>4 DEF Tracking, WholeIsHeld
<1>10. DueIsReached'
  BY <1>3, <1>7 DEF DueIsReached, Expected
<1>11. NanoFollows'
  BY <1>3, <1>4, <1>7 DEF NanoFollows, Expected
<1>12. QED
  BY <1>5, <1>8, <1>9, <1>10, <1>11 DEF Tracking

LEMMA PauseTracks ==
  ASSUME FramingInv, Tracking, Pause
  PROVE  Tracking'
<1>1. /\ quiet' = TRUE /\ ~fresh' /\ fresh' = FALSE /\ age' = [f \in Frames |-> 0] /\ ~Searching(buffer)
      /\ UNCHANGED <<receiver, sending, at, sent, parser, buffer, received, hurt, whole, due>>
  BY DEF Pause
<1>2. SentOnce /\ HistoryOK
  BY DEF FramingInv, Tracking
<1>3. due \subseteq ToSet(received')
  BY <1>1, Settled DEF Resynchronised
<1>4. Finished' = Finished
  BY <1>1 DEF Finished
<1>5. at > 0 => sending \in Frames /\ at \in Nat
  BY <1>2, SendingType
<1>6. at' > 0 => age'[sending'] = 0 /\ at' \in Nat
  BY <1>1, <1>5
<1>7. age' \in [Frames -> 0 .. MaxFrameSize]
  <2>1. 0 \in 0 .. MaxFrameSize
    BY PayloadBound DEF MaxFrameSize, HeaderSize
  <2>2. QED
    BY <1>1, <2>1
<1>8. HistoryOK'
  <2>1. quiet' \in BOOLEAN /\ hurt' \in BOOLEAN /\ fresh' \in BOOLEAN /\ (at' = 0 => ~hurt')
    BY <1>1, <1>2 DEF HistoryOK
  <2>2. at' > 0 => age'[sending'] <= at'
    BY <1>6
  <2>3. \A f \in Frames : age'[f] = 0
    BY <1>1
  <2>4. due' \subseteq whole' /\ \A f \in whole' : \E k \in 1 .. Finished' : f = sent'[k]
    BY <1>1, <1>2, <1>4 DEF HistoryOK
  <2>5. QED
    BY <1>1, <1>7, <2>1, <2>2, <2>3, <2>4 DEF HistoryOK
<1>9. SendingIsHeld'
  BY <1>6 DEF SendingIsHeld
<1>10. WholeIsHeld'
  <2>1. \A f \in whole : f \in Frames /\ age'[f] = 0
    BY <1>1, <1>2, WholeWereSent
  <2>2. QED
    BY <1>1, <2>1 DEF WholeIsHeld
<1>11. DueIsReached'
  BY <1>1, <1>3 DEF DueIsReached
<1>12. NanoFollows'
  BY <1>1, <1>3 DEF NanoFollows
<1>13. QED
  BY <1>8, <1>9, <1>10, <1>11, <1>12 DEF Tracking

(* The daemon's search.  It never drops a byte of a frame that is at the front, and a
   frame that it takes ends before one that is held, or is that frame. *)
LEMMA SkipsBefore ==
  ASSUME NEW f \in Frames, NEW p, NEW c \in Nat, Placed(buffer, f, p, c), buffer \in Seq(Nat),
         Searching(buffer), ~HoldsFrame(buffer),
         c = Len(Encoded(f)) \/ (c < Len(Encoded(f)) /\ p + c = Len(buffer))
  PROVE  p >= 1
<1>1. p \in Nat /\ Len(buffer) \in Nat /\ Len(buffer) >= 5
  BY DEF Placed, Searching, HeaderSize
<1>2. SUFFICES ASSUME p = 0 PROVE FALSE
  BY <1>1
<1>3. CASE c = Len(Encoded(f))
  BY <1>2, <1>3, FrontFound
<1>4. CASE c < Len(Encoded(f)) /\ p + c = Len(buffer)
  <2>1. c = Len(buffer) /\ c >= 5
    BY <1>1, <1>2, <1>4
  <2>2. HasHeader(buffer) /\ Size(buffer) = Len(Encoded(f))
    BY <1>2, <2>1, FrontHeader
  <2>3. Len(buffer) >= Size(buffer)
    BY <2>2 DEF Searching
  <2>4. Len(Encoded(f)) \in Nat
    BY FrameSize
  <2>5. QED
    BY <1>4, <2>1, <2>2, <2>3, <2>4
<1>5. QED
  BY <1>3, <1>4

LEMMA TakenSize ==
  ASSUME buffer \in Seq(Nat), Searching(buffer), HoldsFrame(buffer)
  PROVE  /\ Size(buffer) \in 6 .. Len(buffer) /\ Size(buffer) \in Nat /\ Len(buffer) \in Nat
         /\ \E g \in Frames : Content(buffer) = Body(g) /\ buffer[Size(buffer)] = Checksum(g)
         /\ \A i \in 1 .. Size(buffer) - 3 : Content(buffer)[i] = buffer[i + 2] /\ buffer[i + 2] \in Bytes
<1> DEFINE m == Size(buffer)
<1>1. HasHeader(buffer) /\ Len(buffer) >= m /\ Len(buffer) >= 5 /\ Len(buffer) \in Nat
  BY DEF Searching, HoldsFrame, HeaderSize
<1>2. buffer[5] \in Nat
  <2>1. 5 \in 1 .. Len(buffer)
    BY <1>1
  <2>2. QED
    BY <2>1, ElementOfSeq
<1>3. m \in Nat /\ m >= 6
  BY <1>2 DEF Size, HeaderSize
<1>4. PICK g \in Frames : Content(buffer) = Body(g) /\ buffer[m] = Checksum(g)
  BY DEF HoldsFrame, Checks
<1> HIDE DEF m
<1>5. Content(buffer) = SubSeq(buffer, 3, m - 1)
  BY DEF Content, m
<1>6. \A i \in 3 .. m - 1 : buffer[i] \in Nat
  <2>1. \A i \in 3 .. m - 1 : i \in 1 .. Len(buffer)
    BY <1>1, <1>3
  <2>2. QED
    BY <2>1, ElementOfSeq
<1>7. /\ Len(Content(buffer)) = m - 3
      /\ \A i \in 1 .. m - 3 : Content(buffer)[i] = buffer[i + 2]
  <2>1. /\ Len(SubSeq(buffer, 3, m - 1)) = (IF 3 <= m - 1 THEN (m - 1) - 3 + 1 ELSE 0)
        /\ \A i \in 1 .. (m - 1) - 3 + 1 : SubSeq(buffer, 3, m - 1)[i] = buffer[3 + i - 1]
    BY <1>3, <1>6, SubSeqProperties
  <2>2. Len(Content(buffer)) = m - 3
    BY <1>3, <1>5, <2>1
  <2>3. ASSUME NEW i \in 1 .. m - 3 PROVE Content(buffer)[i] = buffer[i + 2]
    <3>1. i \in 1 .. (m - 1) - 3 + 1 /\ 3 + i - 1 = i + 2
      BY <1>3
    <3>2. QED
      BY <1>5, <2>1, <3>1
  <2>4. QED
    BY <2>2, <2>3
<1>8. ASSUME NEW i \in 1 .. m - 3 PROVE Content(buffer)[i] = buffer[i + 2] /\ buffer[i + 2] \in Bytes
  <2>1. Body(g) \in Seq(Bytes) /\ Len(Body(g)) = m - 3
    BY <1>4, <1>7, BodyBytes
  <2>2. i \in 1 .. Len(Body(g))
    BY <2>1
  <2>3. Body(g)[i] \in Bytes
    BY <2>1, <2>2, ElementOfSeq
  <2>4. QED
    BY <1>4, <1>7, <2>3
<1>9. QED
  BY <1>1, <1>3, <1>4, <1>8 DEF m

LEMMA TakesBefore ==
  ASSUME NEW f \in Frames, NEW p, NEW c \in Nat, Placed(buffer, f, p, c), buffer \in Seq(Nat),
         Searching(buffer), HoldsFrame(buffer),
         c = Len(Encoded(f)) \/ (c < Len(Encoded(f)) /\ p + c = Len(buffer))
  PROVE  Size(buffer) <= p \/ (c = Len(Encoded(f)) /\ FrameOf(Content(buffer)) = f)
<1> DEFINE m == Size(buffer)
           n == Len(Encoded(f))
<1>1. /\ m \in 6 .. Len(buffer) /\ m \in Nat /\ Len(buffer) \in Nat
      /\ \A i \in 1 .. m - 3 : buffer[i + 2] \in Bytes
  BY TakenSize
<1>2. PICK g \in Frames : Content(buffer) = Body(g) /\ buffer[m] = Checksum(g)
  BY TakenSize
<1>3. p \in Nat /\ p + c <= Len(buffer) /\ \A i \in 1 .. c : buffer[p + i] = Encoded(f)[i]
  BY DEF Placed
<1>4. n \in Nat /\ n >= 6 /\ Encoded(f)[n] = Checksum(f) /\ \A i \in 1 .. n - 1 : Encoded(f)[i] \in Bytes
  <2>1. n = 6 + Len(Payloads[f]) /\ Len(Payloads[f]) \in Nat
    BY FrameSize
  <2>2. n - 1 = 5 + Len(Payloads[f])
    BY <2>1
  <2>3. QED
    BY <2>1, <2>2, EncodedBytes
<1> HIDE DEF m, n
<1>5. c = n \/ (c < n /\ p + c = Len(buffer))
  BY DEF n
<1> SUFFICES ASSUME ~(m <= p) PROVE c = n /\ FrameOf(Content(buffer)) = f
  BY DEF m, n
<1> DEFINE k == m - p
<1>6. k \in Nat /\ k >= 1 /\ p + k = m
  BY <1>1, <1>3
<1> HIDE DEF k
<1>7. ~(k < n)
  <2> SUFFICES ASSUME k < n PROVE FALSE
    OBVIOUS
  <2>1. k \in 1 .. c
    BY <1>1, <1>3, <1>4, <1>5, <1>6
  <2>2. k \in 1 .. n - 1
    BY <1>4, <1>6
  <2>3. buffer[m] \in Bytes
    BY <1>3, <1>4, <1>6, <2>1, <2>2
  <2>4. QED
    BY <1>2, <2>3, ChecksumTells
<1>8. c = n
  <2> SUFFICES ASSUME c < n, p + c = Len(buffer) PROVE FALSE
    BY <1>5
  <2>1. k <= c
    BY <1>1, <1>3, <1>6
  <2>2. QED
    BY <1>4, <1>6, <1>7, <2>1
<1>9. buffer[p + n] = Checksum(f)
  <2>1. n \in 1 .. c
    BY <1>4, <1>8
  <2>2. QED
    BY <1>3, <1>4, <2>1
<1>10. k = n
  <2> SUFFICES ASSUME k > n PROVE FALSE
    BY <1>4, <1>6, <1>7
  <2>1. (p + n) - 2 \in 1 .. m - 3 /\ ((p + n) - 2) + 2 = p + n
    BY <1>1, <1>3, <1>4, <1>6
  <2>2. buffer[p + n] \in Bytes
    BY <1>1, <2>1
  <2>3. QED
    BY <1>9, <2>2, ChecksumTells
<1>11. Checksum(g) = Checksum(f)
  BY <1>2, <1>6, <1>9, <1>10
<1>12. g = f
  BY <1>11, ChecksumTells
<1>13. FrameOf(Content(buffer)) = f
  BY <1>2, <1>12, FrameOfBody
<1>14. QED
  BY <1>8, <1>13

(* The search drops the first m bytes. *)
LEMMA SearchTracks ==
  ASSUME FramingInv, Tracking, receiver = "host", NEW m \in Nat,
         UNCHANGED <<receiver, channel, quiet, parser, history>>,
         ToSet(received) \subseteq ToSet(received'),
         buffer' \in Seq(Nat), Len(buffer') = Len(buffer) - m,
         \A i \in 1 .. Len(buffer') : buffer'[i] = buffer[i + m],
         \A f \in Frames, p \in Nat, c \in Nat :
           /\ Placed(buffer, f, p, c) /\ f \notin ToSet(received')
           /\ c = Len(Encoded(f)) \/ (c < Len(Encoded(f)) /\ p + c = Len(buffer))
           => m <= p,
         \A f \in Frames, p \in Nat, c \in Nat :
           Placed(buffer, f, p, c) /\ c < Len(Encoded(f)) /\ p + c = Len(buffer) => m <= p,
         m >= 1
  PROVE  Tracking'
<1>1. /\ SentOnce /\ HistoryOK /\ SendingIsHeld /\ WholeIsHeld /\ DueIsReached /\ NanoFollows
      /\ buffer \in Seq(Nat) /\ Len(buffer) \in Nat
  BY DEF FramingInv, Tracking, LineTypeOK
<1>2. /\ receiver' = receiver /\ sending' = sending /\ at' = at /\ sent' = sent /\ quiet' = quiet
      /\ hurt' = hurt /\ fresh' = fresh /\ whole' = whole /\ age' = age /\ due' = due
  BY DEF channel, history
<1>3. HistoryOK'
  <2>1. Finished' = Finished
    BY <1>2 DEF Finished
  <2>2. QED
    BY <1>1, <1>2, <2>1 DEF HistoryOK
<1>4. SendingIsHeld'
  <2> SUFFICES ASSUME at > 0, ~hurt, age[sending] > 0
               PROVE  /\ \E p \in 0 .. Len(buffer') : Len(buffer') = p + at /\ Placed(buffer', sending, p, at)
                      /\ fresh => Len(buffer') = at
    BY <1>2 DEF SendingIsHeld
  <2>1. PICK p \in 0 .. Len(buffer) : Len(buffer) = p + at /\ Placed(buffer, sending, p, at)
    BY <1>1 DEF SendingIsHeld
  <2>2. sending \in Frames /\ at < Len(Encoded(sending)) /\ at \in Nat
    BY <1>1, SendingType
  <2>3. m <= p /\ p \in Nat
    BY <2>1, <2>2
  <2>4. Placed(buffer', sending, p - m, at)
    BY <1>1, <2>1, <2>2, <2>3, PlacedLater
  <2>5. Len(buffer') = (p - m) + at /\ p - m \in 0 .. Len(buffer')
    BY <1>1, <2>1, <2>2, <2>3
  <2>6. ~fresh
    <3>1. fresh => Len(buffer) = at
      BY <1>1 DEF SendingIsHeld
    <3>2. Len(buffer) # at
      BY <1>1, <2>1, <2>2, <2>3
    <3>3. QED
      BY <3>1, <3>2
  <2>7. QED
    BY <2>4, <2>5, <2>6
<1>5. WholeIsHeld'
  <2> SUFFICES ASSUME NEW f \in whole, age[f] > 0, f \notin ToSet(received')
               PROVE  \E p \in 0 .. Len(buffer') :
                        p + age[f] <= Len(buffer') /\ Placed(buffer', f, p, Len(Encoded(f)))
    BY <1>2 DEF WholeIsHeld
  <2>1. PICK p \in 0 .. Len(buffer) : p + age[f] <= Len(buffer) /\ Placed(buffer, f, p, Len(Encoded(f)))
    BY <1>1 DEF WholeIsHeld
  <2>2. f \in Frames /\ Len(Encoded(f)) \in Nat /\ p \in Nat
    BY <1>1, WholeWereSent, FrameSize
  <2>3. m <= p
    BY <2>1, <2>2
  <2>4. Placed(buffer', f, p - m, Len(Encoded(f)))
    BY <1>1, <2>1, <2>2, <2>3, PlacedLater
  <2>5. age[f] \in Nat
    BY <1>1, <2>2, AgedType
  <2>6. (p - m) + age[f] <= Len(buffer') /\ p - m \in 0 .. Len(buffer')
    <3> DEFINE n == Len(buffer)
               a == age[f]
    <3>1. n \in Nat /\ a \in Nat /\ p \in Nat /\ m \in Nat /\ m <= p /\ p + a <= n
      BY <1>1, <2>1, <2>2, <2>3, <2>5
    <3> HIDE DEF n, a
    <3>2. (p - m) + a <= n - m /\ p - m \in 0 .. n - m
      BY <3>1
    <3>3. QED
      BY <3>2 DEF n, a
  <2>7. QED
    BY <2>4, <2>6
<1>6. DueIsReached'
  <2> SUFFICES ASSUME NEW f \in due, f \notin ToSet(received'), age[f] # MaxFrameSize
               PROVE  FALSE
    BY <1>2 DEF DueIsReached
  <2>1. Placed(buffer, f, 0, Len(Encoded(f)))
    BY <1>1 DEF DueIsReached
  <2>2. f \in Frames /\ Len(Encoded(f)) \in Nat
    BY <1>1, WholeWereSent, FrameSize DEF HistoryOK
  <2>3. m <= 0
    BY <2>1, <2>2
  <2>4. QED
    BY <2>3
<1>7. NanoFollows'
  BY <1>2 DEF NanoFollows
<1>8. QED
  BY <1>3, <1>4, <1>5, <1>6, <1>7 DEF Tracking

LEMMA SkipByteTracks ==
  ASSUME FramingInv, Tracking, SkipByte
  PROVE  Tracking'
<1>1. /\ Searching(buffer) /\ ~HoldsFrame(buffer) /\ buffer' = Tail(buffer)
      /\ UNCHANGED <<receiver, channel, quiet, parser, history>> /\ received' = received
  BY DEF SkipByte
<1>2. buffer \in Seq(Nat) /\ Len(buffer) \in Nat /\ Len(buffer) >= 5
  BY <1>1 DEF FramingInv, LineTypeOK, Searching, HeaderSize
<1>3. buffer # <<>>
  BY <1>2
<1>4. receiver = "host"
  BY <1>3 DEF FramingInv, LineTypeOK
<1>5. /\ buffer' \in Seq(Nat) /\ Len(buffer') = Len(buffer) - 1
      /\ \A i \in 1 .. Len(buffer') : buffer'[i] = buffer[i + 1]
  BY <1>1, <1>2, <1>3, HeadTailProperties
<1>6. \A f \in Frames, p \in Nat, c \in Nat :
        /\ Placed(buffer, f, p, c)
        /\ c = Len(Encoded(f)) \/ (c < Len(Encoded(f)) /\ p + c = Len(buffer))
        => 1 <= p
  BY <1>1, <1>2, SkipsBefore
<1>7. 1 \in Nat /\ 1 >= 1
  OBVIOUS
<1>8. QED
  BY <1>1, <1>4, <1>5, <1>6, <1>7, SearchTracks

LEMMA TakeFrameTracks ==
  ASSUME FramingInv, Tracking, TakeFrame
  PROVE  Tracking'
<1> DEFINE m == Size(buffer)
           g == FrameOf(Content(buffer))
<1>1. /\ Searching(buffer) /\ HoldsFrame(buffer) /\ buffer' = SubSeq(buffer, m + 1, Len(buffer))
      /\ UNCHANGED <<receiver, channel, quiet, parser, history>> /\ received' = Append(received, g)
  BY DEF TakeFrame
<1>2. buffer \in Seq(Nat) /\ received \in Seq(Frames)
  BY DEF FramingInv, LineTypeOK
<1>3. m \in 6 .. Len(buffer) /\ m \in Nat /\ Len(buffer) \in Nat
  BY <1>1, <1>2, TakenSize
<1>4. g \in Frames
  <2>1. \E f \in Frames : Content(buffer) = Body(f)
    BY <1>1, <1>2, TakenSize
  <2>2. QED
    BY <2>1, FrameOfBody
<1>5. \A f \in Frames, p \in Nat, c \in Nat :
        /\ Placed(buffer, f, p, c)
        /\ c = Len(Encoded(f)) \/ (c < Len(Encoded(f)) /\ p + c = Len(buffer))
        => m <= p \/ (c = Len(Encoded(f)) /\ g = f)
  BY <1>1, <1>2, TakesBefore
<1> HIDE DEF m, g
<1>6. receiver = "host"
  <2>1. buffer # <<>>
    BY <1>2, <1>3
  <2>2. QED
    BY <2>1 DEF FramingInv, LineTypeOK
<1>7. ToSet(received) \subseteq ToSet(received') /\ g \in ToSet(received')
  BY <1>1, <1>2, <1>4, ToSetAppend
<1>8. /\ buffer' \in Seq(Nat) /\ Len(buffer') = Len(buffer) - m
      /\ \A i \in 1 .. Len(buffer') : buffer'[i] = buffer[i + m]
  <2>1. m \in 1 .. Len(buffer)
    BY <1>3
  <2>2. QED
    BY <1>1, <1>2, <1>3, <2>1, DroppedBytes
<1>9. \A f \in Frames, p \in Nat, c \in Nat :
        /\ Placed(buffer, f, p, c) /\ f \notin ToSet(received')
        /\ c = Len(Encoded(f)) \/ (c < Len(Encoded(f)) /\ p + c = Len(buffer))
        => m <= p
  BY <1>5, <1>7
<1>10. \A f \in Frames, p \in Nat, c \in Nat :
         Placed(buffer, f, p, c) /\ c < Len(Encoded(f)) /\ p + c = Len(buffer) => m <= p
  <2> TAKE f \in Frames, p \in Nat, c \in Nat
  <2> HAVE Placed(buffer, f, p, c) /\ c < Len(Encoded(f)) /\ p + c = Len(buffer)
  <2>1. c # Len(Encoded(f))
    BY FrameSize
  <2>2. QED
    BY <1>5, <2>1
<1>11. m >= 1
  BY <1>3
<1>12. QED
  BY <1>1, <1>3, <1>6, <1>7, <1>8, <1>9, <1>10, <1>11, SearchTracks

LEMMA TrackingStutters ==
  ASSUME FramingInv, Tracking, UNCHANGED framingVars
  PROVE  Tracking'
<1>1. UNCHANGED <<receiver, sending, at, sent, quiet, parser, buffer, received, hurt, fresh, whole, age, due>>
  BY DEF framingVars, channel, history
<1>2. Finished' = Finished
  BY <1>1 DEF Finished
<1>3. HistoryOK'
  BY <1>1, <1>2 DEF Tracking, HistoryOK
<1>4. SendingIsHeld' /\ WholeIsHeld' /\ DueIsReached' /\ NanoFollows'
  <2>1. SendingIsHeld'
    BY <1>1 DEF Tracking, SendingIsHeld
  <2>2. WholeIsHeld'
    BY <1>1 DEF Tracking, WholeIsHeld
  <2>3. DueIsReached'
    BY <1>1 DEF Tracking, DueIsReached
  <2>4. NanoFollows'
    BY <1>1 DEF Tracking, NanoFollows
  <2>5. QED
    BY <2>1, <2>2, <2>3, <2>4
<1>5. QED
  BY <1>3, <1>4 DEF Tracking

LEMMA TrackingInit ==
  ASSUME FramingInit
  PROVE  Tracking
<1>1. /\ at = 0 /\ sent = <<>> /\ quiet = TRUE /\ received = <<>> /\ hurt = FALSE /\ fresh = FALSE
      /\ whole = {} /\ age = [f \in Frames |-> 0] /\ due = {}
  BY DEF FramingInit
<1>2. age \in [Frames -> 0 .. MaxFrameSize] /\ \A f \in Frames : age[f] = 0
  <2>1. 0 \in 0 .. MaxFrameSize
    BY PayloadBound DEF MaxFrameSize, HeaderSize
  <2>2. QED
    BY <1>1, <2>1
<1>3. HistoryOK
  <2>1. ~(at > 0)
    BY <1>1
  <2>2. quiet \in BOOLEAN /\ hurt \in BOOLEAN /\ fresh \in BOOLEAN /\ ~hurt /\ ~fresh
    BY <1>1
  <2>3. due \subseteq whole /\ \A f \in whole : \E k \in 1 .. Finished : f = sent[k]
    BY <1>1
  <2>4. QED
    BY <1>2, <2>1, <2>2, <2>3 DEF HistoryOK
<1>4. SendingIsHeld /\ WholeIsHeld /\ DueIsReached /\ NanoFollows
  BY <1>1 DEF SendingIsHeld, WholeIsHeld, DueIsReached, NanoFollows
<1>5. QED
  BY <1>3, <1>4 DEF Tracking

LEMMA TrackingNext ==
  ASSUME FramingInv, Tracking, [FramingNext]_framingVars
  PROVE  Tracking'
BY SendByteTracks, ChangeByteTracks, LoseByteTracks, NoiseByteTracks, PauseTracks,
   SkipByteTracks, TakeFrameTracks, TrackingStutters
DEF FramingNext

(* For all frames, damage and pauses: a frame that follows a pause without damage is
   delivered at its last byte, and the daemon delivers each undamaged frame at the
   latest when as many bytes have come since it began as a frame can have. *)
THEOREM DamageIsOvercome == FramingSpec => []Resynchronised
<1>1. FramingInit => FramingInv /\ Tracking
  BY FramingInitInv, TrackingInit
<1>2. FramingInv /\ Tracking /\ [FramingNext]_framingVars => FramingInv' /\ Tracking'
  BY FramingNextInv, TrackingNext
<1>3. FramingInv /\ Tracking => Resynchronised
  BY Settled
<1>4. QED
  BY <1>1, <1>2, <1>3, PTL DEF FramingSpec
=============================================================================
