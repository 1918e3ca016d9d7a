-------------------------- MODULE SerialFraming --------------------------
(***************************************************************************)
(* The frames on the serial line and the two parsers that find them again  *)
(* in a stream of bytes: the Nano's state machine (SerialProtocol::poll)   *)
(* and the daemon's buffer (SerialProbe::readFrames).                      *)
(*                                                                         *)
(* A header is the two bytes of magic, the version, one byte for the type  *)
(* and the sequence number, and the length.  The checksum is one byte that *)
(* no other content has.  A byte is parsed when it arrives: what arrives   *)
(* while a parser is not called is parsed in the same order later, and a   *)
(* delay is a pause on the line.  Each byte that the daemon's search skips *)
(* and each frame that it takes is a step, before the next byte arrives.   *)
(***************************************************************************)
EXTENDS Naturals, Sequences, SequencesExt

CONSTANTS
  Payloads,        (* The frames that may be sent: a sequence of payloads,  *)
                   (* of different bodies.                                  *)
  Noise,           (* Values of damaged bytes.                              *)
  MaxPayload,      (* kMaximumPayload                                       *)
  MaxDamage,       (* Bytes that are lost or changed.                       *)
  MaxPauses        (* Of more than 250 ms.                                  *)

Magic1  == 165   (* 0xA5 *)
Magic2  == 90    (* 0x5A *)
Version == 2
Type    == 0
HeaderSize   == 5
MaxFrameSize == HeaderSize + MaxPayload + 1
Frames       == DOMAIN Payloads

(* All bytes but the checksums. *)
Bytes == 0 .. 255

ASSUME FramingAssumption ==
  /\ Payloads \in Seq(Seq(Bytes)) /\ Noise \subseteq Bytes
  /\ \A f, g \in Frames : Payloads[f] = Payloads[g] => f = g
  /\ \A f \in Frames : Len(Payloads[f]) <= MaxPayload
  /\ MaxPayload \in Bytes

(* encode(), send(): the checksum is of what follows the magic. *)
Body(f)     == <<Version, Type, Len(Payloads[f])>> \o Payloads[f]
Checksum(f) == 255 + f
Encoded(f)  == <<Magic1, Magic2>> \o Body(f) \o <<Checksum(f)>>

Checks_NeverFault(body, checksum) == TRUE
Checks(body, checksum) == \E f \in Frames : body = Body(f) /\ checksum = Checksum(f)

(* What a frame that passed its check is taken for. *)
FrameOf(body) == IF \E f \in Frames : body = Body(f) THEN CHOOSE f \in Frames : body = Body(f) ELSE 0

VARIABLES
  receiver,        (* nano or host                                          *)
  damage, pauses,  (* Budgets used.                                         *)
  sending, at,     (* The frame on its way, and how many bytes are sent.    *)
  sent,            (* Frames that were begun, in their order.               *)
  quiet,           (* Nothing has been read for more than 250 ms.           *)
  parser,          (* Nano: state_ and what of incoming_ is known.          *)
  buffer,          (* Daemon: receiveBuffer_.                               *)
  received,        (* Frames that were delivered.                           *)
  hurt, fresh,     (* History: the frame being sent was damaged; it began   *)
                   (* after a pause and has had no trouble.                 *)
  whole,           (* History: the frames that were sent without damage.    *)
  age,             (* History: bytes since each frame began, 0 once there   *)
                   (* was a pause.                                          *)
  due              (* History: frames that must have been delivered.        *)
channel == <<damage, pauses, sending, at, sent>>
history == <<hurt, fresh, whole, age, due>>
framingVars == <<receiver, channel, quiet, parser, buffer, received, history>>

-----------------------------------------------------------------------------
(* SerialProtocol::poll(), for one byte; reset() *)

Reset == [state |-> "Magic1", body |-> <<>>, delivered |-> <<>>]

Collected(p, value) == [p EXCEPT !.body = Append(@, value)]
PayloadLength(body) == body[HeaderSize - 2]

Polled(p, value) ==
  CASE p.state = "Magic1"  -> [p EXCEPT !.state = IF value = Magic1 THEN "Magic2" ELSE "Magic1"]
    [] p.state = "Magic2"  -> [p EXCEPT !.state = CASE value = Magic2 -> "Version"
                                                    [] value = Magic1 -> "Magic2"
                                                    [] OTHER          -> "Magic1"]
    [] p.state = "Version" -> IF value # Version THEN Reset
                              ELSE [Collected(p, value) EXCEPT !.state = "Type"]
    [] p.state = "Type"    -> [Collected(p, value) EXCEPT !.state = "Length"]
    [] p.state = "Length"  -> IF value > MaxPayload THEN Reset
                              ELSE [Collected(p, value) EXCEPT
                                      !.state = IF value = 0 THEN "Crc" ELSE "Payload"]
    [] p.state = "Payload" -> [Collected(p, value) EXCEPT
                                 !.state = IF Len(p.body) + 1 = HeaderSize - 2 + PayloadLength(p.body)
                                           THEN "Crc" ELSE "Payload"]
    [] p.state = "Crc"     -> IF Checks(p.body, value)
                              THEN [Reset EXCEPT !.delivered = <<FrameOf(p.body)>>] ELSE Reset

TimedOut_NeverFault(p) == p
(* More than 250 ms after the last byte. *)
TimedOut(p) == IF quiet THEN Reset ELSE p

-----------------------------------------------------------------------------
(* SerialProbe::readFrames() *)

HasHeader(b) == b[1] = Magic1 /\ b[2] = Magic2 /\ b[3] = Version /\ b[HeaderSize] <= MaxPayload
Size(b)      == HeaderSize + b[HeaderSize] + 1

(* What is left of an earlier frame is dropped after 250 ms. *)
KeptBytes(b) == IF quiet THEN <<>> ELSE b

(* The search ends when the buffer begins with a frame of which more is to come. *)
Searching(b)  == Len(b) >= HeaderSize /\ (HasHeader(b) => Len(b) >= Size(b))
Content(b)    == SubSeq(b, 3, Size(b) - 1)
HoldsFrame(b) == HasHeader(b) /\ Checks(Content(b), b[Size(b)])

-----------------------------------------------------------------------------
FramingInit ==
  /\ receiver \in {"nano", "host"}
  /\ damage = 0 /\ pauses = 0 /\ sending = 0 /\ at = 0 /\ sent = <<>> /\ quiet = TRUE
  /\ parser = Reset /\ buffer = <<>> /\ received = <<>>
  /\ hurt = FALSE /\ fresh = FALSE /\ whole = {} /\ age = [f \in Frames |-> 0] /\ due = {}

(* A byte reaches the receiver. *)
Arrive(value) ==
  /\ quiet' = FALSE /\ UNCHANGED receiver /\ ~Searching(buffer)
  /\ \/ /\ receiver = "nano"
        /\ LET p == Polled(TimedOut(parser), value)
           IN  parser' = [p EXCEPT !.delivered = <<>>] /\ received' = received \o p.delivered
        /\ UNCHANGED buffer
     \/ /\ receiver = "host"
        /\ buffer' = Append(KeptBytes(buffer), value) /\ UNCHANGED <<parser, received>>

(* The search of the daemon: what is no frame is left out from its first byte on. *)
SkipByte ==
  /\ Searching(buffer) /\ ~HoldsFrame(buffer) /\ buffer' = Tail(buffer)
  /\ UNCHANGED <<receiver, channel, quiet, parser, received, history>>

TakeFrame ==
  /\ Searching(buffer) /\ HoldsFrame(buffer)
  /\ buffer' = SubSeq(buffer, Size(buffer) + 1, Len(buffer))
  /\ received' = Append(received, FrameOf(Content(buffer)))
  /\ UNCHANGED <<receiver, channel, quiet, parser, history>>

Aged == [f \in Frames |-> IF age[f] \in {0, MaxFrameSize} THEN age[f] ELSE age[f] + 1]

(* The daemon must have delivered a whole frame once as many bytes have come since it
   began as a frame can have; both must, a frame that followed a pause at once. *)
Expected(f) == age'[f] = MaxFrameSize /\ receiver = "host"

(* The frame f has its next byte on the way, in good order or not. *)
Progress(f, good) ==
  LET first == at = 0
      last  == at + 1 = Len(Encoded(f))
  IN  /\ sending' = (IF last THEN 0 ELSE f) /\ at' = (IF last THEN 0 ELSE at + 1)
      /\ sent' = (IF first THEN Append(sent, f) ELSE sent)
      /\ hurt' = (~last /\ (hurt \/ ~good))
      /\ fresh' = (~last /\ good /\ IF first THEN quiet ELSE fresh)
      /\ whole' = whole \cup {g \in {f} : last /\ good /\ ~hurt}
      /\ due' = due \cup {g \in {f} : last /\ good /\ fresh} \cup {g \in whole' : Expected(g)}
Starts(f) == [Aged EXCEPT ![f] = IF at = 0 THEN 1 ELSE @]

IsNext(f) == IF at = 0 THEN f \notin ToSet(sent) ELSE f = sending
Damage   == damage < MaxDamage /\ damage' = damage + 1

SendByte ==
  \E f \in Frames :
    /\ IsNext(f) /\ Arrive(Encoded(f)[at + 1])
    /\ age' = Starts(f) /\ Progress(f, TRUE) /\ UNCHANGED <<damage, pauses>>

ChangeByte ==
  \E f \in Frames, v \in Noise :
    /\ IsNext(f) /\ v # Encoded(f)[at + 1] /\ Arrive(v)
    /\ age' = Starts(f) /\ Progress(f, FALSE) /\ Damage /\ UNCHANGED pauses

LoseByte ==
  \E f \in Frames :
    /\ IsNext(f) /\ ~Searching(buffer)
    /\ UNCHANGED <<receiver, quiet, parser, buffer, received, age>>
    /\ Progress(f, FALSE) /\ Damage /\ UNCHANGED pauses

NoiseByte ==
  \E v \in Noise :
    /\ Arrive(v) /\ Damage /\ age' = Aged
    /\ hurt' = (hurt \/ at > 0) /\ fresh' = FALSE
    /\ due' = due \cup {g \in whole : Expected(g)}
    /\ UNCHANGED <<pauses, sending, at, sent, whole>>

Pause ==
  /\ ~quiet /\ ~Searching(buffer)
  /\ quiet' = TRUE /\ pauses < MaxPauses /\ pauses' = pauses + 1
  /\ fresh' = FALSE /\ age' = [f \in Frames |-> 0]
  /\ UNCHANGED <<receiver, damage, sending, at, sent, parser, buffer, received, hurt, whole, due>>

FramingNext == SendByte \/ ChangeByte \/ LoseByte \/ NoiseByte \/ Pause \/ SkipByte \/ TakeFrame
FramingSpec == FramingInit /\ [][FramingNext]_framingVars

-----------------------------------------------------------------------------
(* Every delivered frame is one that was sent, once and in the order of sending: no
   remains of two frames are taken for one, whatever was lost, changed or added. *)
NothingInvented ==
  /\ ToSet(received) \subseteq ToSet(sent)
  /\ \A i, j \in DOMAIN received, k, l \in DOMAIN sent :
       i < j /\ received[i] = sent[k] /\ received[j] = sent[l] => k < l

(* Damage is overcome.  A frame without damage that follows a pause is delivered by
   both parsers; the daemon's finds a frame also behind damage, once enough bytes
   have come to reject whatever header the damage seemed to begin. *)
Resynchronised == ~Searching(buffer) => due \subseteq ToSet(received)
=============================================================================
