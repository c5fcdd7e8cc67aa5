------------------------------- MODULE Frames -------------------------------
(***************************************************************************)
(* Messages on the message bus, as bytes.  A sender encodes each message   *)
(* as a frame, a stream carries the frames, and a receiver gets the stream *)
(* in pieces of any size, cuts it into frames (MessageStreamParser,        *)
(* Socket::StreamParser) and decodes each (AbstractMessage::doDecode).     *)
(* The content of a message is the text its JSON value is written as.      *)
(***************************************************************************)
EXTENDS Bytes

CONSTANTS
  MaxMessageSize,    \* AbstractMessage::MAX_MESSAGE_SIZE
  Registrations      \* classes and types, in the order they are registered

ASSUME MaxMessageSizeAssumption == MaxMessageSize \in Nat

ASSUME RegistrationsAssumption ==
  Registrations \in Seq([class : Seq(Nat), type : Seq(Nat)])

VARIABLES
  sent,        \* the messages sent
  wire,        \* the bytes that are sent and not read yet
  inBuffer,    \* StreamParser::buffer
  received,    \* what each frame was decoded to
  parser       \* "reading", or "failed" when the parser has thrown

frameVars == <<sent, wire, inBuffer, received, parser>>

Encode(message) ==
  WithLength(WithLength(message.class) \o WithLength(message.type)
               \o WithLength(message.content))

(***************************************************************************)
(* MessageFactory: of several implementations of a class and type only the *)
(* first one is kept, and a message that none implements is an error.      *)
(***************************************************************************)
Implementations ==
  {i \in DOMAIN Registrations :
     \A k \in 1..(i - 1) : \/ Registrations[k].class # Registrations[i].class
                           \/ Registrations[k].type # Registrations[i].type}

MakeMessage(class, type, content) ==
  LET makers == {i \in Implementations : /\ Registrations[i].class = class
                                         /\ Registrations[i].type = type}
  IN  IF makers = {} THEN Throws
      ELSE [class |-> class, type |-> type, content |-> content,
            maker |-> CHOOSE i \in makers : TRUE]

(* AbstractMessage::decode *)
Decode(frame) ==
  LET size    == Read(frame, 4)
      class   == ReadString(size.rest)
      type    == IF class = Throws THEN Throws ELSE ReadString(class.rest)
      content == IF type = Throws THEN Throws ELSE ReadString(type.rest)
  IN  CASE Len(frame) > MaxMessageSize -> Throws
        [] size = Throws -> Throws
        [] ParseUIntLE(size.value, 4) # Len(size.rest) -> Throws
        [] content = Throws -> Throws
        [] content.rest # <<>> -> Throws
        [] OTHER -> MakeMessage(class.value, type.value, content.value)

-----------------------------------------------------------------------------
(* (Variant: the length is taken for that of the whole frame.) *)
PayloadSize(buffer) ==
  IF Len(buffer) < 4 THEN 0
  ELSE LET packetSize == ParseUIntLE(SubSeq(buffer, 1, 4), 4)
       IN  IF packetSize > MaxMessageSize THEN Throws
           ELSE IF Len(buffer) - 4 < packetSize THEN 0 ELSE packetSize

(* MessageStreamParser::getReceivedMessageSize: 0 for an incomplete frame. *)
GetReceivedMessageSize(buffer) ==
  IF Len(buffer) < 4 THEN 0
  ELSE LET packetSize == ParseUIntLE(SubSeq(buffer, 1, 4), 4)
       IN  IF packetSize > MaxMessageSize THEN Throws
           ELSE IF Len(buffer) - 4 < packetSize THEN 0 ELSE 4 + packetSize

FramesInit(messages) ==
  /\ sent = messages
  /\ wire = LET all[i \in 0..Len(messages)] ==
                  IF i = 0 THEN <<>> ELSE all[i - 1] \o Encode(messages[i])
            IN  all[Len(messages)]
  /\ inBuffer = <<>>
  /\ received = <<>>
  /\ parser = "reading"

(* A packet is what one read() returns: any number of bytes. *)
ReceivePacket ==
  /\ parser = "reading"
  /\ GetReceivedMessageSize(inBuffer) = 0
  /\ \E n \in 1..Len(wire) :
       /\ inBuffer' = inBuffer \o SubSeq(wire, 1, n)
       /\ wire' = SubSeq(wire, n + 1, Len(wire))
  /\ UNCHANGED <<sent, received, parser>>

(* One turn of the loop of processPacket(). *)
HandOn ==
  LET size == GetReceivedMessageSize(inBuffer)
  IN  /\ parser = "reading"
      /\ size \notin {0, Throws}
      /\ received' = Append(received, Decode(SubSeq(inBuffer, 1, size)))
      /\ inBuffer' = SubSeq(inBuffer, size + 1, Len(inBuffer))
      /\ UNCHANGED <<sent, wire, parser>>

(* The exception leaves processPacket(): nothing is received any more. *)
ParserThrows ==
  /\ parser = "reading"
  /\ GetReceivedMessageSize(inBuffer) = Throws
  /\ parser' = "failed"
  /\ UNCHANGED <<sent, wire, inBuffer, received>>

FramesNext == ReceivePacket \/ HandOn \/ ParserThrows

-----------------------------------------------------------------------------
(* What becomes of a message: the decoder's limit includes the header. *)
Outcome(message) ==
  LET makers == {i \in DOMAIN Registrations :
                   /\ Registrations[i].class = message.class
                   /\ Registrations[i].type = message.type}
  IN  IF makers = {} \/ Len(Encode(message)) > MaxMessageSize THEN Throws
      ELSE [class |-> message.class, type |-> message.type,
            content |-> message.content,
            maker |-> CHOOSE i \in makers : \A k \in makers : i <= k]

(***************************************************************************)
(* Whatever pieces the stream arrives in, the frames are handed on whole   *)
(* and in order, and decode to the messages that were encoded, by the      *)
(* implementation that registered first; refused are exactly those of no   *)
(* registered type and those whose frame, with its four bytes of header,   *)
(* exceeds the limit.  None is missing once everything is read, unless the *)
(* parser has stopped at the first one that exceeds it without them: the   *)
(* four sizes between the two limits are refused and the stream goes on,   *)
(* as in the bus's client, which catches the decoder's exception.  (In the *)
(* relay it ends the process: Relay's ReadFrame of "undecodable" frames.)  *)
(***************************************************************************)
FramesDecode ==
  /\ Len(received) <= Len(sent)
  /\ \A i \in DOMAIN received : received[i] = Outcome(sent[i])
  /\ wire = <<>> /\ GetReceivedMessageSize(inBuffer) = 0
       => \/ Len(received) = Len(sent) /\ inBuffer = <<>>
          \/ parser = "failed"
  /\ parser = "failed"
       => Len(Encode(sent[Len(received) + 1])) - 4 > MaxMessageSize
  /\ \A i \in DOMAIN received : Len(Encode(sent[i])) - 4 <= MaxMessageSize
=============================================================================
