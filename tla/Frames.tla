-------------------------------- MODULE Frames --------------------------------
(***************************************************************************)
(* Commands, events and journal payloads that go through a channel as      *)
(* bytes.  The channel may cut the bytes short, let them run on into those *)
(* of the message before, change one of them, or mix two messages; it is   *)
(* not in the repository, what is there is a checksum against it.          *)
(***************************************************************************)
EXTENDS Codec

CONSTANTS
  CommandMessages,  \* ClientCommands that are sent, valid or not
  EventMessages,    \* MdEvents that are sent
  RecordMessages    \* SequencedCommands that are written

VARIABLES
  sent,      \* [kind, value]: the last message
  before,    \* the one before it
  expected,  \* FeedDecoder::expected_
  result     \* [error, value] of what was last decoded

frameVars == <<sent, before, expected, result>>

Messages ==
  [kind : {"command"}, value : CommandMessages]
    \cup [kind : {"event"}, value : EventMessages]
    \cup [kind : {"record"}, value : RecordMessages]

Encoded(m) ==
  CASE m.kind = "command" -> encode_client_command(m.value)
    [] m.kind = "event" -> encode_md_event(m.value)
    [] m.kind = "record" -> encode_sequenced_command_payload(m.value)

Decoded(kind, bytes) ==
  CASE kind = "command" -> decode_client_command(bytes)
    [] kind = "event" -> decode_md_event(bytes, expected)
    [] kind = "record" -> decode_sequenced_command_payload(bytes)

Nothing == Failure("nothing")

FramesInit ==
  /\ sent \in Messages
  /\ before = sent
  /\ expected = 1
  /\ result = Nothing

Send(m) ==
  /\ result # Nothing
  /\ m.kind = sent.kind
  /\ before' = sent
  /\ sent' = m
  /\ result' = Nothing
  /\ UNCHANGED expected

(* FeedDecoder::decode counts the events it returns. *)
Receive(bytes) ==
  /\ result = Nothing
  /\ result' = Decoded(sent.kind, bytes)
  /\ expected' = IF sent.kind = "event" /\ result'.error = "None"
                 THEN expected + 1 ELSE expected
  /\ UNCHANGED <<sent, before>>

Arrive == Receive(Encoded(sent))

CutShort == \E n \in 0 .. Len(Encoded(sent)) - 1 : Receive(SubSeq(Encoded(sent), 1, n))

RunOn ==
  \E n \in 1 .. Len(Encoded(before)) :
    Receive(Encoded(sent) \o SubSeq(Encoded(before), 1, n))

(* The payload of a record goes through no channel of its own. *)
Change ==
  /\ sent.kind # "record"
  /\ \E k \in 1 .. Len(Encoded(sent)) : Receive([Encoded(sent) EXCEPT ![k] = Noise])

Mix ==
  /\ sent.kind # "record"
  /\ \E n \in 1 .. Len(Encoded(sent)) - 1 :
       Receive(SubSeq(Encoded(sent), 1, n)
                 \o SubSeq(Encoded(before), n + 1, Len(Encoded(before))))

FramesNext ==
  (\E m \in Messages : Send(m)) \/ Arrive \/ CutShort \/ RunOn \/ Change \/ Mix

FramesSpec == FramesInit /\ [][FramesNext]_frameVars

-----------------------------------------------------------------------------
(***************************************************************************)
(* Whatever the channel does, what is decoded is field by field a message  *)
(* that was sent, and a command is valid; damage is answered with an error *)
(* (decode_client_command, decode_md_event).                               *)
(***************************************************************************)
DecodesWhatWasSent ==
  result.error = "None" =>
    /\ result.value \in {sent.value, before.value}
    /\ sent.kind = "command" => validate_client_command(result.value) = "None"
    /\ sent.kind = "event" => result.value.seq = expected - 1

(***************************************************************************)
(* Each of the two encoders of commands, and of events, makes the bytes    *)
(* that the other makes: a client may use either (the benchmark uses the   *)
(* _frame functions, the tests the others).                                *)
(***************************************************************************)
EncodersAgree ==
  /\ sent.kind = "command" =>
       encode_client_command_frame(sent.value) = encode_client_command(sent.value)
  /\ sent.kind = "event" =>
       encode_md_event_frame(sent.value) = encode_md_event(sent.value)

(***************************************************************************)
(* What arrives undamaged is decoded, unless it is a command that is not   *)
(* valid, which is refused for that reason, or an event out of order.      *)
(***************************************************************************)
UndamagedIsDecoded ==
  [][Arrive =>
       CASE sent.kind = "command" -> result'.error = validate_client_command(sent.value)
         [] sent.kind = "event" ->
              result'.error = "None" <=> sent.value.seq = expected
         [] sent.kind = "record" -> result' = Success(sent.value)]_frameVars
=============================================================================
