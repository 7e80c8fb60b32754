-------------------------------- MODULE Codec --------------------------------
(***************************************************************************)
(* How commands, market data events and journal records become bytes and   *)
(* come back (util/codec.hpp, order_entry.cpp, market_data.cpp and the     *)
(* payloads of journal.cpp).                                               *)
(*                                                                         *)
(* A byte is <<of, value, n, k>>: byte k of the n that hold a value.  Two  *)
(* values of one width are then equal if their bytes are, as they are for  *)
(* the code, and bytes read at a wrong place or width make no value.  The  *)
(* fnv1a64 of a payload is a value that no other payload has: collisions   *)
(* of the hash are left out.  An enumerator is its number, a message of a  *)
(* DecodeError is left out.                                                *)
(***************************************************************************)
EXTENDS Integers, Sequences

LOCAL INSTANCE SequencesExt   \* FlattenSeq, FoldLeft

(* The numbers that begin a frame, as the code writes them. *)
kProtocolMagic == 1163416393
kProtocolVersion == 1
kMdMagic == 1296323401
kMdVersion == 1

kFrameHeaderBytes == 4 + 2 + 2 + 8

(* What bytes that hold no number are read as. *)
Garbled == -99

(* A byte that was changed on the way. *)
Noise == <<"noise", 0, 0, 0>>

(* A byte of an array that nothing was written to. *)
Zero == <<"zero", 0, 0, 0>>

-----------------------------------------------------------------------------
(* Writer and Reader. *)

Pod(value, n) == [k \in 1 .. n |-> <<"number", value, n, k>>]

fnv1a64(payload) == [k \in 1 .. 8 |-> <<"fnv1a64", payload, 8, k>>]

(* The pods of fields, a sequence of values and widths, one after another. *)
Written(fields) == FlattenSeq([k \in DOMAIN fields |-> Pod(fields[k][1], fields[k][2])])

(* put: the array with bytes from position pos on. *)
Put(array, pos, bytes) ==
  [k \in DOMAIN array |-> IF k - pos \in DOMAIN bytes THEN bytes[k - pos] ELSE array[k]]

(* What pod() makes of the bytes at a place. *)
Number(bytes) ==
  IF bytes = Pod(bytes[1][2], Len(bytes)) THEN bytes[1][2] ELSE Garbled

WidthOf(layout) == FoldLeft(LAMBDA n, field : n + field[2], 0, layout)

(* Every pod() of layout, a sequence of names and widths, finds its bytes,  *)
(* and none remain.                                                         *)
Fits(in, layout) == Len(in) = WidthOf(layout)

(* The fields of layout as a record. *)
Parsed(in, layout) ==
  [f \in {layout[k][1] : k \in DOMAIN layout} |->
     LET k == CHOOSE k \in DOMAIN layout : layout[k][1] = f
         from == WidthOf(SubSeq(layout, 1, k - 1))
     IN  Number(SubSeq(in, from + 1, from + layout[k][2]))]

-----------------------------------------------------------------------------
(* Frames: magic, version, length and checksum, then the payload. *)

Header(magic, version, size) == Written(<< <<magic, 4>>, <<version, 2>>, <<size, 2>> >>)

(* Mutant: the length is that of the whole frame. *)
FramedWithHeader(magic, version, fields) ==
  LET payload == Written(fields)
  IN  Header(magic, version, Len(payload) + kFrameHeaderBytes)
        \o fnv1a64(payload) \o payload

(* encode_...: the payload is written to a buffer and appended. *)
Framed(magic, version, fields) ==
  LET payload == Written(fields)
  IN  Header(magic, version, Len(payload)) \o fnv1a64(payload) \o payload

(* encode_..._frame: everything is put into an array of size payload bytes. *)
FramedInPlace(magic, version, size, fields) ==
  LET array == [k \in 1 .. kFrameHeaderBytes + size |-> Zero]
      filled == Put(array, kFrameHeaderBytes, Written(fields))
      payload == SubSeq(filled, kFrameHeaderBytes + 1, kFrameHeaderBytes + size)
  IN  Put(Put(filled, 0, Header(magic, version, size)), 8, fnv1a64(payload))

PayloadOf(frame) == SubSeq(frame, kFrameHeaderBytes + 1, Len(frame))

(* Mutant: the checksum is not compared. *)
OpensUnchecked(frame, magic, version) ==
  /\ Len(frame) >= kFrameHeaderBytes
  /\ SubSeq(frame, 1, 8) = Header(magic, version, Len(PayloadOf(frame)))

(* What decode_... asks of a frame before it looks into the payload. *)
Opens(frame, magic, version) ==
  /\ Len(frame) >= kFrameHeaderBytes
  /\ SubSeq(frame, 1, 8) = Header(magic, version, Len(PayloadOf(frame)))
  /\ SubSeq(frame, 9, 16) = fnv1a64(PayloadOf(frame))

-----------------------------------------------------------------------------
(* Order entry. *)

kClientCommandPayloadBytes == 1 + 8 + 8 + 8 + 4 + 4 + 1 + 8 + 4 + 1 + 8

CommandFields(cmd) ==
  << <<cmd.type, 1>>, <<cmd.client_order_id, 8>>, <<cmd.order_id, 8>>,
     <<cmd.cancel_order_id, 8>>, <<cmd.account_id, 4>>, <<cmd.symbol_id, 4>>,
     <<cmd.side, 1>>, <<cmd.price, 8>>, <<cmd.qty, 4>>, <<cmd.tif, 1>>,
     <<cmd.client_ts_ns, 8>> >>

encode_client_command(cmd) ==
  Framed(kProtocolMagic, kProtocolVersion, CommandFields(cmd))

(* Mutant: account and symbol change places in one of the two encoders. *)
FieldsSwapped(cmd) ==
  CommandFields([cmd EXCEPT !.account_id = cmd.symbol_id, !.symbol_id = cmd.account_id])

(* The fields as encode_client_command_frame puts them, one by one. *)
CommandFieldsInPlace(cmd) ==
  << <<cmd.type, 1>>, <<cmd.client_order_id, 8>>, <<cmd.order_id, 8>>,
     <<cmd.cancel_order_id, 8>>, <<cmd.account_id, 4>>, <<cmd.symbol_id, 4>>,
     <<cmd.side, 1>>, <<cmd.price, 8>>, <<cmd.qty, 4>>, <<cmd.tif, 1>>,
     <<cmd.client_ts_ns, 8>> >>

encode_client_command_frame(cmd) ==
  FramedInPlace(kProtocolMagic, kProtocolVersion, kClientCommandPayloadBytes,
                CommandFieldsInPlace(cmd))

CommandLayout ==
  << <<"type", 1>>, <<"client_order_id", 8>>, <<"order_id", 8>>, <<"cancel_order_id", 8>>,
     <<"account_id", 4>>, <<"symbol_id", 4>>, <<"side", 1>>, <<"price", 8>>,
     <<"qty", 4>>, <<"tif", 1>>, <<"client_ts_ns", 8>> >>

validate_client_command(cmd) ==
  LET terms == IF cmd.qty = 0 THEN "InvalidQty"
               ELSE IF cmd.price <= 0 THEN "InvalidPrice" ELSE "None"
  IN  IF cmd.account_id = 0 THEN "Malformed"
      ELSE IF cmd.symbol_id = 0 THEN "InvalidSymbol"
      ELSE IF cmd.type \notin 1 .. 3 \/ cmd.side \notin 1 .. 2 \/ cmd.tif \notin 1 .. 2
           THEN "Malformed"
      ELSE CASE cmd.type = 1 -> IF cmd.order_id = 0 THEN "Malformed" ELSE terms
             [] cmd.type = 2 -> IF cmd.cancel_order_id = 0 THEN "UnknownOrder" ELSE "None"
             [] cmd.type = 3 -> IF cmd.cancel_order_id = 0 \/ cmd.order_id = 0
                                THEN "UnknownOrder" ELSE terms

(* [error, value]: the value is there when the error is "None". *)
Failure(error) == [error |-> error, value |-> [none |-> 0]]

Success(value) == [error |-> "None", value |-> value]

decode_client_command(frame) ==
  IF ~ Opens(frame, kProtocolMagic, kProtocolVersion)
     \/ ~ Fits(PayloadOf(frame), CommandLayout)
  THEN Failure("Malformed")
  ELSE LET cmd == Parsed(PayloadOf(frame), CommandLayout)
           error == validate_client_command(cmd)
       IN  IF error # "None" THEN Failure(error) ELSE Success(cmd)

-----------------------------------------------------------------------------
(* Market data. *)

kMdPayloadBytes == 8 + 1 + 4 + 8 + 8 + 4 + 1 + 8 + 4 + 1

EventFields(ev) ==
  << <<ev.seq, 8>>, <<ev.type, 1>>, <<ev.symbol_id, 4>>, <<ev.order_id, 8>>,
     <<ev.new_order_id, 8>>, <<ev.account_id, 4>>, <<ev.side, 1>>, <<ev.price, 8>>,
     <<ev.qty, 4>>, <<ev.reason, 1>> >>

encode_md_event(ev) == Framed(kMdMagic, kMdVersion, EventFields(ev))

EventFieldsInPlace(ev) ==
  << <<ev.seq, 8>>, <<ev.type, 1>>, <<ev.symbol_id, 4>>, <<ev.order_id, 8>>,
     <<ev.new_order_id, 8>>, <<ev.account_id, 4>>, <<ev.side, 1>>, <<ev.price, 8>>,
     <<ev.qty, 4>>, <<ev.reason, 1>> >>

encode_md_event_frame(ev) ==
  FramedInPlace(kMdMagic, kMdVersion, kMdPayloadBytes, EventFieldsInPlace(ev))

EventLayout ==
  << <<"seq", 8>>, <<"type", 1>>, <<"symbol_id", 4>>, <<"order_id", 8>>,
     <<"new_order_id", 8>>, <<"account_id", 4>>, <<"side", 1>>, <<"price", 8>>,
     <<"qty", 4>>, <<"reason", 1>> >>

decode_md_event(frame, expected) ==
  IF ~ Opens(frame, kMdMagic, kMdVersion) \/ ~ Fits(PayloadOf(frame), EventLayout)
  THEN Failure("Malformed")
  ELSE LET ev == Parsed(PayloadOf(frame), EventLayout)
       IN  IF ev.seq # expected THEN Failure("feed gap") ELSE Success(ev)

-----------------------------------------------------------------------------
(* The payload of a journal record. *)

SequencedFields(sc) ==
  << <<sc.seq, 8>>, <<sc.recv_ts_ns, 8>> >> \o CommandFields(sc.cmd)

encode_sequenced_command_payload(sc) == Written(SequencedFields(sc))

SequencedLayout == << <<"seq", 8>>, <<"recv_ts_ns", 8>> >> \o CommandLayout

decode_sequenced_command_payload(payload) ==
  IF ~ Fits(payload, SequencedLayout) THEN Failure("Malformed")
  ELSE LET all == Parsed(payload, SequencedLayout)
       IN  Success([seq |-> all.seq, recv_ts_ns |-> all.recv_ts_ns,
                    cmd |-> [f \in DOMAIN all \ {"seq", "recv_ts_ns"} |-> all[f]]])
=============================================================================
