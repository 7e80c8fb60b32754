---------------------------- MODULE JournalProofs ----------------------------
(***************************************************************************)
(* What JournalFile promises of a reader, for records and sizes of any     *)
(* kind.  The invariant adds to the properties that what a reader is owed  *)
(* stays in the file while it reads, and that what it holds of a file that *)
(* was truncated is of a record that was in it.                            *)
(***************************************************************************)
EXTENDS JournalFile, TLAPS

OwedIsThere ==
  /\ owed <= stream.units
  /\ reader.state = "none" => reader = NoReader /\ overwritten = {}
  /\ reader.state # "done" => reader.error = "None"
  /\ overwritten = {} => reader.held = NoBytes
  /\ reader.state = "reading" /\ overwritten = {} => Len(reader.records) < stream.units

(* A record of a run that was truncated or of this one is number k of it. *)
IsRecord(k, record, runs) ==
  \E run \in runs : k \in 1 .. Len(run) /\ record = run[k]

HeldIsOld ==
  reader.held.bytes > 0 => IsRecord(NextUnit(reader), reader.held.record, overwritten)

IInv ==
  /\ JournalTypeOK
  /\ ReadsWhatWasAppended
  /\ FlushedReadsBack
  /\ OwedIsThere
  /\ HeldIsOld

(* An empty piece is a piece, and no reader is a reader. *)
LEMMA NoReaderFits ==
  /\ NoBytes \in Pieces /\ NoBytes.bytes = 0
  /\ NoReader \in Readers /\ NoReader.records = <<>> /\ NoReader.state = "none"
  /\ NoReader.error = "None" /\ NoReader.held = NoBytes
BY DEF NoReader, NoBytes, Pieces, Readers, JournalErrors

(* The empty file of a new stream and no reader satisfy the invariant. *)
LEMMA InitHolds == JournalInit => IInv
<1> SUFFICES ASSUME JournalInit PROVE IInv
  OBVIOUS
<1> USE SizeAssumption DEF JournalInit, OpenedStream
<1>1. /\ stream \in Streams /\ stream.units = 0 /\ stream.records = <<>>
      /\ stream.tail = 0
  BY DEF Streams
<1>2. JournalTypeOK
  BY <1>1, NoReaderFits DEF JournalTypeOK
<1> QED
  BY <1>1, <1>2, NoReaderFits
  DEF IInv, ReadsWhatWasAppended, FlushedReadsBack, OwedIsThere, HeldIsOld

(* A stream is its fields. *)
LEMMA StreamFields ==
  ASSUME NEW s, NEW records \in Seq(Records), NEW units \in Nat, NEW tail \in Nat,
         NEW state \in {"good", "bad"},
         s = [records |-> records, units |-> units, tail |-> tail, state |-> state]
  PROVE  /\ s \in Streams
         /\ s.records = records /\ s.units = units /\ s.tail = tail /\ s.state = state
BY DEF Streams

(* A reader is its fields. *)
LEMMA ReaderFields ==
  ASSUME NEW r, NEW records \in Seq(Records \cup {NoRecord}), NEW held \in Pieces,
         NEW state \in {"none", "reading", "done"}, NEW error \in JournalErrors,
         r = [state |-> state, records |-> records, held |-> held, error |-> error]
  PROVE  /\ r \in Readers
         /\ r.records = records /\ r.state = state /\ r.error = error /\ r.held = held
BY DEF Readers

(***************************************************************************)
(* Any step that leaves the reader and what it is owed alone, keeps or     *)
(* grows the file and keeps the records as a prefix keeps the invariant.   *)
(***************************************************************************)
LEMMA GrowingKeepsInv ==
  ASSUME IInv, UNCHANGED <<reader, owed, overwritten>>,
         stream' \in Streams, stream'.units >= stream.units,
         stream'.units <= Len(stream'.records) + 1,
         stream'.units = Len(stream'.records) + 1 => stream'.tail = 0,
         stream'.tail < RecordBytes,
         Len(stream'.records) >= Len(stream.records),
         \A k \in 1 .. Len(stream.records) : stream'.records[k] = stream.records[k],
         damage' \subseteq Nat \X Parts, damage' = {} => damage = {},
         flushed' \in Nat, flushed' <= stream'.units
  PROVE  IInv'
<1>1. /\ stream \in Streams /\ reader \in Readers /\ owed \in Nat
      /\ Len(stream.records) \in Nat /\ Len(stream'.records) \in Nat
      /\ Len(reader.records) \in Nat
      /\ stream.units \in Nat /\ stream'.units \in Nat
  BY DEF IInv, JournalTypeOK, Streams, Readers
<1>2. JournalTypeOK'
  BY <1>1 DEF IInv, JournalTypeOK, Streams, Readers
<1>3. ReadsWhatWasAppended'
  <2> SUFFICES ASSUME NEW k \in 1 .. Len(reader.records)
               PROVE  IsRecord(k, reader.records[k], overwritten \cup {stream'.records})
    BY DEF ReadsWhatWasAppended, IsRecord
  <2>1. PICK past \in overwritten \cup {stream.records} :
          k \in 1 .. Len(past) /\ reader.records[k] = past[k]
    BY DEF IInv, ReadsWhatWasAppended
  <2>2. CASE past \in overwritten
    BY <2>1, <2>2 DEF IsRecord
  <2>3. CASE past = stream.records
    <3>1. k \in 1 .. Len(stream'.records) /\ reader.records[k] = stream'.records[k]
      BY <1>1, <2>1, <2>3
    <3> QED
      BY <3>1 DEF IsRecord
  <2> QED
    BY <2>1, <2>2, <2>3
<1>4. OwedIsThere' /\ HeldIsOld'
  BY <1>1 DEF IInv, OwedIsThere, HeldIsOld
<1>5. FlushedReadsBack'
  <2> SUFFICES ASSUME reader.state = "done", damage = {}, overwritten = {}, owed > 0
               PROVE  /\ Len(reader.records) >= owed - 1
                      /\ owed = Len(stream'.records) + 1 => reader.error = "None"
    BY DEF FlushedReadsBack
  <2>1. owed <= Len(stream.records) + 1
    BY <1>1 DEF IInv, OwedIsThere, JournalTypeOK
  <2> QED
    BY <1>1, <2>1 DEF IInv, FlushedReadsBack
<1> QED
  BY <1>2, <1>3, <1>4, <1>5 DEF IInv

(* What a reader may hold of a file that is truncated is of a record in it. *)
LEMMA HoldingsFit ==
  ASSUME IInv, NEW held \in Holdings(reader, stream, damage)
  PROVE  /\ held \in Pieces /\ held.bytes < RecordBytes
         /\ held.bytes > 0 =>
              IsRecord(NextUnit(reader), held.record, overwritten \cup {stream.records})
<1> DEFINE k == NextUnit(reader)
           n == Len(stream.records)
<1>1. /\ stream \in Streams /\ reader \in Readers /\ n \in Nat
      /\ stream.units \in Nat /\ stream.tail \in Nat /\ stream.units <= n + 1
      /\ stream.units = n + 1 => stream.tail = 0
      /\ reader.held \in Pieces /\ reader.held.bytes \in Nat
      /\ reader.held.bytes < RecordBytes
      /\ damage \in SUBSET (Nat \X Parts)
      /\ stream.records \in Seq(Records)
      /\ k \in Nat /\ k > 0
  BY DEF IInv, JournalTypeOK, Streams, Readers, Pieces, NextUnit
<1>2. CASE held = reader.held
  BY <1>1, <1>2 DEF IInv, HeldIsOld, IsRecord
<1>3. CASE held # reader.held
  <2>1. PICK b \in reader.held.bytes + 1 .. RecordBytes - 1 :
          /\ b <= BytesOf(stream, k)
          /\ held = [bytes |-> b, record |-> stream.records[k], damage |-> damage]
    BY <1>3 DEF Holdings
  <2>2. b \in Nat /\ b > 0 /\ b < RecordBytes
    BY <1>1, <2>1, SizeAssumption
  <2>3. k \in 1 .. n
    BY <1>1, <2>1, <2>2 DEF BytesOf
  <2>4. stream.records[k] \in Records
    BY <1>1, <2>3
  <2>5. held \in Pieces /\ held.bytes = b /\ held.record = stream.records[k]
    BY <1>1, <2>1, <2>2, <2>4 DEF Pieces
  <2> QED
    BY <2>2, <2>3, <2>5 DEF IsRecord
<1> QED
  BY <1>2, <1>3

(* A step of the writer, or of the world around the file. *)
LEMMA WriterKeepsInv == ASSUME IInv, WriterNext PROVE IInv'
<1> USE SizeAssumption
<1> DEFINE n == Len(stream.records)
<1>1. /\ stream \in Streams /\ reader \in Readers /\ owed \in Nat
      /\ n \in Nat /\ stream.units \in Nat /\ stream.tail \in Nat
      /\ flushed \in Nat /\ flushed <= stream.units
      /\ stream.units <= n + 1
      /\ stream.units = n + 1 => stream.tail = 0
      /\ stream.tail < RecordBytes
      /\ damage \subseteq Nat \X Parts
  BY DEF IInv, JournalTypeOK, Streams, Readers
<1>2. ASSUME NEW record \in Records, AppendRecord(record) PROVE IInv'
  <2>1. CASE stream.state = "good"
    <3>1. stream' = [stream EXCEPT !.records = Append(@, record)]
      BY <1>2, <2>1 DEF AppendRecord, Appended
    <3>a. /\ stream' = [records |-> Append(stream.records, record), units |-> stream.units,
                          tail |-> stream.tail, state |-> stream.state]
      BY <1>1, <3>1 DEF Streams
    <3>b. /\ stream.records \in Seq(Records) /\ stream.state \in {"good", "bad"}
          /\ Append(stream.records, record) \in Seq(Records)
      BY <1>1, <1>2 DEF Streams
    <3>2. /\ stream' \in Streams /\ stream'.records = Append(stream.records, record)
          /\ stream'.units = stream.units /\ stream'.tail = stream.tail
      BY <1>1, <3>a, <3>b, StreamFields
    <3>3. /\ Len(stream'.records) = n + 1
          /\ \A k \in 1 .. n : stream'.records[k] = stream.records[k]
      BY <1>1, <3>2 DEF Streams
    <3> QED
      BY <1>1, <1>2, <3>2, <3>3, GrowingKeepsInv DEF AppendRecord
  <2>2. CASE stream.state # "good"
    <3>1. UNCHANGED journalVars
      BY <1>2, <2>2 DEF AppendRecord, Appended, journalVars
    <3> QED
      BY <1>1, <3>1, GrowingKeepsInv DEF journalVars
  <2> QED
    BY <2>1, <2>2
<1>3. CASE Drain
  <2>1. PICK units \in 0 .. n + 1, tail \in 0 .. RecordBytes - 1 :
          /\ Grown(stream, units, tail)
          /\ stream' = [stream EXCEPT !.units = units, !.tail = tail]
    BY <1>3 DEF Drain
  <2>a. /\ stream' = [records |-> stream.records, units |-> units, tail |-> tail,
                        state |-> stream.state]
        /\ stream.records \in Seq(Records) /\ stream.state \in {"good", "bad"}
    BY <1>1, <2>1 DEF Streams
  <2>b. units \in Nat /\ tail \in Nat /\ tail < RecordBytes /\ units <= n + 1
    BY <1>1
  <2>2. /\ stream' \in Streams /\ stream'.records = stream.records
        /\ stream'.units = units /\ stream'.tail = tail
    BY <2>a, <2>b, StreamFields
  <2>3. /\ stream'.units >= stream.units
        /\ stream'.units = n + 1 => stream'.tail = 0
    BY <1>1, <2>1, <2>2, <2>b DEF Grown
  <2> QED
    BY <1>1, <1>3, <2>2, <2>3, <2>b, GrowingKeepsInv DEF Drain
<1>4. CASE Flush \/ Close
  <2>1. CASE stream.state = "good"
    <3>a. PICK state \in {"good", "bad"} :
             stream' = [stream EXCEPT !.units = n + 1, !.tail = 0, !.state = state]
      <4>1. CASE Flush
        <5>1. stream' = [stream EXCEPT !.units = n + 1, !.tail = 0]
          BY <4>1, <2>1 DEF Flush, Flushed
        <5> QED
          BY <1>1, <2>1, <5>1 DEF Streams
      <4>2. CASE Close
        <5>1. stream' = [[stream EXCEPT !.units = n + 1, !.tail = 0] EXCEPT !.state = "bad"]
          BY <4>2, <2>1 DEF Close, Flushed
        <5> QED
          BY <1>1, <5>1 DEF Streams
      <4> QED
        BY <1>4, <4>1, <4>2
    <3>b. /\ stream' = [records |-> stream.records, units |-> n + 1, tail |-> 0,
                          state |-> state]
          /\ stream.records \in Seq(Records)
      BY <1>1, <3>a DEF Streams
    <3>1. /\ stream' \in Streams /\ stream'.records = stream.records
          /\ stream'.units = n + 1 /\ stream'.tail = 0
      <4>1. n + 1 \in Nat /\ 0 \in Nat
        BY <1>1
      <4> QED
        BY <3>b, <4>1, StreamFields
    <3>2. flushed' = n + 1
      BY <1>4, <2>1 DEF Flush, Close
    <3> QED
      BY <1>1, <1>4, <3>1, <3>2, GrowingKeepsInv DEF Flush, Close
  <2>2. CASE stream.state # "good"
    <3>1. UNCHANGED journalVars
      BY <1>4, <2>2 DEF Flush, Close, Flushed, journalVars
    <3> QED
      BY <1>1, <3>1, GrowingKeepsInv DEF journalVars
  <2> QED
    BY <2>1, <2>2
<1>5. CASE Break
  <2>1. /\ stream' \in Streams /\ stream'.records = stream.records
        /\ stream'.units = stream.units /\ stream'.tail = stream.tail
    BY <1>1, <1>5 DEF Break, Streams
  <2> QED
    BY <1>1, <1>5, <2>1, GrowingKeepsInv DEF Break
<1>6. CASE LosePower
  <2>1. PICK units \in 0 .. stream.units, tail \in 0 .. RecordBytes - 1 :
          /\ Shrunk(stream, units, tail)
          /\ stream' = [stream EXCEPT !.units = units, !.tail = tail, !.state = "bad"]
    BY <1>6 DEF LosePower
  <2>a. /\ stream' = [records |-> stream.records, units |-> units, tail |-> tail,
                        state |-> "bad"]
        /\ stream.records \in Seq(Records)
    BY <1>1, <2>1 DEF Streams
  <2>b. /\ units \in Nat /\ units <= stream.units
        /\ tail \in Nat /\ tail < RecordBytes
    BY <1>1
  <2>2. /\ stream' \in Streams /\ stream'.records = stream.records
        /\ stream'.units = units /\ stream'.tail = tail
    BY <2>a, <2>b, StreamFields
  <2>3. /\ reader' = NoReader /\ flushed' = 0 /\ owed' = 0 /\ overwritten' = {}
        /\ UNCHANGED damage
    BY <1>6 DEF LosePower
  <2>4. stream'.units = n + 1 => stream'.tail = 0
    BY <1>1, <2>1, <2>2, <2>b DEF Shrunk
  <2>5. JournalTypeOK'
    BY <1>1, <2>b, <2>2, <2>3, <2>4, NoReaderFits DEF JournalTypeOK
  <2> QED
    BY <2>b, <2>2, <2>3, <2>5, NoReaderFits
    DEF IInv, ReadsWhatWasAppended, FlushedReadsBack, OwedIsThere, HeldIsOld
<1>7. ASSUME NEW unit \in 0 .. MaxRecords, NEW part \in Parts, Damage(unit, part)
      PROVE  IInv'
  BY <1>1, <1>7, GrowingKeepsInv DEF Damage
<1>8. ASSUME NEW state \in {"good", "bad"}, Reopen(state) PROVE IInv'
  <2>1. /\ stream' \in Streams /\ stream'.records = <<>>
        /\ stream'.units = 0 /\ stream'.tail = 0
    BY <1>8 DEF Reopen, OpenedStream, Streams
  <2>2. damage' = {} /\ flushed' = 0 /\ owed' = 0
    BY <1>8 DEF Reopen
  <2>3. PICK held \in Holdings(reader, stream, damage) :
          reader' = [reader EXCEPT !.held = held]
    BY <1>8 DEF Reopen
  <2>4. /\ held \in Pieces /\ held.bytes < RecordBytes
        /\ held.bytes > 0 =>
             IsRecord(NextUnit(reader), held.record, overwritten \cup {stream.records})
    BY <2>3, HoldingsFit
  <2>5. /\ reader' \in Readers /\ reader'.held = held /\ reader'.state = reader.state
        /\ reader'.records = reader.records /\ reader'.error = reader.error
    BY <1>1, <2>3, <2>4 DEF Readers
  <2>6. CASE reader.state = "none"
    <3>1. overwritten' = {} /\ reader = NoReader
      BY <1>8, <2>6 DEF Reopen, IInv, OwedIsThere
    <3>2. held = NoBytes
      BY <2>3, <2>6, <3>1, NoReaderFits DEF Holdings
    <3>3. reader' = NoReader
      BY <2>3, <3>1, <3>2 DEF NoReader
    <3>4. JournalTypeOK'
      BY <2>1, <2>2, <3>1, <3>3, NoReaderFits DEF JournalTypeOK
    <3> QED
      BY <2>1, <2>2, <3>1, <3>3, <3>4, NoReaderFits
      DEF IInv, ReadsWhatWasAppended, FlushedReadsBack, OwedIsThere, HeldIsOld
  <2>7. CASE reader.state # "none"
    <3>1. /\ overwritten' = overwritten \cup {stream.records} /\ overwritten' # {}
          /\ overwritten' \subseteq Seq(Records)
      BY <1>1, <1>8, <2>7 DEF Reopen, IInv, JournalTypeOK, Streams
    <3>2. JournalTypeOK'
      BY <2>1, <2>2, <2>4, <2>5, <3>1 DEF JournalTypeOK
    <3>3. ReadsWhatWasAppended'
      BY <2>5, <3>1 DEF IInv, ReadsWhatWasAppended
    <3>4. HeldIsOld'
      BY <2>4, <2>5, <3>1 DEF HeldIsOld, NextUnit
    <3> QED
      BY <2>1, <2>2, <2>5, <2>7, <3>1, <3>2, <3>3, <3>4
      DEF IInv, FlushedReadsBack, OwedIsThere
  <2> QED
    BY <2>6, <2>7
<1> QED
  BY <1>2, <1>3, <1>4, <1>5, <1>6, <1>7, <1>8 DEF WriterNext

(* Bytes that are read without an error are all those of their record. *)
LEMMA ContentIsAppended ==
  ASSUME NEW bytes \in Nat, NEW d, NEW k, NEW record, RecordError(bytes, d, k) = "None"
  PROVE  bytes >= RecordBytes /\ Content(bytes, d, k, record) = record
<1>1. ~ (bytes < RecordBytes)
  BY SizeAssumption DEF RecordError
<1>2. /\ <<k, "magic">> \notin d
      /\ <<k, "length past the end">> \notin d
      /\ <<k, "length">> \notin d
      /\ <<k, "checksum">> \notin d
      /\ <<k, "payload">> \notin d
  BY DEF RecordError
<1>3. ~ \E part \in Parts : <<k, part>> \in d
  BY <1>2 DEF Parts
<1>4. Content(bytes, d, k, record) = record
  BY <1>1, <1>3 DEF Content
<1> QED
  BY <1>1, <1>4, SizeAssumption

(* What the reader's bytes are made of. *)
LEMMA BytesAreThere ==
  ASSUME IInv
  PROVE  /\ NextUnit(reader) \in Nat /\ NextUnit(reader) > 0
         /\ BytesOf(stream, NextUnit(reader)) \in Nat
         /\ BytesFor(reader, stream) \in Nat
         /\ BytesFor(reader, stream) >= RecordBytes =>
              /\ NextUnit(reader) < stream.units
              /\ NextUnit(reader) \in 1 .. Len(stream.records)
         /\ overwritten = {} =>
              /\ reader.held.bytes = 0
              /\ BytesFor(reader, stream) = BytesOf(stream, NextUnit(reader))
<1> DEFINE k == NextUnit(reader)
<1>1. /\ stream \in Streams /\ reader \in Readers /\ reader.held.bytes \in Nat
      /\ reader.held.bytes < RecordBytes /\ stream.tail < RecordBytes
      /\ stream.units \in Nat /\ stream.tail \in Nat /\ Len(stream.records) \in Nat
      /\ stream.units <= Len(stream.records) + 1
  BY DEF IInv, JournalTypeOK, Streams, Readers, Pieces
<1>2. k \in Nat /\ k > 0
  BY <1>1 DEF NextUnit, Readers
<1>3. BytesOf(stream, k) \in Nat
  BY <1>1, SizeAssumption DEF BytesOf
<1>4. BytesOf(stream, k) >= RecordBytes => k < stream.units
  BY <1>1, SizeAssumption DEF BytesOf
<1>5. overwritten = {} => reader.held.bytes = 0
  BY NoReaderFits DEF IInv, OwedIsThere
<1> HIDE DEF k
<1>6. /\ BytesFor(reader, stream) \in Nat
      /\ BytesFor(reader, stream) >= RecordBytes => BytesOf(stream, k) >= RecordBytes
      /\ reader.held.bytes = 0 => BytesFor(reader, stream) = BytesOf(stream, k)
  BY <1>1, <1>3, SizeAssumption DEF BytesFor, k
<1>7. k < stream.units => k \in 1 .. Len(stream.records)
  BY <1>1, <1>2
<1> QED
  BY <1>2, <1>3, <1>4, <1>5, <1>6, <1>7 DEF k

(* Bytes are judged as this file's, as those held, or fail the checksum. *)
LEMMA JudgedAs ==
  ASSUME NEW j \in Judgements(reader, stream, damage)
  PROVE  \/ j = Judged(BytesFor(reader, stream), damage, NextUnit(reader),
                       stream.records[NextUnit(reader)])
         \/ /\ reader.held.bytes # 0
            /\ \/ j = Judged(BytesFor(reader, stream), reader.held.damage, NextUnit(reader),
                             reader.held.record)
               \/ j = [error |-> "record checksum mismatch", record |-> NoRecord]
<1>1. CASE reader.held.bytes = 0
  BY ONLY <1>1, j \in Judgements(reader, stream, damage) DEF Judgements
<1>2. CASE reader.held.bytes # 0
  BY ONLY <1>2, j \in Judgements(reader, stream, damage) DEF Judgements
<1> QED
  BY ONLY <1>1, <1>2

(***************************************************************************)
(* What next() takes for a record is one, of this run or of one whose      *)
(* bytes it held; of a file that was not truncated, the next one.          *)
(***************************************************************************)
LEMMA JudgedIsAppended ==
  ASSUME IInv, NEW j \in Judgements(reader, stream, damage), j.error = "None"
  PROVE  /\ IsRecord(NextUnit(reader), j.record, overwritten \cup {stream.records})
         /\ overwritten = {} => /\ j.record = stream.records[NextUnit(reader)]
                                /\ NextUnit(reader) < stream.units
<1> DEFINE k == NextUnit(reader)
           bytes == BytesFor(reader, stream)
<1>1. bytes \in Nat
  BY BytesAreThere
<1>2. CASE j = Judged(bytes, damage, k, stream.records[k])
  <2>1. bytes >= RecordBytes /\ j.record = stream.records[k]
    BY <1>1, <1>2, ContentIsAppended DEF Judged
  <2>2. k < stream.units /\ k \in 1 .. Len(stream.records)
    BY <2>1, BytesAreThere
  <2> QED
    BY <2>1, <2>2 DEF IsRecord
<1>3. CASE reader.held.bytes # 0 /\ j = Judged(bytes, reader.held.damage, k, reader.held.record)
  <2>1. j.record = reader.held.record
    BY <1>1, <1>3, ContentIsAppended DEF Judged
  <2>2. reader.held.bytes > 0
    BY <1>3 DEF IInv, JournalTypeOK, Readers, Pieces
  <2>3. IsRecord(k, reader.held.record, overwritten)
    BY <2>2 DEF IInv, HeldIsOld
  <2> QED
    BY <1>3, <2>1, <2>3, BytesAreThere DEF IsRecord
<1>4. CASE j = [error |-> "record checksum mismatch", record |-> NoRecord]
  BY <1>4
<1> QED
  BY <1>2, <1>3, <1>4, JudgedAs

(* Its errors are among those declared. *)
LEMMA JudgedFits ==
  ASSUME NEW j \in Judgements(reader, stream, damage) PROVE j.error \in JournalErrors
<1>1. ASSUME NEW bytes, NEW d, NEW k PROVE RecordError(bytes, d, k) \in JournalErrors
  BY DEF RecordError, JournalErrors
<1> QED
  <2>1. ASSUME NEW bytes, NEW d, NEW k, NEW record
        PROVE  Judged(bytes, d, k, record).error \in JournalErrors
    BY <1>1 DEF Judged
  <2>2. CASE j = [error |-> "record checksum mismatch", record |-> NoRecord]
    BY ONLY <2>2 DEF JournalErrors
  <2> QED
    BY <2>1, <2>2, JudgedAs

(* At the end, or past it: no record of the file was left out. *)
LEMMA EndIsEnd ==
  ASSUME IInv, AtEnd(reader, stream)
  PROVE  /\ stream.units <= NextUnit(reader)
         /\ stream.units = NextUnit(reader) => stream.tail < MagicBytes
         /\ reader.held.bytes < MagicBytes
<1>1. /\ stream.units \in Nat /\ stream.tail \in Nat /\ reader.held.bytes \in Nat
      /\ NextUnit(reader) \in Nat /\ BytesOf(stream, NextUnit(reader)) \in Nat
  BY BytesAreThere DEF IInv, JournalTypeOK, Streams, Readers, Pieces
<1>2. reader.held.bytes < MagicBytes /\ BytesOf(stream, NextUnit(reader)) < MagicBytes
  BY <1>1, SizeAssumption DEF AtEnd, BytesFor
<1> QED
  BY <1>1, <1>2, SizeAssumption DEF BytesOf

(* A step of the reader. *)
LEMMA ReaderKeepsInv == ASSUME IInv, ReaderNext PROVE IInv'
<1> USE SizeAssumption
<1> DEFINE n == Len(stream.records)
<1>1. /\ stream \in Streams /\ reader \in Readers /\ owed \in Nat
      /\ n \in Nat /\ stream.units \in Nat /\ stream.tail \in Nat
      /\ flushed \in Nat /\ flushed <= stream.units
      /\ stream.units <= n + 1
      /\ stream.units = n + 1 => stream.tail = 0
      /\ Len(reader.records) \in Nat
  BY DEF IInv, JournalTypeOK, Streams, Readers
<1>2. CASE CloseReader
  <2>1. reader' = NoReader /\ owed' = 0 /\ overwritten' = {}
        /\ UNCHANGED <<stream, damage, flushed>>
    BY <1>2 DEF CloseReader
  <2>2. JournalTypeOK'
    BY <2>1, NoReaderFits DEF IInv, JournalTypeOK
  <2> QED
    BY <1>1, <2>1, <2>2, NoReaderFits
    DEF IInv, ReadsWhatWasAppended, FlushedReadsBack, OwedIsThere, HeldIsOld
<1>3. CASE StartReading
  <2>1. /\ reader' \in Readers /\ reader'.state # "none" /\ reader'.records = <<>>
        /\ reader'.held = NoBytes
        /\ reader'.state = "reading" => reader'.error = "None"
        /\ reader'.state = "done" => reader'.error # "None"
        /\ reader'.state = "reading" => stream.units > 0
        /\ reader'.state = "done" => stream.units = 0 \/ damage # {}
    <3>0. /\ <<>> \in Seq(Records \cup {NoRecord})
          /\ "failed to read journal header" \in JournalErrors
          /\ "bad journal header" \in JournalErrors /\ "None" \in JournalErrors
      BY DEF JournalErrors
    <3>1. CASE stream.units = 0
      <4>1. reader' = [state |-> "done", records |-> <<>>, held |-> NoBytes,
                       error |-> "failed to read journal header"]
        BY <1>3, <3>1 DEF StartReading, OpenedReader, HeaderError
      <4> QED
        BY <4>1, <3>1, <3>0, NoReaderFits, ReaderFields
    <3>2. CASE stream.units > 0 /\ <<0, "magic">> \in damage
      <4>0. HeaderError(stream, damage) = "bad journal header"
        BY <1>1, <3>2 DEF HeaderError
      <4>1. reader' = [state |-> "done", records |-> <<>>, held |-> NoBytes,
                       error |-> "bad journal header"]
        BY <1>3, <4>0 DEF StartReading, OpenedReader
      <4> QED
        BY <4>1, <3>2, <3>0, NoReaderFits, ReaderFields
    <3>3. CASE stream.units > 0 /\ <<0, "magic">> \notin damage
      <4>0. HeaderError(stream, damage) = "None"
        BY <1>1, <3>3 DEF HeaderError
      <4>1. reader' = [state |-> "reading", records |-> <<>>, held |-> NoBytes,
                       error |-> "None"]
        BY <1>3, <4>0 DEF StartReading, OpenedReader
      <4> QED
        BY <4>1, <3>3, <3>0, NoReaderFits, ReaderFields
    <3> QED
      BY <1>1, <3>1, <3>2, <3>3
  <2>2. owed' = flushed /\ overwritten' = {} /\ UNCHANGED <<stream, damage, flushed>>
    BY <1>3 DEF StartReading
  <2>3. JournalTypeOK'
    BY <1>1, <2>1, <2>2, NoReaderFits, SizeAssumption DEF IInv, JournalTypeOK, Readers
  <2> QED
    <3>1. ReadsWhatWasAppended'
      BY <1>1, <2>1, <2>2 DEF ReadsWhatWasAppended
    <3>2. FlushedReadsBack'
      BY <1>1, <2>1, <2>2 DEF FlushedReadsBack
    <3>3. OwedIsThere' /\ HeldIsOld'
      BY <1>1, <2>1, <2>2, NoReaderFits DEF OwedIsThere, HeldIsOld, Readers
    <3> QED
      BY <2>3, <3>1, <3>2, <3>3 DEF IInv
<1>4. CASE Read
  <2> DEFINE k == NextUnit(reader)
  <2>1. /\ reader.state = "reading" /\ reader' \in ReadNext(reader, stream, damage)
        /\ UNCHANGED <<stream, damage, flushed, owed, overwritten>>
    BY <1>4 DEF Read
  <2>2. /\ k \in Nat /\ k = Len(reader.records) + 1 /\ owed <= stream.units
        /\ reader.error = "None"
        /\ overwritten = {} => Len(reader.records) < stream.units
    BY <1>1, <2>1 DEF IInv, OwedIsThere, NextUnit
  <2>3. ASSUME NEW error \in JournalErrors,
               reader' = [reader EXCEPT !.state = "done", !.error = error],
               overwritten = {} /\ damage = {} => stream.units <= k,
               overwritten = {} /\ damage = {} /\ error # "None" =>
                 stream.units < n + 1
        PROVE  IInv'
    <3>1. /\ reader' \in Readers /\ reader'.state = "done" /\ reader'.error = error
          /\ reader'.records = reader.records /\ reader'.held = reader.held
      BY <1>1, <2>3 DEF Readers
    <3>2. JournalTypeOK' /\ ReadsWhatWasAppended' /\ HeldIsOld'
      BY <1>1, <2>1, <3>1
      DEF IInv, JournalTypeOK, ReadsWhatWasAppended, HeldIsOld, NextUnit
    <3>3. FlushedReadsBack'
      BY <1>1, <2>1, <2>2, <2>3, <3>1 DEF FlushedReadsBack
    <3> QED
      BY <2>1, <2>2, <3>1, <3>2, <3>3 DEF IInv, OwedIsThere
  <2>4. CASE AtEnd(reader, stream)
    <3>1. reader' = [reader EXCEPT !.state = "done"]
      BY <2>1, <2>4 DEF ReadNext
    <3>2. reader' = [reader EXCEPT !.state = "done", !.error = "None"]
      BY <1>1, <2>2, <3>1 DEF Readers
    <3>3. stream.units <= k
      BY <2>4, EndIsEnd
    <3> QED
      BY <2>3, <3>2, <3>3 DEF JournalErrors
  <2>5. CASE ~ AtEnd(reader, stream)
    <3>1. PICK j \in Judgements(reader, stream, damage) : reader' = Given(reader, j)
      BY <2>1, <2>5 DEF ReadNext
    <3>2. CASE j.error # "None"
      <4>1. reader' = [reader EXCEPT !.state = "done", !.error = j.error]
        BY <3>1, <3>2 DEF Given
      <4>2. ASSUME overwritten = {}, damage = {} PROVE stream.units <= k /\ stream.units < n + 1
        <5>1. j.error = RecordError(BytesOf(stream, k), damage, k)
          <6>1. reader.held.bytes = 0 /\ BytesFor(reader, stream) = BytesOf(stream, k)
            BY <4>2, BytesAreThere
          <6>2. j = Judged(BytesFor(reader, stream), damage, k, stream.records[k])
            BY <3>1, <6>1, JudgedAs
          <6>3. Judged(BytesOf(stream, k), damage, k, stream.records[k]).error
                  = RecordError(BytesOf(stream, k), damage, k)
            BY DEF Judged
          <6> QED
            BY ONLY <6>1, <6>2, <6>3
        <5>2. BytesOf(stream, k) < RecordBytes
          <6>1. BytesOf(stream, k) \in Nat
            BY BytesAreThere
          <6>2. ASSUME BytesOf(stream, k) >= RecordBytes
                PROVE  RecordError(BytesOf(stream, k), damage, k) = "None"
            BY <6>1, <6>2, <4>2, SizeAssumption DEF RecordError
          <6> QED
            BY <3>2, <5>1, <6>1, <6>2, SizeAssumption
        <5>3. BytesOf(stream, k) > 0
          BY <2>5, <4>2, BytesAreThere DEF AtEnd
        <5> QED
          BY <1>1, <2>2, <5>2, <5>3 DEF BytesOf
      <4>3. j.error \in JournalErrors
        BY <3>1, JudgedFits
      <4> QED
        BY <2>3, <4>1, <4>2, <4>3
    <3>3. CASE j.error = "None"
      <4>1. /\ IsRecord(k, j.record, overwritten \cup {stream.records})
            /\ overwritten = {} => k < stream.units
        BY <3>1, <3>3, JudgedIsAppended
      <4>2. j.record \in Records
        <5>1. PICK past \in overwritten \cup {stream.records} :
                k \in 1 .. Len(past) /\ j.record = past[k]
          BY <4>1 DEF IsRecord
        <5>2. past \in Seq(Records)
          BY <1>1 DEF IInv, JournalTypeOK, Streams
        <5> QED
          BY <5>1, <5>2
      <4>3. reader' = [reader EXCEPT !.records = Append(@, j.record), !.held = NoBytes]
        BY <3>1, <3>3 DEF Given
      <4> DEFINE rs == Append(reader.records, j.record)
      <4>4. rs \in Seq(Records \cup {NoRecord})
        BY <1>1, <4>2 DEF Readers
      <4>5. /\ Len(rs) = k /\ rs[k] = j.record
            /\ \A i \in 1 .. k - 1 : rs[i] = reader.records[i]
        BY <1>1, <2>2, <4>2 DEF Readers
      <4> HIDE DEF rs
      <4>6. /\ reader' = [state |-> "reading", records |-> rs, held |-> NoBytes,
                          error |-> reader.error]
            /\ reader.error \in JournalErrors
        BY <1>1, <2>1, <4>3 DEF Readers, rs
      <4>7. /\ reader' \in Readers /\ reader'.records = rs /\ reader'.state = "reading"
            /\ reader'.held = NoBytes /\ reader'.error = reader.error
        BY <4>4, <4>6, NoReaderFits, ReaderFields
      <4>8. JournalTypeOK'
        BY <1>1, <2>1, <4>1, <4>5, <4>7, NoReaderFits, SizeAssumption DEF IInv, JournalTypeOK
      <4>9. ReadsWhatWasAppended'
        <5> SUFFICES ASSUME NEW i \in 1 .. k
                     PROVE  IsRecord(i, rs[i], overwritten \cup {stream.records})
          BY <2>1, <4>5, <4>7 DEF ReadsWhatWasAppended, IsRecord
        <5>1. CASE i = k
          BY <4>1, <4>5, <5>1
        <5>2. CASE i # k
          <6>1. i \in 1 .. Len(reader.records) /\ rs[i] = reader.records[i]
            BY <1>1, <2>2, <4>5, <5>2
          <6> QED
            BY <6>1 DEF IInv, ReadsWhatWasAppended, IsRecord
        <5> QED
          BY <5>1, <5>2
      <4>a. OwedIsThere' /\ FlushedReadsBack' /\ HeldIsOld'
        BY <2>1, <2>2, <4>1, <4>5, <4>7, NoReaderFits
        DEF IInv, OwedIsThere, FlushedReadsBack, HeldIsOld
      <4> QED
        BY <4>8, <4>9, <4>a DEF IInv
    <3> QED
      BY <3>2, <3>3
  <2> QED
    BY <2>4, <2>5
<1> QED
  BY <1>2, <1>3, <1>4 DEF ReaderNext

LEMMA StepKeepsInv == IInv /\ [JournalNext]_journalVars => IInv'
<1>1. ASSUME IInv, UNCHANGED journalVars PROVE IInv'
  BY <1>1 DEF journalVars, IInv, JournalTypeOK, ReadsWhatWasAppended,
              FlushedReadsBack, OwedIsThere, HeldIsOld
<1> QED
  BY <1>1, WriterKeepsInv, ReaderKeepsInv DEF JournalNext

(* The invariant holds of every behaviour. *)
LEMMA Invariance == JournalSpec => []IInv
BY InitHolds, StepKeepsInv, PTL DEF JournalSpec

(***************************************************************************)
(* The file is never longer than what was appended, an end of it that was  *)
(* torn is shorter than a record, and no reader is past it unless it was   *)
(* truncated under one: any sequence of writes, crashes, damage and        *)
(* restarts, also during a read, leaves stream, file and reader so.        *)
(***************************************************************************)
THEOREM JournalTypeCorrect == JournalSpec => []JournalTypeOK
<1>1. IInv => JournalTypeOK
  BY DEF IInv
<1> QED
  BY <1>1, Invariance, PTL

(***************************************************************************)
(* A reader returns record after record what was appended, whatever part   *)
(* of the file is torn or bad; one under which the file is truncated may   *)
(* go on with another run's records, but each is whole and in its place    *)
(* (JournalReader::next).  For any records and sizes.                      *)
(***************************************************************************)
THEOREM ReadsBackCorrect == JournalSpec => []ReadsWhatWasAppended
<1>1. IInv => ReadsWhatWasAppended
  BY DEF IInv
<1> QED
  BY <1>1, Invariance, PTL

(***************************************************************************)
(* A reader that ends has returned all that was flushed when it opened the *)
(* file (JournalWriter::flush), unless power failed, the file is bad or    *)
(* was truncated by a restart of the exchange meanwhile.                   *)
(***************************************************************************)
THEOREM JournalCorrect == JournalSpec => []FlushedReadsBack
<1>1. IInv => FlushedReadsBack
  BY DEF IInv
<1> QED
  BY <1>1, Invariance, PTL

(***************************************************************************)
(* A reader that ends without an error (JournalReader::next's silent       *)
(* return) leaves no whole record of the file behind it, and has returned  *)
(* them all unless the file was truncated under it, for any sizes.         *)
(***************************************************************************)
THEOREM CleanEndCorrect == JournalSpec => CleanEndIsTheEnd
<1> DEFINE Ends == reader.state = "reading" /\ reader'.state = "done" /\ reader'.error = "None"
           Over == /\ stream.units <= NextUnit(reader')
                   /\ stream.units = NextUnit(reader') => stream.tail < MagicBytes
                   /\ reader.held.bytes < MagicBytes
                   /\ overwritten = {} => Len(reader'.records) = stream.units - 1
<1>1. ASSUME IInv, [JournalNext]_journalVars, ~ UNCHANGED journalVars, Ends PROVE Over
  <2>0. /\ reader \in Readers /\ Len(reader.records) \in Nat /\ stream.units \in Nat
        /\ overwritten = {} => Len(reader.records) < stream.units
    BY <1>1 DEF IInv, JournalTypeOK, OwedIsThere, Streams, Readers
  <2>1. Read
    <3>1. JournalNext
      BY <1>1
    <3>2. ASSUME WriterNext PROVE reader'.state \in {reader.state, "none"}
      <4>1. ASSUME NEW state \in {"good", "bad"}, Reopen(state) PROVE reader'.state = reader.state
        <5>1. PICK held \in Holdings(reader, stream, damage) :
                reader' = [reader EXCEPT !.held = held]
          BY <4>1 DEF Reopen
        <5> QED
          BY <2>0, <5>1 DEF Readers
      <4>2. ASSUME ~ \E state \in {"good", "bad"} : Reopen(state)
            PROVE  reader' = reader \/ reader' = NoReader
        BY <3>2, <4>2 DEF WriterNext, AppendRecord, Drain, Flush, Close, Break, LosePower,
                          Damage
      <4> QED
        BY <4>1, <4>2, NoReaderFits
    <3>3. ASSUME StartReading \/ CloseReader PROVE reader.state = "none" \/ reader' = NoReader
      BY <3>3 DEF StartReading, CloseReader
    <3> QED
      BY <1>1, <3>1, <3>2, <3>3, NoReaderFits DEF JournalNext, ReaderNext
  <2>2. AtEnd(reader, stream)
    <3> SUFFICES ASSUME ~ AtEnd(reader, stream) PROVE FALSE
      OBVIOUS
    <3>1. PICK j \in Judgements(reader, stream, damage) : reader' = Given(reader, j)
      BY <2>1 DEF Read, ReadNext
    <3>2. CASE j.error # "None"
      <4>1. reader' = [reader EXCEPT !.state = "done", !.error = j.error]
        BY <3>1, <3>2 DEF Given
      <4> QED
        BY <1>1, <2>0, <3>2, <4>1 DEF Readers
    <3>3. CASE j.error = "None"
      <4>1. reader' = [reader EXCEPT !.records = Append(@, j.record), !.held = NoBytes]
        BY <3>1, <3>3 DEF Given
      <4> QED
        BY <1>1, <2>0, <4>1 DEF Readers
    <3> QED
      BY <3>2, <3>3
  <2>3. reader' = [reader EXCEPT !.state = "done"]
    BY <2>1, <2>2 DEF Read, ReadNext
  <2>4. reader'.records = reader.records /\ NextUnit(reader') = NextUnit(reader)
    BY <2>0, <2>3 DEF Readers, NextUnit
  <2>5. overwritten = {} => Len(reader.records) = stream.units - 1
    BY <1>1, <2>0, <2>2, EndIsEnd DEF NextUnit
  <2> QED
    BY <1>1, <2>2, <2>4, <2>5, EndIsEnd
<1>2. IInv /\ [JournalNext]_journalVars => [Ends => Over]_journalVars
  BY <1>1
<1> QED
  BY <1>2, Invariance, PTL DEF JournalSpec, CleanEndIsTheEnd
=============================================================================
