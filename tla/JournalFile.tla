----------------------------- MODULE JournalFile -----------------------------
(***************************************************************************)
(* journal::JournalWriter and JournalReader (src/journal.cpp), with the    *)
(* stream between them: a record appended is in the buffer of an           *)
(* std::ofstream, which hands it to the file whenever it likes, in pieces; *)
(* flush and the destructor hand over everything.  The process may die and *)
(* the machine may lose power; a reader, in a process of its own, may read *)
(* while the writer writes and while the next one truncates the file.      *)
(*                                                                         *)
(* The file is the header, unit 0, and one unit per record.  How much of   *)
(* it there is: a number of whole units and the bytes of the next one.     *)
(***************************************************************************)
EXTENDS Integers, Sequences

CONSTANTS
  Records,      \* what may be appended
  NoRecord,     \* what other bytes decode into
  MagicBytes,   \* of a record: its magic, ...
  PrefixBytes,  \* ... with its length and checksum, ...
  RecordBytes,  \* ... with its payload; 4, 16 and 87 in the code
  MaxRecords    \* bound: records in a file

ASSUME SizeAssumption ==
  /\ MagicBytes \in Nat \ {0}
  /\ PrefixBytes \in Nat /\ MagicBytes < PrefixBytes
  /\ RecordBytes \in Nat /\ PrefixBytes < RecordBytes
  /\ MaxRecords \in Nat

ASSUME RecordAssumption == NoRecord \notin Records

(* What may be wrong with a unit of the file; the header has a magic only. *)
Parts == {"magic", "length", "length past the end", "checksum", "payload"}

JournalErrors ==
  {"None", "failed to read journal header", "bad journal header",
   "short journal record", "bad record magic", "short record payload",
   "record checksum mismatch"}

Streams ==
  [records : Seq(Records), units : Nat, tail : Nat, state : {"good", "bad"}]

(* The first bytes of a record, as a reader's buffer holds them. *)
Pieces ==
  [bytes : Nat, record : Records \cup {NoRecord}, damage : SUBSET (Nat \X Parts)]

Readers ==
  [state : {"none", "reading", "done"}, records : Seq(Records \cup {NoRecord}),
   held : Pieces, error : JournalErrors]

VARIABLES
  stream,    \* [records, units, tail, state]: what was appended since the file
             \* was opened, how much is in the file, whether out_ is good
  damage,    \* pairs of a unit and what is wrong with it
  reader,    \* [state, records, held, error]: what it has returned so far, and
             \* what it holds of the next record that was since truncated
  flushed,   \* the units the last flush handed over, 0 if none (history)
  owed,      \* flushed, when the reader was opened, unless truncated since (history)
  overwritten  \* the records of each run truncated under the reader (history)

journalVars == <<stream, damage, reader, flushed, owed, overwritten>>

-----------------------------------------------------------------------------
(* The writer, as operators on the stream. *)

(* The constructor truncates; the header is in the buffer. *)
OpenedStream(state) == [records |-> <<>>, units |-> 0, tail |-> 0, state |-> state]

Appended(s, record) ==
  IF s.state = "good" THEN [s EXCEPT !.records = Append(@, record)] ELSE s

(* Mutant: flush leaves the last record in the buffer. *)
FlushedAllButOne(s) ==
  IF s.state = "good" /\ s.units < Len(s.records)
  THEN [s EXCEPT !.units = Len(s.records), !.tail = 0] ELSE s

Flushed(s) ==
  IF s.state = "good" THEN [s EXCEPT !.units = Len(s.records) + 1, !.tail = 0]
  ELSE s

(* How far the file may grow: everything appended, or part of it. *)
Grown(s, units, tail) ==
  /\ \/ units = s.units /\ tail >= s.tail
     \/ units > s.units
  /\ units <= Len(s.records) + 1
  /\ units = Len(s.records) + 1 => tail = 0

(* ... and shrink. *)
Shrunk(s, units, tail) ==
  \/ units = s.units /\ tail <= s.tail
  \/ units < s.units

-----------------------------------------------------------------------------
(* The reader. *)

NoBytes == [bytes |-> 0, record |-> NoRecord, damage |-> {}]

NoReader == [state |-> "none", records |-> <<>>, held |-> NoBytes, error |-> "None"]

HeaderError(s, d) ==
  IF s.units = 0 THEN "failed to read journal header"
  ELSE IF <<0, "magic">> \in d THEN "bad journal header" ELSE "None"

OpenedReader(s, d) ==
  [state |-> IF HeaderError(s, d) = "None" THEN "reading" ELSE "done",
   records |-> <<>>, held |-> NoBytes, error |-> HeaderError(s, d)]

(* The unit a reader comes to next. *)
NextUnit(r) == Len(r.records) + 1

(* How many bytes the file has of unit k. *)
BytesOf(s, k) ==
  IF s.units > k THEN RecordBytes ELSE IF s.units = k THEN s.tail ELSE 0

(* How many the reader gets of its next one, its buffer and the file together. *)
BytesFor(r, s) ==
  IF r.held.bytes > BytesOf(s, NextUnit(r)) THEN r.held.bytes
  ELSE BytesOf(s, NextUnit(r))

(* Mutant: half a record is taken for the end of the file. *)
AtEndOrTorn(r, s) == BytesFor(r, s) < RecordBytes

(* Mutant: the last record is taken for the end of the file. *)
AtLastRecord(r, s) == s.units <= NextUnit(r) + 1

(* End of file, or a piece of a magic before it, which next() ignores. *)
AtEnd(r, s) == BytesFor(r, s) < MagicBytes

(* Mutant: the checksum is not compared. *)
RecordErrorUnchecked(bytes, d, k) ==
  IF bytes < PrefixBytes THEN "short journal record"
  ELSE IF <<k, "magic">> \in d THEN "bad record magic"
  ELSE IF bytes < RecordBytes \/ <<k, "length past the end">> \in d
       THEN "short record payload"
  ELSE "None"

(* What next() finds wrong with record k once it has read a magic. *)
RecordError(bytes, d, k) ==
  IF bytes < PrefixBytes THEN "short journal record"
  ELSE IF <<k, "magic">> \in d THEN "bad record magic"
  ELSE IF bytes < RecordBytes \/ <<k, "length past the end">> \in d
       THEN "short record payload"
  ELSE IF \E part \in {"length", "checksum", "payload"} : <<k, part>> \in d
       THEN "record checksum mismatch"
  ELSE "None"

(* What the bytes of record k decode into. *)
Content(bytes, d, k, record) ==
  IF bytes < RecordBytes \/ (\E part \in Parts : <<k, part>> \in d)
  THEN NoRecord ELSE record

Judged(bytes, d, k, record) ==
  [error |-> RecordError(bytes, d, k), record |-> Content(bytes, d, k, record)]

(***************************************************************************)
(* What next() may make of the bytes it gets.  Bytes of two records, one   *)
(* truncated and one written since, are either of them, if the other's are *)
(* the same, or fail the checksum.                                         *)
(***************************************************************************)
Judgements(r, s, d) ==
  LET k == NextUnit(r)
      bytes == BytesFor(r, s)
      here == Judged(bytes, d, k, s.records[k])
      before == Judged(bytes, r.held.damage, k, r.held.record)
      mixed == [error |-> "record checksum mismatch", record |-> NoRecord]
  IN  IF r.held.bytes = 0 THEN {here}
      ELSE {here, before} \cup {j \in {mixed} : bytes = RecordBytes}

Given(r, j) ==
  IF j.error # "None" THEN [r EXCEPT !.state = "done", !.error = j.error]
  ELSE [r EXCEPT !.records = Append(@, j.record), !.held = NoBytes]

ReadNext(r, s, d) ==
  IF AtEnd(r, s) THEN {[r EXCEPT !.state = "done"]}
  ELSE {Given(r, j) : j \in Judgements(r, s, d)}

(* What a reader may have in its buffer of the next record, when the file is *)
(* truncated: a record it has all of is as good as returned before.          *)
Holdings(r, s, d) ==
  LET k == NextUnit(r)
      fetched == {n \in r.held.bytes + 1 .. RecordBytes - 1 : n <= BytesOf(s, k)}
  IN  IF r.state # "reading" THEN {r.held}
      ELSE {r.held} \cup {[bytes |-> n, record |-> s.records[k], damage |-> d] : n \in fetched}

-----------------------------------------------------------------------------
JournalInit ==
  /\ \E state \in {"good", "bad"} : stream = OpenedStream(state)
  /\ damage = {}
  /\ reader = NoReader
  /\ flushed = 0
  /\ owed = 0
  /\ overwritten = {}

AppendRecord(record) ==
  /\ Len(stream.records) < MaxRecords
  /\ stream' = Appended(stream, record)
  /\ UNCHANGED <<damage, reader, flushed, owed, overwritten>>

Drain ==
  /\ stream.state = "good"
  /\ \E units \in 0 .. Len(stream.records) + 1, tail \in 0 .. RecordBytes - 1 :
        /\ Grown(stream, units, tail)
        /\ stream' = [stream EXCEPT !.units = units, !.tail = tail]
  /\ UNCHANGED <<damage, reader, flushed, owed, overwritten>>

Flush ==
  /\ stream' = Flushed(stream)
  /\ flushed' = IF stream.state = "good" THEN Len(stream.records) + 1 ELSE flushed
  /\ UNCHANGED <<damage, reader, owed, overwritten>>

(* The destructor. *)
Close ==
  /\ stream.state = "good"
  /\ stream' = [Flushed(stream) EXCEPT !.state = "bad"]
  /\ flushed' = Len(stream.records) + 1
  /\ UNCHANGED <<damage, reader, owed, overwritten>>

(* The process dies, or a write fails, which nobody looks at: what is in   *)
(* the file stays.                                                         *)
Break ==
  /\ stream.state = "good"
  /\ stream' = [stream EXCEPT !.state = "bad"]
  /\ UNCHANGED <<damage, reader, flushed, owed, overwritten>>

(* Nothing is ever synced: any end of the file may go, flushed or not. *)
LosePower ==
  /\ \E units \in 0 .. stream.units, tail \in 0 .. RecordBytes - 1 :
        /\ Shrunk(stream, units, tail)
        /\ stream' = [stream EXCEPT !.units = units, !.tail = tail, !.state = "bad"]
  /\ reader' = NoReader
  /\ flushed' = 0
  /\ owed' = 0
  /\ overwritten' = {}
  /\ UNCHANGED damage

(* Part of a whole unit, or all that comes after it, goes bad. *)
Damage(unit, part) ==
  /\ unit < stream.units
  /\ unit = 0 => part = "magic"
  /\ stream.state = "bad"
  /\ damage = {}
  /\ damage' = {<<unit, part>>}
  /\ UNCHANGED <<stream, reader, flushed, owed, overwritten>>

(***************************************************************************)
(* The exchange starts again: the file is truncated, whoever reads it.     *)
(* Bound: one writer at a time.                                            *)
(***************************************************************************)
Reopen(state) ==
  /\ stream.state = "bad"
  /\ stream' = OpenedStream(state)
  /\ damage' = {}
  /\ \E held \in Holdings(reader, stream, damage) :
        reader' = [reader EXCEPT !.held = held]
  /\ flushed' = 0
  /\ owed' = 0
  /\ overwritten' = IF reader.state = "none" THEN {}
                    ELSE overwritten \cup {stream.records}

StartReading ==
  /\ reader.state = "none"
  /\ reader' = OpenedReader(stream, damage)
  /\ owed' = flushed
  /\ overwritten' = {}
  /\ UNCHANGED <<stream, damage, flushed>>

Read ==
  /\ reader.state = "reading"
  /\ reader' \in ReadNext(reader, stream, damage)
  /\ UNCHANGED <<stream, damage, flushed, owed, overwritten>>

CloseReader ==
  /\ reader.state # "none"
  /\ reader' = NoReader
  /\ owed' = 0
  /\ overwritten' = {}
  /\ UNCHANGED <<stream, damage, flushed>>

WriterNext ==
  \/ \E record \in Records : AppendRecord(record)
  \/ Drain
  \/ Flush
  \/ Close
  \/ Break
  \/ LosePower
  \/ \E unit \in 0 .. MaxRecords, part \in Parts : Damage(unit, part)
  \/ \E state \in {"good", "bad"} : Reopen(state)

ReaderNext == StartReading \/ Read \/ CloseReader

JournalNext == WriterNext \/ ReaderNext

JournalSpec == JournalInit /\ [][JournalNext]_journalVars

-----------------------------------------------------------------------------
(***************************************************************************)
(* The fields keep their types, the file is no longer than what was        *)
(* appended, and a reader is not past its end unless the file was          *)
(* truncated under it.                                                     *)
(***************************************************************************)
JournalTypeOK ==
  /\ stream \in Streams
  /\ stream.units <= Len(stream.records) + 1
  /\ stream.units = Len(stream.records) + 1 => stream.tail = 0
  /\ stream.tail < RecordBytes
  /\ damage \subseteq Nat \X Parts
  /\ reader \in Readers /\ reader.held.bytes < RecordBytes
  /\ flushed \in Nat /\ flushed <= stream.units
  /\ owed \in Nat
  /\ overwritten \subseteq Seq(Records)
  /\ reader.records # <<>> /\ overwritten = {} => Len(reader.records) < stream.units

(***************************************************************************)
(* Record k a reader returned is record k of what was appended, whole and  *)
(* as it was, wherever the file ends and whatever is damaged in it, also   *)
(* while it is being written.  If the file was truncated under the reader, *)
(* it is record k of this run or of one that was: the reader may go on     *)
(* from one run's records to another's, but never makes one record of both *)
(* (JournalReader::next, JournalWriter::JournalWriter).                    *)
(***************************************************************************)
ReadsWhatWasAppended ==
  \A k \in 1 .. Len(reader.records) :
    \E run \in overwritten \cup {stream.records} :
      k \in 1 .. Len(run) /\ reader.records[k] = run[k]

(***************************************************************************)
(* A flush is a promise: a reader opened after it, of a file without       *)
(* damage, returns everything appended before the flush, and ends without  *)
(* an error if nothing was appended since (what tests/exsim_tests.cpp:108  *)
(* relies on), unless power is lost or the exchange starts again meanwhile *)
(* and truncates the file.                                                 *)
(***************************************************************************)
FlushedReadsBack ==
  reader.state = "done" /\ damage = {} /\ overwritten = {} /\ owed > 0 =>
    /\ Len(reader.records) >= owed - 1
    /\ owed = Len(stream.records) + 1 => reader.error = "None"

(***************************************************************************)
(* A reader that ends without an error is at the end of the file or, if    *)
(* that was truncated under it, perhaps past it: there is no whole record  *)
(* it has not come to, and bytes left behind are less than a magic.  It    *)
(* has returned every record, but not those of a file that was truncated   *)
(* and written again where it had been already (JournalReader::next).      *)
(***************************************************************************)
CleanEndIsTheEnd ==
  [][reader.state = "reading" /\ reader'.state = "done" /\ reader'.error = "None" =>
       /\ stream.units <= NextUnit(reader')
       /\ stream.units = NextUnit(reader') => stream.tail < MagicBytes
       /\ reader.held.bytes < MagicBytes
       /\ overwritten = {} => Len(reader'.records) = stream.units - 1]_journalVars
=============================================================================
