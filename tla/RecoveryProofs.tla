---------------------------- MODULE RecoveryProofs ----------------------------
(***************************************************************************)
(* What a crash leaves of the exchange: proved for every set of symbols,   *)
(* accounts and commands, for records of any size, and for any number of   *)
(* crashes, restarts and replays; a replay during which its file was       *)
(* truncated rebuilds no past, and nothing is said of what it rebuilds.    *)
(***************************************************************************)
EXTENDS ExchangeRecovery, JournalProofs, ExchangeProofs

Managers ==
  [books : [Symbols -> QueueBooks], order_to_symbol : [OrderIds -> Symbols \cup {kNoSymbol}]]

PastStates == [manager : Managers, accounts : [Accounts -> AccountsTyped]]

(* Every exchange that looks like p looks like q once sc was applied. *)
Leads(p, sc, q) ==
  \A e : GoodExchange(e) /\ Rebuildable(e) = p =>
           Rebuildable(ApplySequenced(e, sc).exchange) = q

(* `pasts' is what applying the stream's records one by one makes of a new exchange. *)
HistoryInv ==
  /\ pasts \in Seq(PastStates)
  /\ Len(pasts) = Len(stream.records) + 1
  /\ pasts[1] = Rebuildable(NewExchange)
  /\ \A k \in 1 .. Len(stream.records) :
       Applicable(stream.records[k]) /\ Leads(pasts[k], stream.records[k], pasts[k + 1])

(***************************************************************************)
(* The stream is this run's, or that of an earlier run and broken.  This   *)
(* run's lacks the last records at most, and only once it has failed.      *)
(***************************************************************************)
StreamInv ==
  /\ journal \in Seq(JournalRecords)
  /\ owner \in Nat /\ run \in Nat /\ owner <= run
  /\ owner # run => stream.state = "bad"
  /\ owner = run =>
       /\ Len(stream.records) <= Len(journal)
       /\ Len(stream.records) = Len(journal) =>
            pasts[Len(stream.records) + 1] = Rebuildable(exchange)
       /\ stream.state = "good" => Len(stream.records) = Len(journal)

(* A replay whose file was not truncated is where it is in the stream. *)
RebuiltInv ==
  reader.state # "none" /\ overwritten = {} =>
    /\ GoodExchange(replayed.exchange)
    /\ Rebuildable(replayed.exchange) = pasts[Len(reader.records) + 1]

RecoveryInv == ExchangeInv /\ IInv /\ HistoryInv /\ StreamInv /\ RebuiltInv

-----------------------------------------------------------------------------
(* What is rebuilt is the books with their index, and the accounts. *)
LEMMA RebuildableIs ==
  ASSUME NEW e, NEW f
  PROVE  Rebuildable(e) = Rebuildable(f) <=> e.manager = f.manager /\ e.accounts = f.accounts
  <1>1. PICK m, ac, n, ad : /\ m = e.manager /\ ac = e.accounts
                            /\ n = f.manager /\ ad = f.accounts
    OBVIOUS
  <1>2. PICK p, q : /\ p = [manager |-> m, accounts |-> ac] /\ p = Rebuildable(e)
                    /\ q = [manager |-> n, accounts |-> ad] /\ q = Rebuildable(f)
    BY <1>1 DEF Rebuildable
  <1>3. p = q <=> m = n /\ ac = ad
    BY <1>2
  <1> QED
    BY <1>1, <1>2, <1>3

LEMMA RebuildableType ==
  ASSUME NEW e, GoodExchange(e)
  PROVE  Rebuildable(e) \in PastStates
  <1>1. PICK m, ac : m = e.manager /\ ac = e.accounts
    OBVIOUS
  <1>2. GoodManager(m) /\ GoodAccounts(ac)
    BY <1>1 DEF GoodExchange
  <1>3. PICK bs, index : bs = m.books /\ index = m.order_to_symbol
    OBVIOUS
  <1>4. /\ m = [books |-> bs, order_to_symbol |-> index]
        /\ bs = [s \in Symbols |-> bs[s]]
        /\ \A s \in Symbols : GoodBook(bs[s])
        /\ index \in [OrderIds -> Symbols \cup {kNoSymbol}]
    BY <1>2, <1>3 DEF GoodManager
  <1>5. bs \in [Symbols -> QueueBooks]
    <2>1. \A s \in Symbols : bs[s] \in QueueBooks
      BY <1>4 DEF GoodBook
    <2> QED
      BY <1>4, <2>1
  <1>6. m \in Managers
    BY <1>4, <1>5 DEF Managers
  <1>7. ac \in [Accounts -> AccountsTyped]
    BY <1>2 DEF GoodAccounts
  <1>8. Rebuildable(e) = [manager |-> m, accounts |-> ac]
    BY <1>1 DEF Rebuildable
  <1> QED
    BY <1>6, <1>7, <1>8 DEF PastStates

(* The record the exchange applies is one that leads from what it was to what it is. *)
LEMMA SequencesLeads ==
  ASSUME GoodExchange(exchange), NEW cmd, NEW sc, NEW r, Sequences(cmd, sc, r)
  PROVE  Leads(Rebuildable(exchange), sc, Rebuildable(exchange'))
  <1> SUFFICES ASSUME NEW e, GoodExchange(e), Rebuildable(e) = Rebuildable(exchange)
               PROVE  Rebuildable(ApplySequenced(e, sc).exchange) = Rebuildable(exchange')
    BY DEF Leads
  <1>1. PICK x, s : x = NextSeq /\ s = ApplySequenced(e, sc)
    OBVIOUS
  <1>2. /\ GoodExchange(x) /\ x.manager = exchange.manager /\ x.accounts = exchange.accounts
    BY <1>1, NextSeqIs
  <1>3. e.manager = x.manager /\ e.accounts = x.accounts
    BY <1>2, RebuildableIs
  <1>4. r = ApplySequenced(x, sc) /\ Answer(cmd, r)
    BY <1>1 DEF Sequences
  <1>5. exchange' = r.exchange
    BY <1>4, AnswerIs
  <1>6. ExchangeShaped(e) /\ ExchangeShaped(x)
    BY <1>2 DEF GoodExchange
  <1>7. /\ s.exchange.manager = r.exchange.manager
        /\ s.exchange.accounts = r.exchange.accounts
    BY <1>1, <1>3, <1>4, <1>6, ApplyAgrees
  <1> QED
    BY <1>1, <1>5, <1>7, RebuildableIs

(* A reader of a file that was not truncated has returned no more than there is. *)
LEMMA NotPastTheEnd ==
  ASSUME IInv, overwritten = {}
  PROVE  /\ Len(reader.records) \in Nat /\ Len(stream.records) \in Nat
         /\ Len(reader.records) <= Len(stream.records)
  <1>1. PICK rs, k, l, u : /\ rs = reader.records /\ k = Len(rs)
                           /\ l = Len(stream.records) /\ u = stream.units
    OBVIOUS
  <1>2. /\ rs \in Seq(Records \cup {NoRecord}) /\ l \in Nat /\ u \in Nat /\ u <= l + 1
        /\ rs # <<>> => k < u
    BY <1>1 DEF IInv, JournalTypeOK, Streams, Readers
  <1>3. k \in Nat /\ (k = 0 \/ k < u)
    BY <1>1, <1>2
  <1> QED
    BY <1>1, <1>2, <1>3

-----------------------------------------------------------------------------
(* The steps. *)

(* A call that is journaled. *)
LEMMA ServeSequenced ==
  ASSUME Journaling, RecoveryInv, Serve, NEW cmd, NEW sc, NEW r, Sequences(cmd, sc, r)
  PROVE  RecoveryInv'
  <1>1. PICK n, p, rec : n = Len(journal) /\ p = Rebuildable(exchange') /\ rec = sc
    OBVIOUS
  <1>2. /\ GoodExchange(exchange) /\ exchange.next_seq \in Nat \ {0} /\ IInv
        /\ HistoryInv /\ StreamInv /\ RebuiltInv
    BY DEF RecoveryInv, ExchangeInv, GoodExchange
  <1>3. /\ journal' = Append(journal, rec) /\ rec \in JournalRecords /\ Applicable(rec)
        /\ rec = [seq |-> rec.seq, recv_ts_ns |-> rec.recv_ts_ns, cmd |-> rec.cmd]
        /\ rec.seq = exchange.next_seq /\ exchange.next_seq <= MaxSeq
        /\ rec.recv_ts_ns \in Times /\ rec.cmd \in Commands
    BY <1>1 DEF Sequences, Journaled
  <1>4. /\ n \in Nat /\ Len(journal') = n + 1 /\ journal'[n + 1] = rec
        /\ journal' \in Seq(JournalRecords)
        /\ \A k \in 1 .. n : journal'[k] = journal[k]
    BY <1>1, <1>2, <1>3 DEF StreamInv
  <1>5. /\ stream' = Appended(stream, rec)
        /\ pasts' = IF stream' = stream THEN pasts ELSE Append(pasts, p)
        /\ UNCHANGED <<damage, reader, flushed, owed, overwritten, replayed, owner, run>>
    <2>1. journal' # journal
      BY <1>1, <1>4
    <2> QED
      BY <1>1, <1>4, <2>1 DEF Serve
  <1>6. ExchangeInv'
    BY <1>2, SequencesKeeps
  <1>7. PICK rs, l : rs = stream.records /\ l = Len(rs)
    OBVIOUS
  <1>8. /\ stream \in Streams /\ rs \in Seq(Records) /\ l \in Nat
        /\ stream.units \in Nat /\ stream.tail \in Nat /\ stream.state \in {"good", "bad"}
        /\ stream.units <= l + 1 /\ stream.tail < RecordBytes
        /\ stream.units = l + 1 => stream.tail = 0
        /\ damage \subseteq Nat \X Parts /\ flushed \in Nat /\ flushed <= stream.units
        /\ pasts \in Seq(PastStates) /\ Len(pasts) = l + 1
    BY <1>2, <1>7 DEF IInv, JournalTypeOK, Streams, HistoryInv
  <1>9. CASE stream.state # "good"
    <2>1. stream' = stream /\ pasts' = pasts
      BY <1>5, <1>9 DEF Appended
    <2>2. IInv'
      BY <1>2, <1>5, <2>1, StepKeepsInv DEF journalVars
    <2>3. HistoryInv' /\ RebuiltInv'
      BY <1>2, <1>5, <2>1 DEF HistoryInv, RebuiltInv
    <2>4. StreamInv'
      BY <1>1, <1>2, <1>4, <1>5, <1>7, <1>8, <1>9, <2>1 DEF StreamInv
    <2> QED
      BY <1>6, <2>2, <2>3, <2>4 DEF RecoveryInv
  <1>10. CASE stream.state = "good"
    <2>1. rec \in Records
      <3>1. rec.seq \in 1 .. MaxSeq
        BY <1>2, <1>3, CallAssumption
      <3>2. rec \in [seq : 1 .. MaxSeq, recv_ts_ns : Times, cmd : Commands]
        BY <1>3, <3>1
      <3> QED
        BY <3>2, JournalAssumption
    <2>2. PICK longer : longer = Append(rs, rec)
      OBVIOUS
    <2>3. /\ longer \in Seq(Records) /\ Len(longer) = l + 1 /\ longer[l + 1] = rec
          /\ \A k \in 1 .. l : longer[k] = rs[k]
      BY <1>7, <1>8, <2>1, <2>2
    <2>4. /\ stream' \in Streams /\ stream'.records = longer
          /\ stream'.units = stream.units /\ stream'.tail = stream.tail
          /\ stream'.state = "good"
      <3>1. PICK u, x : u = stream.units /\ x = stream.tail
        OBVIOUS
      <3>2. stream' = [records |-> longer, units |-> u, tail |-> x, state |-> "good"]
        BY <1>5, <1>7, <1>8, <1>10, <2>2, <3>1 DEF Appended, Streams
      <3> QED
        BY <1>8, <2>3, <3>1, <3>2, StreamFields
    <2>5. pasts' = Append(pasts, p)
      BY <1>5, <1>7, <1>8, <2>3, <2>4
    <2>6. IInv'
      BY <1>2, <1>5, <1>7, <1>8, <2>3, <2>4, GrowingKeepsInv
    <2>7. p \in PastStates
      BY <1>1, <1>6, RebuildableType DEF ExchangeInv
    <2>8. /\ pasts' \in Seq(PastStates) /\ Len(pasts') = l + 2 /\ pasts'[l + 2] = p
          /\ \A k \in 1 .. l + 1 : pasts'[k] = pasts[k]
      BY <1>8, <2>5, <2>7
    <2>9. owner = run /\ l = n /\ pasts[l + 1] = Rebuildable(exchange)
      BY <1>1, <1>2, <1>7, <1>10 DEF StreamInv
    <2>10. Leads(pasts[l + 1], rec, p)
      BY <1>1, <1>2, <2>9, SequencesLeads
    <2>11. ASSUME NEW k \in 1 .. l + 1
           PROVE  Applicable(longer[k]) /\ Leads(pasts'[k], longer[k], pasts'[k + 1])
      <3>1. CASE k = l + 1
        <4>1. k \in 1 .. l + 1 /\ k + 1 = l + 2
          BY <1>8, <3>1
        <4>2. pasts'[k] = pasts[l + 1] /\ longer[k] = rec /\ pasts'[k + 1] = p
          BY <2>3, <2>8, <3>1, <4>1
        <4> QED
          BY <1>3, <2>10, <4>2
      <3>2. CASE k # l + 1
        <4>1. k \in 1 .. l /\ k \in 1 .. l + 1 /\ k + 1 \in 1 .. l + 1
          BY <1>8, <3>2
        <4>2. pasts'[k] = pasts[k] /\ longer[k] = rs[k] /\ pasts'[k + 1] = pasts[k + 1]
          BY <2>3, <2>8, <4>1
        <4> QED
          BY <1>2, <1>7, <4>1, <4>2 DEF HistoryInv
      <3> QED
        BY <3>1, <3>2
    <2>12. HistoryInv'
      <3>1. pasts'[1] = pasts[1]
        BY <1>8, <2>8
      <3>2. Len(longer) + 1 = l + 2
        BY <1>8, <2>3
      <3> QED
        BY <1>2, <2>3, <2>4, <2>8, <2>11, <3>1, <3>2 DEF HistoryInv
    <2>13. StreamInv'
      <3>1. pasts'[Len(longer) + 1] = Rebuildable(exchange')
        BY <1>1, <1>8, <2>3, <2>8
      <3> QED
        <4>1. Len(stream'.records) = Len(journal')
          BY <1>4, <2>3, <2>4, <2>9
        <4>2. pasts'[Len(stream'.records) + 1] = Rebuildable(exchange')
          BY <2>4, <3>1
        <4>3. owner' \in Nat /\ run' \in Nat /\ owner' = run' /\ Len(journal') \in Nat
          BY <1>2, <1>4, <1>5, <2>9 DEF StreamInv
        <4> QED
          BY <1>4, <4>1, <4>2, <4>3 DEF StreamInv
    <2>14. RebuiltInv'
      <3> SUFFICES ASSUME reader.state # "none", overwritten = {}
                   PROVE  /\ GoodExchange(replayed.exchange)
                          /\ Rebuildable(replayed.exchange) = pasts'[Len(reader.records) + 1]
        BY <1>5 DEF RebuiltInv
      <3>1. PICK k : k = Len(reader.records)
        OBVIOUS
      <3>2. k \in Nat /\ k <= l
        BY <1>2, <1>7, <1>8, <3>1, NotPastTheEnd
      <3>3. k + 1 \in 1 .. l + 1
        BY <1>8, <3>2
      <3>4. pasts'[k + 1] = pasts[k + 1]
        BY <2>8, <3>3
      <3> QED
        BY <1>2, <3>1, <3>4 DEF RebuiltInv
    <2> QED
      BY <1>6, <2>6, <2>12, <2>13, <2>14 DEF RecoveryInv
  <1> QED
    BY <1>9, <1>10

(* A frame that is refused. *)
LEMMA ServeRefused ==
  ASSUME RecoveryInv, Serve, NEW cmd, NEW reason, NEW r, RefusesFrame(cmd, reason, r)
  PROVE  RecoveryInv'
  <1>1. /\ GoodExchange(exchange) /\ IInv /\ HistoryInv /\ StreamInv /\ RebuiltInv
    BY DEF RecoveryInv, ExchangeInv
  <1>2. /\ ExchangeInv'
        /\ exchange'.manager = exchange.manager /\ exchange'.accounts = exchange.accounts
    BY <1>1, RefusesKeeps
  <1>3. Rebuildable(exchange') = Rebuildable(exchange)
    BY <1>2, RebuildableIs
  <1>4. journal' = journal
    BY DEF RefusesFrame
  <1>5. /\ UNCHANGED <<stream, pasts, damage, reader, flushed, owed, overwritten>>
        /\ UNCHANGED <<replayed, owner, run>>
    BY <1>4 DEF Serve
  <1>6. HistoryInv'
    BY <1>1, <1>3, <1>4, <1>5 DEF HistoryInv
  <1>7. IInv'
    BY <1>1, <1>5, StepKeepsInv DEF journalVars
  <1>8. StreamInv' /\ RebuiltInv'
    BY <1>1, <1>3, <1>4, <1>5 DEF StreamInv, RebuiltInv
  <1> QED
    BY <1>2, <1>6, <1>7, <1>8 DEF RecoveryInv

(* A step of the file alone, or the end of a replay. *)
LEMMA QuietKeeps ==
  ASSUME RecoveryInv, IInv', UNCHANGED <<exchange, journal, last, pasts, owner, run>>,
         stream'.records = stream.records,
         stream'.state = "good" => stream.state = "good",
         stream'.state \in {"good", "bad"},
         reader'.state = "none" \/ UNCHANGED <<reader, replayed, overwritten>>
  PROVE  RecoveryInv'
  <1>1. ExchangeInv'
    BY DEF RecoveryInv, ExchangeInv
  <1>2. HistoryInv'
    BY DEF RecoveryInv, HistoryInv
  <1>3. StreamInv'
    BY DEF RecoveryInv, StreamInv
  <1>4. RebuiltInv'
    BY DEF RecoveryInv, RebuiltInv
  <1> QED
    BY <1>1, <1>2, <1>3, <1>4 DEF RecoveryInv

(* What the steps of the file do to the stream. *)
LEMMA FlushedIs ==
  ASSUME NEW s \in Streams
  PROVE  Flushed(s) \in Streams /\ Flushed(s).records = s.records /\ Flushed(s).state = s.state
  <1>1. PICK rs, n, u, t, st :
          rs = s.records /\ n = Len(rs) + 1 /\ u = s.units /\ t = s.tail /\ st = s.state
    OBVIOUS
  <1>2. /\ s = [records |-> rs, units |-> u, tail |-> t, state |-> st]
        /\ rs \in Seq(Records) /\ st \in {"good", "bad"}
    BY <1>1 DEF Streams
  <1>3. n \in Nat /\ 0 \in Nat
    BY <1>1, <1>2
  <1>4. CASE st = "good"
    <2>1. Flushed(s) = [records |-> rs, units |-> n, tail |-> 0, state |-> st]
      BY <1>1, <1>2, <1>4 DEF Flushed
    <2> QED
      BY <1>1, <1>2, <1>3, <2>1, StreamFields
  <1>5. CASE st # "good"
    BY <1>1, <1>5 DEF Flushed
  <1> QED
    BY <1>4, <1>5

LEMMA FileSteps ==
  ASSUME stream \in Streams, Drain \/ Flush \/ Close \/ Break
  PROVE  /\ stream'.records = stream.records
         /\ stream'.state = "good" => stream.state = "good"
         /\ stream'.state \in {"good", "bad"}
         /\ UNCHANGED <<damage, reader, owed, overwritten>>
  <1>1. PICK rs, st : rs = stream.records /\ st = stream.state /\ st \in {"good", "bad"}
    BY DEF Streams
  <1>2. CASE Drain
    <2>1. PICK u, t : stream' = [stream EXCEPT !.units = u, !.tail = t]
      BY <1>2 DEF Drain
    <2>2. stream'.records = rs /\ stream'.state = st
      BY <1>1, <2>1 DEF Streams
    <2> QED
      BY <1>1, <1>2, <2>2 DEF Drain
  <1>3. CASE Flush
    BY <1>1, <1>3, FlushedIs DEF Flush
  <1>4. CASE Close
    <2>1. PICK s : s = Flushed(stream)
      OBVIOUS
    <2>2. s \in Streams /\ s.records = rs
      BY <1>1, <2>1, FlushedIs
    <2>3. stream' = [s EXCEPT !.state = "bad"]
      BY <1>4, <2>1 DEF Close
    <2>4. stream'.records = rs /\ stream'.state = "bad"
      BY <2>2, <2>3 DEF Streams
    <2> QED
      BY <1>1, <1>4, <2>4 DEF Close
  <1>5. CASE Break
    <2>1. stream'.records = rs /\ stream'.state = "bad"
      BY <1>1, <1>5 DEF Break, Streams
    <2> QED
      BY <1>1, <1>5, <2>1 DEF Break
  <1> QED
    BY <1>2, <1>3, <1>4, <1>5

(* All steps but those of a living exchange, a restart and a replay. *)
LEMMA FileKeeps ==
  ASSUME RecoveryInv, WriteOut \/ WriteFails \/ Stop \/ PowerFails \/ FileRots \/ EndReplay
  PROVE  RecoveryInv'
  <1>1. IInv /\ stream \in Streams
    BY DEF RecoveryInv, IInv, JournalTypeOK
  <1>2. UNCHANGED <<vars, pasts, owner, run>>
    BY DEF WriteOut, WriteFails, Stop, PowerFails, FileRots, EndReplay
  <1>3. /\ UNCHANGED <<exchange, journal, last, pasts, owner, run>>
        /\ stream.state \in {"good", "bad"}
    BY <1>1, <1>2 DEF vars, Streams
  <1>4. CASE WriteOut \/ WriteFails \/ Stop
    <2>1. UNCHANGED replayed /\ (Drain \/ Flush \/ Close \/ Break \/ UNCHANGED journalVars)
      BY <1>4 DEF WriteOut, WriteFails, Stop
    <2>2. CASE UNCHANGED journalVars
      <3>1. IInv' /\ UNCHANGED <<stream, reader, overwritten>>
        BY <1>1, <2>2, StepKeepsInv DEF journalVars
      <3> QED
        BY <1>3, <2>1, <3>1, QuietKeeps
    <2>3. CASE Drain \/ Flush \/ Close \/ Break
      <3>1. IInv'
        BY <1>1, <2>3, WriterKeepsInv DEF WriterNext
      <3> QED
        BY <1>1, <1>3, <2>1, <2>3, <3>1, FileSteps, QuietKeeps
    <2> QED
      BY <2>1, <2>2, <2>3
  <1>5. CASE PowerFails
    <2>1. LosePower
      BY <1>5 DEF PowerFails
    <2>2. IInv'
      BY <1>1, <2>1, WriterKeepsInv DEF WriterNext
    <2>3. PICK u, t : stream' = [stream EXCEPT !.units = u, !.tail = t, !.state = "bad"]
      BY <2>1 DEF LosePower
    <2>4. stream'.records = stream.records /\ stream'.state = "bad"
      BY <1>1, <2>3 DEF Streams
    <2>5. reader'.state = "none"
      BY <2>1 DEF LosePower, NoReader
    <2> QED
      BY <1>3, <2>2, <2>4, <2>5, QuietKeeps
  <1>6. CASE FileRots
    <2>1. PICK unit \in 0 .. MaxRecords, part \in Parts : Damage(unit, part)
      BY <1>6 DEF FileRots
    <2>2. IInv'
      BY <1>1, <2>1, WriterKeepsInv DEF WriterNext
    <2>3. UNCHANGED <<stream, reader, replayed, overwritten>>
      BY <1>6, <2>1 DEF FileRots, Damage
    <2> QED
      BY <1>3, <2>2, <2>3, QuietKeeps
  <1>7. CASE EndReplay
    <2>1. CloseReader
      BY <1>7 DEF EndReplay
    <2>2. IInv'
      BY <1>1, <2>1, ReaderKeepsInv DEF ReaderNext
    <2>3. UNCHANGED stream /\ reader'.state = "none"
      BY <2>1 DEF CloseReader, NoReader
    <2> QED
      BY <1>3, <2>2, <2>3, QuietKeeps
  <1> QED
    BY <1>4, <1>5, <1>6, <1>7

(* A new exchange has an empty journal. *)
JustStarted ==
  /\ exchange = NewExchange /\ journal = <<>> /\ last = NoCall
  /\ \E state \in {"good", "bad"} : stream = OpenedStream(state)
  /\ pasts = <<Rebuildable(NewExchange)>>
  /\ run \in Nat /\ owner = run

LEMMA NewHistory == JustStarted => ExchangeInv /\ HistoryInv /\ StreamInv
  <1> SUFFICES ASSUME JustStarted PROVE ExchangeInv /\ HistoryInv /\ StreamInv
    OBVIOUS
  <1> USE DEF JustStarted
  <1>1. GoodExchange(exchange) /\ exchange.next_seq = 1
    BY NewExchangeIs
  <1>2. ExchangeInv
    BY StartedInv DEF Started
  <1>3. HistoryInv
    <2>1. PICK p : p = Rebuildable(NewExchange)
      OBVIOUS
    <2>2. p \in PastStates
      BY <2>1, NewExchangeIs, RebuildableType
    <2>3. pasts \in Seq(PastStates) /\ Len(pasts) = 1 /\ pasts[1] = p
      BY <2>1, <2>2
    <2>4. Len(stream.records) = 0
      BY DEF OpenedStream
    <2> QED
      BY <2>1, <2>3, <2>4 DEF HistoryInv
  <1>4. StreamInv
    <2>1. Len(stream.records) = 0 /\ Len(journal) = 0 /\ journal \in Seq(JournalRecords)
      BY DEF OpenedStream
    <2>2. pasts[1] = Rebuildable(exchange)
      OBVIOUS
    <2> QED
      BY <2>1, <2>2 DEF StreamInv
  <1> QED
    BY <1>2, <1>3, <1>4

LEMMA RestartKeeps == ASSUME RecoveryInv, Restart PROVE RecoveryInv'
  <1>1. /\ exchange' = NewExchange /\ journal' = <<>> /\ last' = NoCall
        /\ run' = run + 1 /\ UNCHANGED replayed
    BY DEF Restart
  <1>2. /\ IInv /\ HistoryInv /\ StreamInv /\ RebuiltInv
        /\ owner \in Nat /\ run \in Nat /\ owner <= run
    BY DEF RecoveryInv, StreamInv
  <1>3. CASE \E state \in {"good", "bad"} : Reopen(state)
             /\ owner' = run + 1 /\ pasts' = <<Rebuildable(NewExchange)>>
    <2>1. PICK state \in {"good", "bad"} : Reopen(state)
      BY <1>3
    <2>2. IInv'
      BY <1>2, <2>1, WriterKeepsInv DEF WriterNext
    <2>3. JustStarted'
      BY <1>1, <1>2, <1>3, <2>1 DEF JustStarted, Reopen
    <2>4. ExchangeInv' /\ HistoryInv' /\ StreamInv'
      <3>1. JustStarted' => (ExchangeInv /\ HistoryInv /\ StreamInv)'
        BY NewHistory, PTL
      <3> QED
        BY <2>3, <3>1
    <2>5. RebuiltInv'
      <3>1. CASE reader.state = "none"
        <4>1. PICK held \in Holdings(reader, stream, damage) :
                reader' = [reader EXCEPT !.held = held]
          BY <2>1 DEF Reopen
        <4>2. reader'.state = "none"
          BY <1>2, <3>1, <4>1 DEF IInv, JournalTypeOK, Readers
        <4> QED
          BY <4>2 DEF RebuiltInv
      <3>2. CASE reader.state # "none"
        <4>1. overwritten' # {}
          BY <2>1, <3>2 DEF Reopen
        <4> QED
          BY <4>1 DEF RebuiltInv
      <3> QED
        BY <3>1, <3>2
    <2> QED
      BY <2>2, <2>4, <2>5 DEF RecoveryInv
  <1>4. CASE stream.state = "bad" /\ UNCHANGED <<journalVars, owner, pasts>>
    <2>1. UNCHANGED <<stream, reader, overwritten>>
      BY <1>4 DEF journalVars
    <2>2. IInv' /\ HistoryInv' /\ RebuiltInv'
      BY <1>1, <1>2, <1>4, <2>1, StepKeepsInv DEF HistoryInv, RebuiltInv
    <2>3. ExchangeInv'
      <3>1. Started'
        BY <1>1 DEF Started
      <3> QED
        BY <3>1, StartedInv, PTL
    <2>4. journal' \in Seq(JournalRecords)
      BY <1>1
    <2>5. StreamInv'
      BY <1>1, <1>2, <1>4, <2>1, <2>4 DEF StreamInv
    <2> QED
      BY <2>2, <2>3, <2>5 DEF RecoveryInv
  <1> QED
    BY <1>3, <1>4 DEF Restart

LEMMA StartReplayKeeps == ASSUME RecoveryInv, StartReplay PROVE RecoveryInv'
  <1>1. /\ StartReading /\ replayed' = NewReplay
        /\ UNCHANGED <<exchange, journal, last, pasts, owner, run>>
    BY DEF StartReplay, vars
  <1>2. IInv'
    BY <1>1, ReaderKeepsInv DEF ReaderNext, RecoveryInv
  <1>3. UNCHANGED stream /\ Len(reader'.records) = 0
    <2>1. reader' = OpenedReader(stream, damage) /\ UNCHANGED stream
      BY <1>1 DEF StartReading
    <2>2. reader'.records = <<>>
      BY <2>1 DEF OpenedReader
    <2> QED
      BY <2>1, <2>2
  <1>4. /\ ExchangeInv' /\ HistoryInv' /\ StreamInv'
    BY <1>1, <1>3 DEF RecoveryInv, ExchangeInv, HistoryInv, StreamInv
  <1>5. RebuiltInv'
    <2>1. replayed'.exchange = NewExchange
      BY <1>1 DEF NewReplay
    <2>2. pasts'[1] = Rebuildable(NewExchange)
      BY <1>4 DEF HistoryInv
    <2>3. Len(reader'.records) + 1 = 1
      BY <1>3
    <2> QED
      BY <2>1, <2>2, <2>3, NewExchangeIs DEF RebuiltInv
  <1> QED
    BY <1>2, <1>4, <1>5 DEF RecoveryInv

(* The record a reader returns of a file not truncated is the next one there. *)
LEMMA ReadReturns ==
  ASSUME IInv, Read, overwritten = {}
  PROVE  \/ reader'.records = reader.records
         \/ /\ NextUnit(reader) \in 1 .. Len(stream.records)
            /\ reader'.records = Append(reader.records, stream.records[NextUnit(reader)])
  <1>1. /\ reader \in Readers /\ reader' \in ReadNext(reader, stream, damage)
    BY DEF Read, IInv, JournalTypeOK
  <1>2. CASE reader' = [reader EXCEPT !.state = "done"]
    BY <1>1, <1>2 DEF Readers
  <1>3. ASSUME NEW j \in Judgements(reader, stream, damage), reader' = Given(reader, j)
        PROVE  \/ reader'.records = reader.records
               \/ /\ NextUnit(reader) \in 1 .. Len(stream.records)
                  /\ reader'.records = Append(reader.records, stream.records[NextUnit(reader)])
    <2>1. CASE j.error # "None"
      <3>1. reader' = [reader EXCEPT !.state = "done", !.error = j.error]
        BY <1>3, <2>1 DEF Given
      <3> QED
        BY <1>1, <3>1 DEF Readers
    <2>2. CASE j.error = "None"
      <3>1. PICK record : record = j.record
        OBVIOUS
      <3>2. record = stream.records[NextUnit(reader)] /\ NextUnit(reader) < stream.units
        BY <2>2, <3>1, JudgedIsAppended
      <3>3. PICK rs : rs = Append(reader.records, record)
        OBVIOUS
      <3>4. reader' = [reader EXCEPT !.records = rs, !.held = NoBytes]
        BY <1>3, <2>2, <3>1, <3>3 DEF Given
      <3>5. reader'.records = rs
        BY <1>1, <3>4 DEF Readers
      <3>6. NextUnit(reader) \in 1 .. Len(stream.records)
        <4>1. /\ NextUnit(reader) \in Nat /\ NextUnit(reader) > 0
              /\ Len(stream.records) \in Nat /\ stream.units \in Nat
              /\ stream.units <= Len(stream.records) + 1
          BY BytesAreThere DEF IInv, JournalTypeOK, Streams
        <4> QED
          BY <3>2, <4>1
      <3> QED
        BY <3>2, <3>3, <3>5, <3>6
    <2> QED
      BY <2>1, <2>2
  <1>4. \/ reader' = [reader EXCEPT !.state = "done"]
        \/ \E j \in Judgements(reader, stream, damage) : reader' = Given(reader, j)
    BY <1>1 DEF ReadNext
  <1> QED
    BY <1>2, <1>3, <1>4

LEMMA ReplayNextKeeps == ASSUME RecoveryInv, ReplayNext PROVE RecoveryInv'
  <1>1. /\ Read /\ replayed' = ReplayedAfter(replayed, reader')
        /\ UNCHANGED <<exchange, journal, last, pasts, owner, run>>
    BY DEF ReplayNext, vars
  <1>2. IInv /\ HistoryInv /\ StreamInv /\ RebuiltInv
    BY DEF RecoveryInv
  <1>3. IInv'
    BY <1>1, <1>2, ReaderKeepsInv DEF ReaderNext
  <1>4. UNCHANGED <<stream, overwritten>> /\ reader.state # "none"
    BY <1>1 DEF Read
  <1>5. ExchangeInv' /\ HistoryInv' /\ StreamInv'
    BY <1>1, <1>4 DEF RecoveryInv, ExchangeInv, HistoryInv, StreamInv
  <1>6. RebuiltInv'
    <2> SUFFICES ASSUME overwritten = {} PROVE RebuiltInv'
      BY <1>4 DEF RebuiltInv
    <2>1. PICK e, p, rs, k, record :
            /\ e = replayed.exchange /\ p = Rebuildable(e)
            /\ rs = reader.records /\ k = Len(rs) + 1 /\ record = stream.records[k]
      OBVIOUS
    <2>2. GoodExchange(e) /\ p = pasts[k]
      BY <1>2, <1>4, <2>1 DEF RebuiltInv
    <2>3. CASE reader'.records = rs
      <3>1. replayed' = replayed
        BY <1>1, <2>1, <2>3 DEF ReplayedAfter
      <3> QED
        BY <1>1, <2>1, <2>2, <2>3, <3>1 DEF RebuiltInv
    <2>4. CASE k \in 1 .. Len(stream.records) /\ reader'.records = Append(rs, record)
      <3>1. /\ rs \in Seq(Records \cup {NoRecord}) /\ stream.records \in Seq(Records)
            /\ Len(rs) \in Nat
        BY <1>2, <2>1 DEF IInv, JournalTypeOK, Readers, Streams
      <3>2. record \in Records /\ record # NoRecord
        BY <2>1, <2>4, <3>1, RecordAssumption
      <3>3. /\ Len(reader'.records) = k /\ reader'.records[k] = record
            /\ k # Len(rs)
        BY <2>1, <2>4, <3>1, <3>2
      <3>4. Applicable(record) /\ Leads(pasts[k], record, pasts[k + 1])
        BY <1>2, <2>1, <2>4 DEF HistoryInv
      <3>5. PICK s, x : s = ApplySequenced(e, record) /\ x = s.exchange
        OBVIOUS
      <3>6. replayed' = Republished(replayed, s)
        BY <1>1, <2>1, <3>2, <3>3, <3>5 DEF ReplayedAfter
      <3>7. replayed'.exchange = x
        <4>1. PICK md, thrown : md = replayed.md \o s.md /\ thrown = s.thrown
          OBVIOUS
        <4>2. replayed' = [exchange |-> x, md |-> md, thrown |-> thrown]
          BY <3>5, <3>6, <4>1 DEF Republished
        <4> QED
          BY <4>2
      <3>8. GoodExchange(x)
        BY <2>2, <3>4, <3>5, ApplyKeepsGood
      <3>9. Rebuildable(x) = pasts[k + 1]
        BY <2>1, <2>2, <3>4, <3>5 DEF Leads
      <3> QED
        BY <1>1, <3>3, <3>7, <3>8, <3>9 DEF RebuiltInv
    <2> QED
      BY <1>1, <1>2, <2>1, <2>3, <2>4, ReadReturns DEF NextUnit
  <1> QED
    BY <1>3, <1>5, <1>6 DEF RecoveryInv

-----------------------------------------------------------------------------
(* The invariant holds of every behaviour. *)
LEMMA RecoveryInitInv == RecoveryInit => RecoveryInv
  <1> SUFFICES ASSUME RecoveryInit PROVE RecoveryInv
    OBVIOUS
  <1>1. JustStarted
    BY DEF RecoveryInit, Init, JustStarted
  <1>2. reader.state = "none"
    BY DEF RecoveryInit, NoReader
  <1>3. IInv
    BY InitHolds DEF RecoveryInit, JournalInit
  <1> QED
    BY <1>1, <1>2, <1>3, NewHistory DEF RecoveryInv, RebuiltInv

LEMMA RecoveryStepInv ==
  ASSUME Journaling
  PROVE  RecoveryInv /\ [RecoveryNext]_recoveryVars => RecoveryInv'
  <1> SUFFICES ASSUME RecoveryInv, [RecoveryNext]_recoveryVars PROVE RecoveryInv'
    OBVIOUS
  <1>1. CASE Serve
    <2>1. exchange.next_seq \in Nat
      BY DEF RecoveryInv, ExchangeInv, GoodExchange
    <2>2. \/ \E cmd, sc, r : Sequences(cmd, sc, r)
          \/ \E cmd, reason, r : RefusesFrame(cmd, reason, r)
      BY <1>1, <2>1, NextIs DEF Serve
    <2>3. ASSUME NEW cmd, NEW sc, NEW r, Sequences(cmd, sc, r) PROVE RecoveryInv'
      BY <1>1, <2>3, ServeSequenced
    <2>4. ASSUME NEW cmd, NEW reason, NEW r, RefusesFrame(cmd, reason, r) PROVE RecoveryInv'
      BY <1>1, <2>4, ServeRefused
    <2> QED
      BY <2>2, <2>3, <2>4
  <1>2. CASE WriteOut \/ WriteFails \/ Stop \/ PowerFails \/ FileRots \/ EndReplay
    BY <1>2, FileKeeps
  <1>3. CASE Restart
    BY <1>3, RestartKeeps
  <1>4. CASE StartReplay
    BY <1>4, StartReplayKeeps
  <1>5. CASE ReplayNext
    BY <1>5, ReplayNextKeeps
  <1>6. CASE UNCHANGED recoveryVars
    <2>1. /\ UNCHANGED <<exchange, journal, last, pasts, stream, reader, replayed>>
          /\ UNCHANGED <<overwritten, owner, run>> /\ UNCHANGED journalVars
      BY <1>6 DEF recoveryVars, vars, journalVars
    <2>2. IInv' /\ stream.state \in {"good", "bad"}
      BY <2>1, StepKeepsInv DEF RecoveryInv, IInv, JournalTypeOK, Streams
    <2> QED
      BY <2>1, <2>2, QuietKeeps
  <1> QED
    BY <1>1, <1>2, <1>3, <1>4, <1>5, <1>6 DEF RecoveryNext

LEMMA RecoveryInvariance == ASSUME Journaling PROVE RecoverySpec => []RecoveryInv
  <1>1. RecoveryInv /\ [RecoveryNext]_recoveryVars => RecoveryInv'
    BY RecoveryStepInv
  <1> QED
    BY <1>1, RecoveryInitInv, PTL DEF RecoverySpec

(***************************************************************************)
(* Whenever the exchange died, was restarted or is still writing, a replay *)
(* has rebuilt the exchange, as it was in the run whose file it reads,     *)
(* after as many commands as it has read; and one that ends lacks none     *)
(* that a flush handed over before it began, unless the power failed or    *)
(* the file is bad (process_command, JournalWriter::append and flush,      *)
(* JournalReader::next, replay_journal).  A replay during which a restart  *)
(* truncates its file is excepted.                                         *)
(***************************************************************************)
THEOREM RecoveryCorrect == ASSUME Journaling PROVE RecoverySpec => []RecoversAPast
  <1>1. ASSUME RecoveryInv PROVE RecoversAPast
    <2> SUFFICES ASSUME reader.state # "none", overwritten = {}
                 PROVE  /\ Len(reader.records) < Len(pasts)
                        /\ Rebuildable(replayed.exchange) = pasts[Len(reader.records) + 1]
                        /\ reader.state = "done" /\ damage = {} /\ owed > 0 =>
                             Len(reader.records) >= owed - 1
      BY DEF RecoversAPast
    <2>1. IInv /\ HistoryInv /\ RebuiltInv
      BY <1>1 DEF RecoveryInv
    <2>2. Len(reader.records) < Len(pasts)
      BY <2>1, NotPastTheEnd DEF HistoryInv
    <2>3. Rebuildable(replayed.exchange) = pasts[Len(reader.records) + 1]
      BY <2>1 DEF RebuiltInv
    <2>4. reader.state = "done" /\ damage = {} /\ owed > 0 => Len(reader.records) >= owed - 1
      BY <2>1 DEF IInv, FlushedReadsBack
    <2> QED
      BY <2>2, <2>3, <2>4
  <1> QED
    BY <1>1, RecoveryInvariance, PTL

(***************************************************************************)
(* After a flush that nothing followed, or the destructor, a replay that   *)
(* ends has the exchange of now, unless the file is bad, is an earlier     *)
(* run's because this one could not open it, or was truncated meanwhile    *)
(* (Exchange::flush_journal).                                              *)
(***************************************************************************)
THEOREM FlushCorrect == ASSUME Journaling PROVE RecoverySpec => []FlushedIsNow
  <1>1. ASSUME RecoveryInv PROVE FlushedIsNow
    <2> SUFFICES ASSUME reader.state = "done", damage = {}, overwritten = {}, owner = run,
                        owed > 0, owed = Len(journal) + 1
                 PROVE  /\ reader.error = "None"
                        /\ Rebuildable(replayed.exchange) = Rebuildable(exchange)
      BY DEF FlushedIsNow
    <2>1. IInv /\ HistoryInv /\ StreamInv /\ RebuiltInv
      BY <1>1 DEF RecoveryInv
    <2>2. PICK k, l, n : k = Len(reader.records) /\ l = Len(stream.records) /\ n = Len(journal)
      OBVIOUS
    <2>3. k \in Nat /\ l \in Nat /\ n \in Nat /\ k <= l
      BY <2>1, <2>2, NotPastTheEnd DEF StreamInv
    <2>4. /\ l <= n /\ k >= owed - 1
          /\ owed = l + 1 => reader.error = "None"
      BY <2>1, <2>2 DEF IInv, StreamInv, FlushedReadsBack
    <2>5. k = n /\ l = n
      BY <2>2, <2>3, <2>4
    <2>6. Rebuildable(replayed.exchange) = pasts[n + 1]
      BY <2>1, <2>2, <2>5 DEF RebuiltInv
    <2>7. pasts[n + 1] = Rebuildable(exchange)
      BY <2>1, <2>2, <2>5 DEF StreamInv
    <2> QED
      BY <2>2, <2>4, <2>5, <2>6, <2>7
  <1> QED
    BY <1>1, RecoveryInvariance, PTL

(***************************************************************************)
(* What JournalProofs proves of the file alone holds of the file of an     *)
(* exchange, through any number of crashes and restarts, also during a     *)
(* read: a reader returns the records appended, each whole and in its      *)
(* place, of one run or of several if the file was truncated under it; and *)
(* all that was flushed if it was not (JournalReader::next).               *)
(***************************************************************************)
THEOREM RecoveryReadsBack ==
  ASSUME Journaling
  PROVE  RecoverySpec => [](JournalTypeOK /\ ReadsWhatWasAppended /\ FlushedReadsBack)
  <1>1. RecoveryInv => JournalTypeOK /\ ReadsWhatWasAppended /\ FlushedReadsBack
    BY DEF RecoveryInv, IInv
  <1> QED
    BY <1>1, RecoveryInvariance, PTL
=============================================================================
