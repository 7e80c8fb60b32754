--------------------------- MODULE ExchangeRecovery ---------------------------
(***************************************************************************)
(* The exchange with its journal in a file, and replay_journal             *)
(* (src/exchange.cpp) as a process of its own that reads the file record   *)
(* by record while the exchange may still be writing, or after it died, or *)
(* while it starts again: what a crash leaves is what a replay can tell of *)
(* the exchange.                                                           *)
(*                                                                         *)
(* A command is acknowledged when it was appended to the stream; nothing   *)
(* waits for the file, and nothing looks at whether a write succeeded.     *)
(***************************************************************************)
EXTENDS Exchange, JournalFile

CONSTANT MaxRuns   \* bound: how often the exchange is started

(* Whatever the exchange sequences can be journaled. *)
ASSUME JournalAssumption ==
  [seq : 1 .. MaxSeq, recv_ts_ns : Times, cmd : Commands] \subseteq Records

VARIABLES
  running,    \* the process of the exchange lives
  run,        \* how often it was started
  replayed,   \* [exchange, md, thrown]: what the replay has made of the records
  owner,      \* the run whose file it is, the last that could open it (history)
  pasts       \* the exchange after every record of that run's stream, from none
              \* (history)

recoveryVars == <<vars, journalVars, running, run, replayed, owner, pasts>>

NewReplay == [exchange |-> NewExchange, md |-> <<>>, thrown |-> FALSE]

(* What a replay rebuilds. *)
Rebuildable(e) == [manager |-> e.manager, accounts |-> e.accounts]

RecoveryInit ==
  /\ Init
  /\ \E state \in {"good", "bad"} : stream = OpenedStream(state)
  /\ damage = {} /\ reader = NoReader /\ flushed = 0 /\ owed = 0 /\ overwritten = {}
  /\ running = TRUE
  /\ run = 1
  /\ owner = 1
  /\ replayed = NewReplay
  /\ pasts = <<Rebuildable(NewExchange)>>

(* A call of the exchange; a sequenced command goes to the stream. *)
Serve ==
  /\ running
  /\ Next
  /\ stream' = IF journal' = journal THEN stream
               ELSE Appended(stream, journal'[Len(journal')])
  /\ pasts' = IF stream' = stream THEN pasts ELSE Append(pasts, Rebuildable(exchange'))
  /\ UNCHANGED <<damage, reader, flushed, owed, overwritten, running, run, replayed, owner>>

(* The stream writes out what it likes, or all of it at flush_journal. *)
WriteOut ==
  /\ running
  /\ Drain \/ Flush
  /\ UNCHANGED <<vars, running, run, replayed, owner, pasts>>

(* A write fails; the exchange goes on. *)
WriteFails ==
  /\ running
  /\ Break
  /\ UNCHANGED <<vars, running, run, replayed, owner, pasts>>

(* The exchange ends: by its destructor, killed, or with the machine. *)
Stop ==
  /\ running
  /\ \/ Close \/ Break
     \/ stream.state = "bad" /\ UNCHANGED journalVars
  /\ running' = FALSE
  /\ UNCHANGED <<vars, run, replayed, owner, pasts>>

PowerFails ==
  /\ LosePower
  /\ running' = FALSE
  /\ replayed' = NewReplay
  /\ UNCHANGED <<vars, run, owner, pasts>>

(* Part of the file goes bad while no exchange writes it.  Bound: nor does *)
(* anybody read it.                                                        *)
FileRots ==
  /\ ~ running /\ reader.state = "none"
  /\ \E unit \in 0 .. MaxRecords, part \in Parts : Damage(unit, part)
  /\ UNCHANGED <<vars, running, run, replayed, owner, pasts>>

(***************************************************************************)
(* The exchange starts again, from nothing, whoever reads the journal.  If *)
(* the file cannot be opened, it stays that of an earlier run.             *)
(***************************************************************************)
Restart ==
  /\ ~ running /\ run < MaxRuns
  /\ \/ /\ \E state \in {"good", "bad"} : Reopen(state)
        /\ owner' = run + 1
        /\ pasts' = <<Rebuildable(NewExchange)>>
     \/ stream.state = "bad" /\ UNCHANGED <<journalVars, owner, pasts>>
  /\ exchange' = NewExchange
  /\ journal' = <<>>
  /\ md_checksum' = <<>>
  /\ last' = NoCall
  /\ running' = TRUE
  /\ run' = run + 1
  /\ UNCHANGED <<clock, replayed>>

(* replay_journal. *)
StartReplay ==
  /\ StartReading
  /\ replayed' = NewReplay
  /\ UNCHANGED <<vars, running, run, owner, pasts>>

(* The replay once the reader has become rd: a record it returned is applied, *)
(* unless its bytes are not those of one.                                     *)
ReplayedAfter(r, rd) ==
  IF Len(rd.records) = Len(reader.records) \/ rd.records[Len(rd.records)] = NoRecord
  THEN r
  ELSE Republished(r, ApplySequenced(r.exchange, rd.records[Len(rd.records)]))

ReplayNext ==
  /\ ~ replayed.thrown
  /\ Read
  /\ replayed' = ReplayedAfter(replayed, reader')
  /\ UNCHANGED <<vars, running, run, owner, pasts>>

EndReplay ==
  /\ CloseReader
  /\ replayed' = NewReplay
  /\ UNCHANGED <<vars, running, run, owner, pasts>>

RecoveryNext ==
  \/ Serve \/ WriteOut \/ WriteFails \/ Stop \/ PowerFails \/ FileRots \/ Restart
  \/ StartReplay \/ ReplayNext \/ EndReplay

RecoverySpec == RecoveryInit /\ [][RecoveryNext]_recoveryVars

-----------------------------------------------------------------------------
(***************************************************************************)
(* Whenever the exchange died, whatever of the file survived, and also     *)
(* while it is still writing: a replay has rebuilt the exchange as it was, *)
(* in the run whose file it is, after as many commands as it has read; and *)
(* one that ends has read at least the commands acknowledged before the    *)
(* last flush, unless the power failed or the file is damaged.  A replay   *)
(* whose file was truncated meanwhile is excepted: it may go on with the   *)
(* records of the new run and rebuild what the exchange never was.         *)
(***************************************************************************)
RecoversAPast ==
  reader.state # "none" /\ overwritten = {} =>
    /\ Len(reader.records) < Len(pasts)
    /\ Rebuildable(replayed.exchange) = pasts[Len(reader.records) + 1]
    /\ reader.state = "done" /\ damage = {} /\ owed > 0 =>
         Len(reader.records) >= owed - 1

(***************************************************************************)
(* A replay that ends without an error has the exchange of now, if the     *)
(* file is this run's and was not truncated since the replay opened it,    *)
(* the exchange shut down by its destructor and all writes succeeded, or   *)
(* it was flushed after the last command, and the file is not damaged;     *)
(* otherwise it lacks the last commands, or is of another run.             *)
(***************************************************************************)
FlushedIsNow ==
  /\ reader.state = "done" /\ damage = {} /\ overwritten = {} /\ owner = run
  /\ owed > 0 /\ owed = Len(journal) + 1
  => /\ reader.error = "None"
     /\ Rebuildable(replayed.exchange) = Rebuildable(exchange)
=============================================================================
